---------------------------- MODULE NetStatProofs ----------------------------
(***************************************************************************)
(* Proofs about NetStat.tla for any processes, sockets, tables and command  *)
(* lines, and however the world changes meanwhile.                          *)
(***************************************************************************)
EXTENDS NetStat, FiniteSetsExt, SequenceTheorems, FiniteSetTheorems, TLAPS

-----------------------------------------------------------------------------
(* Least and greatest elements of sets of numbers.                           *)

LEMMA LeastExists ==
  ASSUME NEW S, S \subseteq Nat, S # {}
  PROVE  \E m \in S : \A k \in S : m <= k
<1> DEFINE R == {ss \in Nat \X Nat : ss[1] < ss[2]}
<1>1. IsWellFoundedOn(R, Nat)
  BY NatLessThanWellFounded DEF OpToRel
<1>2. \A k, m \in Nat : k < m => <<k, m>> \in R
  OBVIOUS
<1> HIDE DEF R
<1>3. PICK m \in S : \A k \in S : ~ (<<k, m>> \in R)
  BY <1>1, WFMin
<1>4. \A k \in S : ~(k < m)
  BY <1>2, <1>3
<1> QED BY <1>4

LEMMA MinIs ==
  ASSUME NEW S, S \subseteq Nat, S # {}
  PROVE  Min(S) \in S /\ \A k \in S : Min(S) <= k
<1>1. \E m \in S : \A k \in S : m <= k
  BY LeastExists
<1> QED BY <1>1 DEF Min

\* What lies above the greatest element is the smallest set of its kind.
LEMMA GreatestExists ==
  ASSUME NEW S, S \subseteq Nat, IsFiniteSet(S), S # {}
  PROVE  \E m \in S : \A k \in S : m >= k
<1> DEFINE Above(m) == {k \in S : k > m}
           Aboves == {Above(m) : m \in S}
           R == StrictSubsetOrdering(S)
<1>1. IsWellFoundedOn(R, FiniteSubsetsOf(S))
  BY FS_StrictSubsetOrderingWellFounded
<1>2. Aboves \subseteq FiniteSubsetsOf(S) /\ Aboves # {}
  <2>1. FiniteSubsetsOf(S) = SUBSET S
    BY FS_FiniteSubsetsOfFinite
  <2>2. \A m \in S : Above(m) \in SUBSET S
    OBVIOUS
  <2> HIDE DEF Above
  <2>3. \A m \in S : Above(m) \in Aboves
    OBVIOUS
  <2> QED BY <2>1, <2>2, <2>3
<1>3. PICK T \in Aboves : \A U \in Aboves : ~ (<<U, T>> \in R)
  <2> HIDE DEF Aboves, R
  <2> QED BY <1>1, <1>2, WFMin
<1>4. PICK m \in S : T = Above(m)
  OBVIOUS
<1>5. ASSUME NEW k \in S, ~(m >= k)
      PROVE  FALSE
  <2>1. k > m /\ k \in Nat /\ m \in Nat
    BY <1>5
  <2>2. k \in Above(m) /\ k \notin Above(k)
    BY <2>1
  <2>3. \A j \in S : j > k => j > m
    BY <2>1
  <2>4. Above(k) \subseteq Above(m)
    BY <2>3
  <2>5. Above(m) \in SUBSET S /\ Above(k) \in SUBSET S /\ Above(k) # Above(m)
    BY <2>2
  <2> HIDE DEF Above
  <2>6. <<Above(k), T>> \in R
    BY <1>4, <2>4, <2>5 DEF StrictSubsetOrdering
  <2>7. Above(k) \in Aboves
    OBVIOUS
  <2> QED BY <1>3, <2>6, <2>7
<1> QED BY <1>5

LEMMA MaxIs ==
  ASSUME NEW S, S \subseteq Nat, IsFiniteSet(S), S # {}
  PROVE  Max(S) \in S /\ \A k \in S : k <= Max(S)
<1>1. \E m \in S : \A k \in S : m >= k
  BY GreatestExists
<1>2. Max(S) \in S /\ \A k \in S : Max(S) >= k
  BY <1>1 DEF Max
<1> QED BY <1>2

-----------------------------------------------------------------------------
(* Addresses.                                                               *)

LEMMA SeqOfFunction ==
  ASSUME NEW n \in Nat, NEW S, NEW s \in [1 .. n -> S]
  PROVE  s \in Seq(S) /\ Len(s) = n
<1>1. s \in Seq(S)
  BY SeqDef
<1>2. Len(s) \in Nat /\ DOMAIN s = 1 .. Len(s)
  BY <1>1, LenProperties
<1>3. DOMAIN s = 1 .. n
  OBVIOUS
<1> QED BY <1>1, <1>2, <1>3

IsJoined(s, a, b, c) == s = a \o b \o c

LEMMA ThreeParts ==
  ASSUME NEW m \in Nat, NEW a \in Seq(Nat), NEW b \in Seq(Nat), NEW c \in Seq(Nat),
         Len(a) = m, Len(b) = 2, Len(c) = 2, NEW s, IsJoined(s, a, b, c)
  PROVE  /\ \A d \in 1 .. m : s[d] = a[d]
         /\ s[m + 1] = b[1] /\ s[m + 2] = b[2]
         /\ s[m + 3] = c[1] /\ s[m + 4] = c[2]
<1> DEFINE ab == a \o b
           abc == ab \o c
<1>1. /\ ab \in Seq(Nat) /\ Len(ab) = Len(a) + Len(b)
      /\ \A i \in 1 .. Len(a) + Len(b) : ab[i] = IF i <= Len(a) THEN a[i] ELSE b[i - Len(a)]
  BY ConcatProperties
<1> HIDE DEF ab
<1>2. /\ Len(abc) = Len(ab) + Len(c)
      /\ \A i \in 1 .. Len(ab) + Len(c) :
           abc[i] = IF i <= Len(ab) THEN ab[i] ELSE c[i - Len(ab)]
  <2>1. ab \in Seq(Nat)
    BY <1>1
  <2> QED BY <2>1, ConcatProperties
<1> HIDE DEF abc
<1>3. Len(ab) = m + 2 /\ Len(ab) + Len(c) = m + 4 /\ Len(a) + Len(b) = m + 2
  BY <1>1
<1>4. /\ \A i \in 1 .. m + 2 : ab[i] = IF i <= m THEN a[i] ELSE b[i - m]
      /\ \A i \in 1 .. m + 4 : abc[i] = IF i <= m + 2 THEN ab[i] ELSE c[i - (m + 2)]
  BY <1>1, <1>2, <1>3
<1>5. \A d \in 1 .. m : abc[d] = a[d]
  <2>1. \A d \in 1 .. m : d \in 1 .. m + 2 /\ d \in 1 .. m + 4 /\ d <= m /\ d <= m + 2
    OBVIOUS
  <2> QED BY <1>4, <2>1
<1>6. abc[m + 1] = b[1] /\ abc[m + 2] = b[2]
  <2>1. /\ m + 1 \in 1 .. m + 2 /\ m + 1 \in 1 .. m + 4 /\ ~(m + 1 <= m) /\ m + 1 <= m + 2
        /\ m + 2 \in 1 .. m + 2 /\ m + 2 \in 1 .. m + 4 /\ ~(m + 2 <= m) /\ m + 2 <= m + 2
        /\ (m + 1) - m = 1 /\ (m + 2) - m = 2
    OBVIOUS
  <2> QED BY <1>4, <2>1
<1>7. abc[m + 3] = c[1] /\ abc[m + 4] = c[2]
  <2>1. /\ m + 3 \in 1 .. m + 4 /\ ~(m + 3 <= m + 2) /\ (m + 3) - (m + 2) = 1
        /\ m + 4 \in 1 .. m + 4 /\ ~(m + 4 <= m + 2) /\ (m + 4) - (m + 2) = 2
    OBVIOUS
  <2> QED BY <1>4, <2>1
<1>8. s = abc
  BY DEF ab, abc, IsJoined
<1> QED BY <1>5, <1>6, <1>7, <1>8

LEMMA HexByteIs ==
  ASSUME NEW b \in Nat
  PROVE  /\ HexByte(b) \in Seq(Nat) /\ Len(HexByte(b)) = 2
         /\ HexByte(b)[1] = b \div 16 /\ HexByte(b)[2] = b % 16
         /\ \A e \in {1, 2} : HexByte(b)[e] \in Nat
<1>1. b \div 16 \in Nat /\ b % 16 \in Nat
  OBVIOUS
<1> DEFINE x == b \div 16
           y == b % 16
<1> HIDE DEF x, y
<1>2. <<x, y>> \in Seq(Nat) /\ Len(<<x, y>>) = 2 /\ <<x, y>>[1] = x /\ <<x, y>>[2] = y
      /\ x \in Nat /\ y \in Nat
  BY <1>1 DEF x, y
<1> QED BY <1>2 DEF HexByte, x, y

\* The byte that comes at the k-th place of a printed address.
From(k) == 4 * ((k - 1) \div 4) + 4 - ((k - 1) % 4)

Digits(bytes, n) ==
  [d \in 1 .. 2 * n |-> HexByte(bytes[From((d + 1) \div 2)])[2 - (d % 2)]]

LEMMA DigitsAre ==
  ASSUME NEW n \in {4, 16}, NEW bytes \in [1 .. n -> Byte]
  PROVE  Digits(bytes, n) \in Seq(Nat) /\ Len(Digits(bytes, n)) = 2 * n
<1>1. ASSUME NEW d \in 1 .. 2 * n
      PROVE  HexByte(bytes[From((d + 1) \div 2)])[2 - (d % 2)] \in Nat
  <2>1. (d + 1) \div 2 \in 1 .. n
    BY SMT
  <2>2. ASSUME NEW k \in 1 .. n
        PROVE  From(k) \in 1 .. n
    BY SMT DEF From
  <2>3. bytes[From((d + 1) \div 2)] \in Nat
    <3> DEFINE at == From((d + 1) \div 2)
    <3>1. at \in 1 .. n
      BY <2>1, <2>2
    <3> HIDE DEF at
    <3>2. bytes[at] \in Byte
      BY <3>1
    <3>3. \A x \in Byte : x \in Nat
      BY SMT DEF Byte
    <3>4. bytes[at] \in Nat
      BY <3>2, <3>3, Zenon
    <3> QED BY <3>4 DEF at
  <2>4. 2 - (d % 2) = 1 \/ 2 - (d % 2) = 2
    BY SMT
  <2> DEFINE b == bytes[From((d + 1) \div 2)]
             e == 2 - (d % 2)
  <2>5. b \in Nat /\ e \in {1, 2}
    BY <2>3, <2>4
  <2> HIDE DEF b, e
  <2>6. HexByte(b)[e] \in Nat
    <3>1. \A c \in {1, 2} : HexByte(b)[c] \in Nat
      BY <2>5, HexByteIs
    <3> QED BY <2>5, <3>1
  <2> QED BY <2>6 DEF b, e
<1>2. 2 * n \in Nat
  BY SMT
<1> DEFINE m == 2 * n
<1>3. Digits(bytes, n) \in [1 .. m -> Nat]
  BY <1>1 DEF Digits
<1> HIDE DEF m
<1>4. m \in Nat
  BY <1>2 DEF m
<1>5. Digits(bytes, n) \in Seq(Nat) /\ Len(Digits(bytes, n)) = m
  BY <1>3, <1>4, SeqOfFunction
<1> QED BY <1>5 DEF m

\* The kernel's field: two digits for each byte, and four for the port.
LEMMA FieldDigits ==
  ASSUME NEW n \in {4, 16}, NEW bytes \in [1 .. n -> Byte], NEW port \in Port,
         NEW address, address = [addr |-> bytes, port |-> port]
  PROVE  /\ \A d \in 1 .. 2 * n : Field(address)[d] = Digits(bytes, n)[d]
         /\ Field(address)[2 * n + 1] = HexByte(port \div 256)[1]
         /\ Field(address)[2 * n + 2] = HexByte(port \div 256)[2]
         /\ Field(address)[2 * n + 3] = HexByte(port % 256)[1]
         /\ Field(address)[2 * n + 4] = HexByte(port % 256)[2]
<1> DEFINE high == HexByte(port \div 256)
           low == HexByte(port % 256)
           digits == Digits(bytes, n)
           m == 2 * n
<1>1. Len(bytes) = n
  <2>1. n \in Nat
    BY SMT
  <2> QED BY <2>1, SeqOfFunction
<1>2. address.addr = bytes /\ address.port = port
  OBVIOUS
<1>3. Field(address) = digits \o high \o low
  BY <1>1, <1>2 DEF Field, Digits, From
<1>4. port \div 256 \in Nat /\ port % 256 \in Nat
  BY SMT DEF Port
<1>5. high \in Seq(Nat) /\ Len(high) = 2
  BY <1>4, HexByteIs
<1>6. low \in Seq(Nat) /\ Len(low) = 2
  BY <1>4, HexByteIs
<1>7. digits \in Seq(Nat) /\ Len(digits) = m
  BY DigitsAre
<1>8. m \in Nat
  BY SMT
<1> HIDE DEF high, low, digits, m
<1> DEFINE field == Field(address)
<1>9. field = digits \o high \o low
  BY <1>3
<1> HIDE DEF field
<1>10. /\ \A d \in 1 .. m : field[d] = digits[d]
       /\ field[m + 1] = high[1] /\ field[m + 2] = high[2]
       /\ field[m + 3] = low[1] /\ field[m + 4] = low[2]
  <2>1. /\ m \in Nat /\ digits \in Seq(Nat) /\ high \in Seq(Nat) /\ low \in Seq(Nat)
        /\ Len(digits) = m /\ Len(high) = 2 /\ Len(low) = 2
        /\ IsJoined(field, digits, high, low)
    BY <1>5, <1>6, <1>7, <1>8, <1>9 DEF IsJoined
  <2> QED BY <2>1, ThreeParts, SMTT(60)
<1> QED BY <1>10 DEF field, m, digits, high, low

LEMMA PortBack ==
  ASSUME NEW port \in Port
  PROVE  256 * (16 * HexByte(port \div 256)[1] + HexByte(port \div 256)[2])
           + (16 * HexByte(port % 256)[1] + HexByte(port % 256)[2]) = port
<1>1. port \div 256 \in Nat /\ port % 256 \in Nat /\ 256 * (port \div 256) + (port % 256) = port
  BY SMT DEF Port
<1>2. \A b \in Nat : 16 * HexByte(b)[1] + HexByte(b)[2] = b
  <2>1. \A b \in Nat : 16 * (b \div 16) + (b % 16) = b
    BY SMT
  <2> QED BY <2>1, HexByteIs
<1> QED BY <1>1, <1>2

\* Addresses come back as they were, and so do ports.
LEMMA AddressV4 ==
  ASSUME NEW bytes \in [1 .. 4 -> Byte], NEW port \in Port,
         NEW address, address = [addr |-> bytes, port |-> port]
  PROVE  addr_hex2dec_v4(Field(address)) = address
<1> DEFINE field == Field(address)
           digits == Digits(bytes, 4)
<1>1. /\ \A d \in 1 .. 8 : field[d] = digits[d]
      /\ field[9] = HexByte(port \div 256)[1] /\ field[10] = HexByte(port \div 256)[2]
      /\ field[11] = HexByte(port % 256)[1] /\ field[12] = HexByte(port % 256)[2]
  <2>1. ASSUME NEW n \in {4, 16}, n = 4
        PROVE  /\ \A d \in 1 .. 2 * n : field[d] = Digits(bytes, n)[d]
               /\ field[2 * n + 1] = HexByte(port \div 256)[1]
               /\ field[2 * n + 2] = HexByte(port \div 256)[2]
               /\ field[2 * n + 3] = HexByte(port % 256)[1]
               /\ field[2 * n + 4] = HexByte(port % 256)[2]
    BY <2>1, FieldDigits
  <2> HIDE DEF field
  <2>2. 4 \in {4, 16} /\ 2 * 4 = 8 /\ 8 + 1 = 9 /\ 8 + 2 = 10 /\ 8 + 3 = 11 /\ 8 + 4 = 12
    OBVIOUS
  <2> QED BY <2>1, <2>2
<1>2. \A k \in 1 .. 4 : bytes[k] \in Nat
  BY DEF Byte
<1>3. /\ digits[1] = bytes[4] \div 16 /\ digits[2] = bytes[4] % 16
      /\ digits[3] = bytes[3] \div 16 /\ digits[4] = bytes[3] % 16
      /\ digits[5] = bytes[2] \div 16 /\ digits[6] = bytes[2] % 16
      /\ digits[7] = bytes[1] \div 16 /\ digits[8] = bytes[1] % 16
  <2>1. /\ (1 + 1) \div 2 = 1 /\ 2 - (1 % 2) = 1 /\ (2 + 1) \div 2 = 1 /\ 2 - (2 % 2) = 2
        /\ (3 + 1) \div 2 = 2 /\ 2 - (3 % 2) = 1 /\ (4 + 1) \div 2 = 2 /\ 2 - (4 % 2) = 2
        /\ (5 + 1) \div 2 = 3 /\ 2 - (5 % 2) = 1 /\ (6 + 1) \div 2 = 3 /\ 2 - (6 % 2) = 2
        /\ (7 + 1) \div 2 = 4 /\ 2 - (7 % 2) = 1 /\ (8 + 1) \div 2 = 4 /\ 2 - (8 % 2) = 2
    OBVIOUS
  <2>2. From(1) = 4 /\ From(2) = 3 /\ From(3) = 2 /\ From(4) = 1
    BY DEF From
  <2>3. \A d \in 1 .. 8 : digits[d] = HexByte(bytes[From((d + 1) \div 2)])[2 - (d % 2)]
    BY DEF Digits
  <2> HIDE DEF digits
  <2>4. /\ digits[1] = HexByte(bytes[4])[1] /\ digits[2] = HexByte(bytes[4])[2]
        /\ digits[3] = HexByte(bytes[3])[1] /\ digits[4] = HexByte(bytes[3])[2]
        /\ digits[5] = HexByte(bytes[2])[1] /\ digits[6] = HexByte(bytes[2])[2]
        /\ digits[7] = HexByte(bytes[1])[1] /\ digits[8] = HexByte(bytes[1])[2]
    BY <2>1, <2>2, <2>3
  <2>5. \A b \in Nat : HexByte(b)[1] = b \div 16 /\ HexByte(b)[2] = b % 16
    BY HexByteIs
  <2>6. 1 \in 1 .. 4 /\ 2 \in 1 .. 4 /\ 3 \in 1 .. 4 /\ 4 \in 1 .. 4
    OBVIOUS
  <2> QED BY <1>2, <2>4, <2>5, <2>6
<1> HIDE DEF field, digits
<1>4. /\ field[1] = bytes[4] \div 16 /\ field[2] = bytes[4] % 16
      /\ field[3] = bytes[3] \div 16 /\ field[4] = bytes[3] % 16
      /\ field[5] = bytes[2] \div 16 /\ field[6] = bytes[2] % 16
      /\ field[7] = bytes[1] \div 16 /\ field[8] = bytes[1] % 16
  BY <1>1, <1>3
<1>5. \A b \in Nat : 16 * (b \div 16) + (b % 16) = b
  OBVIOUS
<1>6. /\ TWOchar2dec(field, 6) = bytes[1] /\ TWOchar2dec(field, 4) = bytes[2]
      /\ TWOchar2dec(field, 2) = bytes[3] /\ TWOchar2dec(field, 0) = bytes[4]
  <2>1. /\ TWOchar2dec(field, 6) = 16 * field[7] + field[8]
        /\ TWOchar2dec(field, 4) = 16 * field[5] + field[6]
        /\ TWOchar2dec(field, 2) = 16 * field[3] + field[4]
        /\ TWOchar2dec(field, 0) = 16 * field[1] + field[2]
    BY DEF TWOchar2dec
  <2>2. 1 \in 1 .. 4 /\ 2 \in 1 .. 4 /\ 3 \in 1 .. 4 /\ 4 \in 1 .. 4
    OBVIOUS
  <2> QED BY <1>2, <1>4, <1>5, <2>1, <2>2
<1>7. FOURchar2dec(field, 8) = port
  <2>1. FOURchar2dec(field, 8) = 256 * (16 * field[9] + field[10]) + (16 * field[11] + field[12])
    BY DEF FOURchar2dec, TWOchar2dec
  <2> QED BY <1>1, <2>1, PortBack
<1>8. [k \in 1 .. 4 |-> TWOchar2dec(field, 8 - 2 * k)] = bytes
  <2>1. 8 - 2 * 1 = 6 /\ 8 - 2 * 2 = 4 /\ 8 - 2 * 3 = 2 /\ 8 - 2 * 4 = 0
    OBVIOUS
  <2>2. \A k \in 1 .. 4 : k = 1 \/ k = 2 \/ k = 3 \/ k = 4
    OBVIOUS
  <2>3. \A k \in 1 .. 4 : TWOchar2dec(field, 8 - 2 * k) = bytes[k]
    BY <1>6, <2>1, <2>2
  <2> QED BY <2>3
<1> QED BY <1>7, <1>8 DEF addr_hex2dec_v4, field

LEMMA PortV6 ==
  ASSUME NEW bytes \in [1 .. 16 -> Byte], NEW port \in Port,
         NEW address, address = [addr |-> bytes, port |-> port]
  PROVE  addr_hex2dec_v6(Field(address)).port = port
<1> DEFINE field == Field(address)
<1>1. /\ field[33] = HexByte(port \div 256)[1] /\ field[34] = HexByte(port \div 256)[2]
      /\ field[35] = HexByte(port % 256)[1] /\ field[36] = HexByte(port % 256)[2]
  <2>1. ASSUME NEW n \in {4, 16}, n = 16
        PROVE  /\ field[2 * n + 1] = HexByte(port \div 256)[1]
               /\ field[2 * n + 2] = HexByte(port \div 256)[2]
               /\ field[2 * n + 3] = HexByte(port % 256)[1]
               /\ field[2 * n + 4] = HexByte(port % 256)[2]
    BY <2>1, FieldDigits
  <2> HIDE DEF field
  <2>2. /\ 16 \in {4, 16} /\ 2 * 16 = 32
        /\ 32 + 1 = 33 /\ 32 + 2 = 34 /\ 32 + 3 = 35 /\ 32 + 4 = 36
    OBVIOUS
  <2> QED BY <2>1, <2>2
<1> HIDE DEF field
<1>2. FOURchar2dec(field, 32) = port
  <2>1. FOURchar2dec(field, 32)
          = 256 * (16 * field[33] + field[34]) + (16 * field[35] + field[36])
    BY DEF FOURchar2dec, TWOchar2dec
  <2> QED BY <1>1, <2>1, PortBack
<1> QED BY <1>2 DEF addr_hex2dec_v6, field

-----------------------------------------------------------------------------
(* Types.                                                                   *)

Lives == {"none", "run", "exiting", "zombie", "gone"}
Lines == [sock : {0} \cup Inodes, inode : {0} \cup Inodes]
Houses == [pid : Pids, inodes : Seq(Inodes)]
Forms == {[addr |-> <<>>, port |-> 0]}
           \cup {addr_hex2dec_v4(Field(Address[i])) : i \in Inodes}
           \cup {addr_hex2dec_v6(Field(Address[i])) : i \in Inodes}
Conns == [file : Files, sock : {0} \cup Inodes, inode : {0} \cup Inodes,
          addr : Forms, owner : {0} \cup Pids]
Scanning == {"scan", "pid", "fds", "link"}
Reading == {"head", "first", "parse", "next", "close"} \cup Scanning
Labels == Reading \cup {"pass", "done", "crashed", "lost"}
Locals == [passes : Seq(Seq(Files)), pass : Nat \ {0}, file : Nat \ {0},
           buf : SUBSET Lines, pos : Nat, line : Lines, eof : BOOLEAN]
Scans == [done : BOOLEAN, todo : SUBSET Pids, fds : SUBSET (1 .. MaxFd)]

WorldTypes ==
  /\ life \in [Pids -> Lives]
  /\ fds \in [Pids -> [1 .. MaxFd -> {0} \cup Inodes]]
  /\ held \in [Inodes -> SUBSET Pids]
  /\ lingering \subseteq Inodes

\* Whoever has a socket among its descriptors is known to hold it.
HoldersKnown ==
  \A p \in Pids : \A f \in 1 .. MaxFd : fds[p][f] # 0 => p \in held[fds[p][f]]

WorldInv == WorldTypes /\ HoldersKnown

\* What no change of the world undoes.
Onward ==
  /\ \A p \in Pids : /\ Ended(p) => Ended(p)'
                     /\ life[p] # "none" => life[p]' # "none"
  /\ \A i \in Inodes : held[i] \subseteq held[i]'

LEMMA SocketsAre ==
  ASSUME WorldTypes
  PROVE  /\ \A p \in Pids : SocketsOf(p) \subseteq Inodes
         /\ Open \subseteq Inodes
<1>1. ASSUME NEW p \in Pids
      PROVE  SocketsOf(p) \subseteq Inodes
  <2>1. \A f \in 1 .. MaxFd : fds[p][f] \in {0} \cup Inodes
    BY DEF WorldTypes
  <2> QED BY <2>1 DEF SocketsOf
<1> QED BY <1>1 DEF Open

LEMMA WorldInit == Init => WorldInv
<1> SUFFICES ASSUME Init PROVE WorldInv
  OBVIOUS
<1>1. /\ life \in [Pids -> {"run", "zombie", "none"}]
      /\ fds \in [Pids -> [1 .. MaxFd -> {0} \cup Inodes]]
      /\ lingering = {}
      /\ held = [i \in Inodes |-> {p \in Pids : i \in SocketsOf(p)}]
  BY DEF Init
<1>2. life \in [Pids -> Lives]
  BY <1>1 DEF Lives
<1>3. WorldTypes
  BY <1>1, <1>2 DEF WorldTypes
<1>4. ASSUME NEW p \in Pids, NEW f \in 1 .. MaxFd, fds[p][f] # 0
      PROVE  p \in held[fds[p][f]]
  <2>1. fds[p][f] \in SocketsOf(p) /\ fds[p][f] \in Inodes
    BY <1>1, <1>4 DEF SocketsOf
  <2> QED BY <1>1, <2>1
<1> QED BY <1>3, <1>4 DEF WorldInv, HoldersKnown

LEMMA LeaveFacts ==
  ASSUME lingering \subseteq Inodes, NEW socks, socks \subseteq Inodes, Leave(socks)
  PROVE  lingering' \subseteq Inodes
BY DEF Leave

LEMMA WorldOpenSocket ==
  ASSUME WorldInv, NEW p \in Pids, OpenSocket(p)
  PROVE  WorldInv' /\ Onward
<1>1. PICK f \in 1 .. MaxFd, i \in Inodes :
        /\ held[i] = {}
        /\ fds' = [fds EXCEPT ![p][f] = i]
        /\ held' = [held EXCEPT ![i] = {p}]
        /\ life' = life /\ lingering' = lingering
  BY DEF OpenSocket
<1> USE DEF WorldInv, WorldTypes
<1>2. WorldTypes'
  <2>1. fds' \in [Pids -> [1 .. MaxFd -> {0} \cup Inodes]]
    BY <1>1
  <2>2. held' \in [Inodes -> SUBSET Pids]
    BY <1>1
  <2> QED BY <1>1, <2>1, <2>2
<1>3. \A j \in Inodes : held[j] \subseteq held'[j]
  BY <1>1
<1>4. ASSUME NEW q \in Pids, NEW g \in 1 .. MaxFd, fds'[q][g] # 0
      PROVE  q \in held'[fds'[q][g]]
  <2>1. CASE q = p /\ g = f
    BY <1>1, <2>1
  <2>2. CASE ~(q = p /\ g = f)
    <3>1. fds'[q][g] = fds[q][g]
      BY <1>1, <2>2
    <3>2. fds[q][g] \in Inodes /\ q \in held[fds[q][g]]
      BY <1>4, <3>1 DEF HoldersKnown
    <3> QED BY <1>3, <3>1, <3>2
  <2> QED BY <2>1, <2>2
<1> QED BY <1>1, <1>2, <1>3, <1>4 DEF HoldersKnown, Onward, Ended

LEMMA WorldCloseSocket ==
  ASSUME WorldInv, NEW p \in Pids, CloseSocket(p)
  PROVE  WorldInv' /\ Onward
<1>1. PICK f \in 1 .. MaxFd :
        /\ fds[p][f] # 0
        /\ fds' = [fds EXCEPT ![p][f] = 0]
        /\ Leave({fds[p][f]} \ UNION {SocketsOf(q) : q \in Pids \ {p}})
        /\ life' = life /\ held' = held
  BY DEF CloseSocket
<1> USE DEF WorldInv, WorldTypes
<1>2. WorldTypes'
  <2>1. fds' \in [Pids -> [1 .. MaxFd -> {0} \cup Inodes]]
    BY <1>1
  <2>2. {fds[p][f]} \ UNION {SocketsOf(q) : q \in Pids \ {p}} \subseteq Inodes
    <3>1. fds[p][f] \in Inodes
      BY <1>1
    <3>2. {fds[p][f]} \subseteq Inodes
      BY <3>1
    <3> QED BY <3>2
  <2>3. lingering' \subseteq Inodes
    BY <1>1, <2>2, LeaveFacts
  <2> QED BY <1>1, <2>1, <2>3
<1>3. ASSUME NEW q \in Pids, NEW g \in 1 .. MaxFd, fds'[q][g] # 0
      PROVE  q \in held'[fds'[q][g]]
  <2>1. fds'[q][g] = fds[q][g]
    BY <1>1, <1>3
  <2> QED BY <1>1, <1>3, <2>1 DEF HoldersKnown
<1> QED BY <1>1, <1>2, <1>3 DEF HoldersKnown, Onward, Ended

LEMMA WorldForkProcess ==
  ASSUME WorldInv, NEW p \in Pids, ForkProcess(p)
  PROVE  WorldInv' /\ Onward
<1>1. PICK q \in Pids :
        /\ life[q] = "none"
        /\ life' = [life EXCEPT ![q] = "run"]
        /\ fds' = [fds EXCEPT ![q] = fds[p]]
        /\ held' = [i \in Inodes |-> held[i] \cup (IF i \in SocketsOf(p) THEN {q} ELSE {})]
        /\ lingering' = lingering
  BY DEF ForkProcess
<1> USE DEF WorldInv, WorldTypes
<1>2. WorldTypes'
  <2>1. fds' \in [Pids -> [1 .. MaxFd -> {0} \cup Inodes]]
    BY <1>1
  <2>2. held' \in [Inodes -> SUBSET Pids]
    BY <1>1
  <2>3. life' \in [Pids -> Lives]
    BY <1>1 DEF Lives
  <2> QED BY <1>1, <2>1, <2>2, <2>3
<1>3. \A j \in Inodes : held[j] \subseteq held'[j]
  BY <1>1
<1>4. ASSUME NEW r \in Pids, NEW g \in 1 .. MaxFd, fds'[r][g] # 0
      PROVE  r \in held'[fds'[r][g]]
  <2>1. CASE r = q
    <3>1. fds'[r][g] = fds[p][g]
      BY <1>1, <2>1
    <3>2. fds[p][g] \in Inodes /\ fds[p][g] \in SocketsOf(p)
      BY <1>4, <3>1 DEF SocketsOf
    <3> QED BY <1>1, <2>1, <3>1, <3>2
  <2>2. CASE r # q
    <3>1. fds'[r][g] = fds[r][g]
      BY <1>1, <2>2
    <3>2. fds[r][g] \in Inodes /\ r \in held[fds[r][g]]
      BY <1>4, <3>1 DEF HoldersKnown
    <3> QED BY <1>3, <3>1, <3>2
  <2> QED BY <2>1, <2>2
<1>5. \A r \in Pids : /\ Ended(r) => Ended(r)'
                      /\ life[r] # "none" => life[r]' # "none"
  BY <1>1 DEF Ended
<1> QED BY <1>1, <1>2, <1>3, <1>4, <1>5 DEF HoldersKnown, Onward

LEMMA WorldExit ==
  ASSUME WorldInv, NEW p \in Pids, Exit(p) \/ Wait(p)
  PROVE  WorldInv' /\ Onward
<1>1. PICK l \in {"exiting", "gone"} : life' = [life EXCEPT ![p] = l]
  BY DEF Exit, Wait
<1>2. fds' = fds /\ held' = held /\ lingering' = lingering
  BY DEF Exit, Wait
<1>3. life[p] \in {"run", "zombie"}
  BY DEF Exit, Wait
<1> USE DEF WorldInv, WorldTypes
<1>4. life' \in [Pids -> Lives]
  BY <1>1 DEF Lives
<1>5. \A r \in Pids : /\ Ended(r) => Ended(r)'
                      /\ life[r] # "none" => life[r]' # "none"
  BY <1>1 DEF Ended
<1> QED BY <1>2, <1>4, <1>5 DEF HoldersKnown, Onward

LEMMA WorldExitFiles ==
  ASSUME WorldInv, NEW p \in Pids, ExitFiles(p)
  PROVE  WorldInv' /\ Onward
<1> USE DEF WorldInv, WorldTypes
<1>1. /\ life[p] = "exiting"
      /\ life' = [life EXCEPT ![p] = "zombie"]
      /\ fds' = [fds EXCEPT ![p] = [f \in 1 .. MaxFd |-> 0]]
      /\ Leave(SocketsOf(p) \ UNION {SocketsOf(q) : q \in Pids \ {p}})
      /\ held' = held
  BY DEF ExitFiles
<1>2. WorldTypes'
  <2>1. fds' \in [Pids -> [1 .. MaxFd -> {0} \cup Inodes]]
    BY <1>1
  <2>2. SocketsOf(p) \ UNION {SocketsOf(q) : q \in Pids \ {p}} \subseteq Inodes
    BY SocketsAre
  <2>3. lingering' \subseteq Inodes
    BY <1>1, <2>2, LeaveFacts
  <2>4. life' \in [Pids -> Lives]
    BY <1>1 DEF Lives
  <2> QED BY <1>1, <2>1, <2>3, <2>4
<1>3. ASSUME NEW q \in Pids, NEW g \in 1 .. MaxFd, fds'[q][g] # 0
      PROVE  q \in held'[fds'[q][g]]
  <2>1. q # p /\ fds'[q][g] = fds[q][g]
    BY <1>1, <1>3
  <2> QED BY <1>1, <1>3, <2>1 DEF HoldersKnown
<1>4. \A r \in Pids : /\ Ended(r) => Ended(r)'
                      /\ life[r] # "none" => life[r]' # "none"
  BY <1>1 DEF Ended
<1> QED BY <1>1, <1>2, <1>3, <1>4 DEF HoldersKnown, Onward

LEMMA WorldGoesOn == ASSUME WorldInv, World PROVE WorldInv' /\ Onward
BY WorldOpenSocket, WorldCloseSocket, WorldForkProcess, WorldExit, WorldExitFiles DEF World

LEMMA WorldStands ==
  ASSUME WorldInv, UNCHANGED world PROVE WorldInv' /\ Onward
BY DEF world, WorldInv, WorldTypes, HoldersKnown, Onward, Ended

LEMMA ProgramOnlyLooks == Program => UNCHANGED world
BY DEF Program, OpenFile, print_info, EndOfProgram, ReadHead, ReadFirst, ReadNext,
       CloseFile, info_parser, pid_factory, EndOfScan, ReadCmdline, ListFds, EndOfFds,
       ReadLink

-----------------------------------------------------------------------------
(* The program's own types.                                                 *)

LocalTypes == pc \in Labels /\ loc \in Locals /\ scan \in Scans

ListTypes == pid_house \in Seq(Houses) /\ conn_house \in Seq(Conns)

\* No table is printed with more than the four files there are.
FewFiles == \A k \in DOMAIN loc.passes : Len(loc.passes[k]) <= 4

\* A table that is being read is one of those asked for.
Place ==
  /\ pc \in Reading \cup {"crashed"} =>
       loc.pass <= Len(loc.passes) /\ loc.file <= Len(loc.passes[loc.pass])
  /\ pc = "pass" /\ loc.pass <= Len(loc.passes) =>
       loc.file <= Len(loc.passes[loc.pass]) + 1

Types == WorldInv /\ LocalTypes /\ ListTypes /\ FewFiles /\ Place

LEMMA PassLengths ==
  ASSUME loc \in Locals
  PROVE  /\ Len(loc.passes) \in Nat /\ DOMAIN loc.passes = 1 .. Len(loc.passes)
         /\ \A k \in DOMAIN loc.passes :
              /\ loc.passes[k] \in Seq(Files) /\ Len(loc.passes[k]) \in Nat
              /\ DOMAIN loc.passes[k] = 1 .. Len(loc.passes[k])
<1>1. loc.passes \in Seq(Seq(Files))
  BY DEF Locals
<1>2. Len(loc.passes) \in Nat /\ DOMAIN loc.passes = 1 .. Len(loc.passes)
  BY <1>1, LenProperties
<1>3. \A k \in DOMAIN loc.passes : loc.passes[k] \in Seq(Files)
  BY <1>1, <1>2, ElementOfSeq
<1>4. \A s \in Seq(Files) : Len(s) \in Nat /\ DOMAIN s = 1 .. Len(s)
  BY LenProperties
<1> QED BY <1>2, <1>3, <1>4

LEMMA NatInodes == Inodes \subseteq Nat \ {0} /\ IsFiniteSet(Inodes)
BY SocketAssumption

LEMMA NatPids == Pids \subseteq Nat \ {0} /\ IsFiniteSet(Pids)
BY ProcessAssumption

LEMMA OptionFiles ==
  ASSUME NEW option
  PROVE  FilesOf(option) \in Seq(Files) /\ Len(FilesOf(option)) <= 2
<1>1. <<"tcp", "tcp6">> \in Seq(Files) /\ <<"udp", "udp6">> \in Seq(Files)
  BY DEF Files
<1>2. CASE option = "t"
  BY <1>1, <1>2 DEF FilesOf
<1>3. CASE option = "u"
  BY <1>1, <1>3 DEF FilesOf
<1>4. CASE option # "t" /\ option # "u"
  BY <1>4 DEF FilesOf
<1> QED BY <1>2, <1>3, <1>4

LEMMA PassesAre ==
  ASSUME NEW argv \in Seq(STRING)
  PROVE  /\ Passes(argv) \in Seq(Seq(Files))
         /\ \A k \in DOMAIN Passes(argv) : Len(Passes(argv)[k]) <= 4
<1>1. CASE argv = <<>>
  <2>1. /\ FilesOf("t") \in Seq(Files) /\ Len(FilesOf("t")) <= 2
        /\ FilesOf("u") \in Seq(Files) /\ Len(FilesOf("u")) <= 2
    <3>1. \A option : FilesOf(option) \in Seq(Files) /\ Len(FilesOf(option)) <= 2
      BY OptionFiles
    <3> QED BY <3>1, Zenon
  <2> DEFINE t == FilesOf("t")
             u == FilesOf("u")
  <2>2. t \in Seq(Files) /\ u \in Seq(Files) /\ Len(t) <= 2 /\ Len(u) <= 2
    BY <2>1
  <2>3. Passes(argv) = <<t \o u>>
    BY <1>1 DEF Passes
  <2> HIDE DEF t, u
  <2>4. t \o u \in Seq(Files) /\ Len(t \o u) = Len(t) + Len(u)
    BY <2>2, ConcatProperties
  <2>5. Len(t) \in Nat /\ Len(u) \in Nat
    BY <2>2, LenProperties
  <2>6. Len(t \o u) <= 4
    BY <2>2, <2>4, <2>5
  <2> QED BY <2>3, <2>4, <2>6
<1>2. CASE argv # <<>>
  <2>1. Passes(argv) = [k \in DOMAIN argv |-> FilesOf(argv[k])]
    BY <1>2 DEF Passes
  <2>2. Len(argv) \in Nat /\ DOMAIN argv = 1 .. Len(argv)
    BY LenProperties
  <2>4. \A k \in DOMAIN argv :
          FilesOf(argv[k]) \in Seq(Files) /\ Len(FilesOf(argv[k])) <= 2
    BY OptionFiles
  <2>5. \A k \in DOMAIN argv : Len(FilesOf(argv[k])) <= 4
    <3>1. \A k \in DOMAIN argv : Len(FilesOf(argv[k])) \in Nat
      BY <2>4, LenProperties
    <3> QED BY <2>4, <3>1
  <2> DEFINE n == Len(argv)
             table == Passes(argv)
  <2>6. n \in Nat /\ table \in [1 .. n -> Seq(Files)]
    BY <2>1, <2>2, <2>4
  <2> HIDE DEF n, table
  <2>7. table \in Seq(Seq(Files))
    BY <2>6, SeqOfFunction
  <2> QED BY <2>1, <2>5, <2>7 DEF table
<1> QED BY <1>1, <1>2

LEMMA HeadIsLine == HeadLine \in Lines /\ HeadLine.sock = 0
BY DEF HeadLine, Lines

LEMMA TypesInit == Init => Types
<1> SUFFICES ASSUME Init PROVE Types
  OBVIOUS
<1>1. PICK argv \in CommandLines :
        loc = [passes |-> Passes(argv), pass |-> 1, file |-> 1,
               buf |-> {}, pos |-> 0, line |-> HeadLine, eof |-> FALSE]
  BY DEF Init
<1>2. argv \in Seq(STRING)
  BY CommandAssumption
<1>3. /\ Passes(argv) \in Seq(Seq(Files))
      /\ \A k \in DOMAIN Passes(argv) : Len(Passes(argv)[k]) <= 4
  BY <1>2, PassesAre
<1>4. loc \in Locals /\ FewFiles
  <2>1. 1 \in Nat \ {0} /\ 0 \in Nat
    OBVIOUS
  <2> QED BY <1>1, <1>3, <2>1, HeadIsLine DEF Locals, FewFiles
<1>5. pc = "pass" /\ scan = NoScan /\ pid_house = <<>> /\ conn_house = <<>>
  BY DEF Init
<1>6. scan \in Scans
  BY <1>5 DEF NoScan, Scans
<1>7. pc \in Labels
  BY <1>5 DEF Labels
<1>8. ListTypes
  BY <1>5 DEF ListTypes
<1>9. Place
  <2>1. loc.file = 1 /\ loc.pass = 1
    BY <1>1
  <2>2. loc.pass <= Len(loc.passes) => Len(loc.passes[loc.pass]) \in Nat
    BY <1>4, <2>1, PassLengths
  <2>3. pc \notin Reading \cup {"crashed"}
    BY <1>5 DEF Reading, Scanning
  <2> QED BY <2>1, <2>2, <2>3 DEF Place
<1> QED BY <1>4, <1>6, <1>7, <1>8, <1>9, WorldInit DEF Types, LocalTypes

\* What the kernel gives are rows of the file behind the place reached.
LEMMA RowsAre ==
  ASSUME Types, NEW room
  PROVE  /\ Rows(room) \subseteq Lines
         /\ \A row \in Rows(room) :
              /\ loc.pos < row.sock /\ row.sock \in Inodes /\ Family[row.sock] = File
              /\ \A other \in Rows(room) : row.sock = other.sock => row = other
<1>1. Open \cup lingering \subseteq Inodes
  BY SocketsAre DEF Types, WorldInv, WorldTypes
<1> DEFINE of(i) == [sock |-> i, inode |-> IF i \in Open THEN i ELSE 0]
<1>2. ASSUME NEW row \in Rows(room)
      PROVE  \E i \in Inodes : Family[i] = File /\ i > loc.pos /\ row = of(i)
  BY <1>1, <1>2 DEF Rows
<1>3. \A i \in Inodes : of(i) \in Lines /\ of(i).sock = i
  BY DEF Lines
<1>4. loc.pos \in Nat
  BY DEF Types, LocalTypes, Locals
<1>5. \A i \in Inodes : i > loc.pos => loc.pos < i
  BY <1>4, NatInodes
<1> HIDE DEF of
<1> QED BY <1>2, <1>3, <1>5

LEMMA FirstOfIs ==
  ASSUME NEW rows, rows \subseteq Lines, rows # {}
  PROVE  FirstOf(rows) \in rows /\ \A other \in rows : FirstOf(rows).sock <= other.sock
<1> DEFINE socks == {row.sock : row \in rows}
<1>1. socks \subseteq Nat /\ socks # {}
  <2>1. socks \subseteq Inodes \cup {0} /\ socks # {}
    BY DEF Lines
  <2>2. Inodes \cup {0} \subseteq Nat
    BY NatInodes
  <2> QED BY <2>1, <2>2
<1>2. PICK least \in socks : \A k \in socks : least <= k
  <2> HIDE DEF socks
  <2> QED BY <1>1, LeastExists
<1>3. PICK row \in rows : row.sock = least
  OBVIOUS
<1>4. \A other \in rows : row.sock <= other.sock
  BY <1>2, <1>3
<1> QED BY <1>4 DEF FirstOf

LEMMA BehindIs ==
  ASSUME Types, NEW rows, rows \subseteq Lines
  PROVE  /\ Behind(rows) \in Nat /\ loc.pos <= Behind(rows)
         /\ \A row \in rows : row.sock <= Behind(rows)
         /\ Behind(rows) = loc.pos \/ \E row \in rows : Behind(rows) = row.sock
<1> DEFINE socks == {row.sock : row \in rows}
           all == {loc.pos} \cup socks
<1>1. loc.pos \in Nat
  BY DEF Types, LocalTypes, Locals
<1>2. socks \subseteq Inodes \cup {0}
  BY DEF Lines
<1>3. IsFiniteSet(Inodes \cup {0})
  BY NatInodes, FS_AddElement
<1>4. IsFiniteSet(socks)
  <2> HIDE DEF socks
  <2> QED BY <1>2, <1>3, FS_Subset
<1>5. IsFiniteSet(all)
  <2>1. all = socks \cup {loc.pos}
    OBVIOUS
  <2> HIDE DEF socks, all
  <2> QED BY <1>4, <2>1, FS_AddElement
<1>6. all \subseteq Nat /\ all # {}
  <2>1. Inodes \cup {0} \subseteq Nat
    BY NatInodes
  <2> QED BY <1>1, <1>2, <2>1
<1>7. Max(all) \in all /\ \A k \in all : k <= Max(all)
  <2> HIDE DEF all
  <2> QED BY <1>5, <1>6, MaxIs
<1> DEFINE m == Max(all)
<1>8. Behind(rows) = m
  BY DEF Behind
<1> HIDE DEF m
<1>9. m \in Nat /\ m \in all /\ \A k \in all : k <= m
  BY <1>6, <1>7 DEF m
<1>10. \A row \in rows : row.sock \in all
  OBVIOUS
<1>11. m = loc.pos \/ \E row \in rows : m = row.sock
  BY <1>9
<1>12. Behind(rows) = loc.pos \/ \E row \in rows : Behind(rows) = row.sock
  BY <1>8, <1>11
<1>13. loc.pos \in all
  OBVIOUS
<1> HIDE DEF all
<1>14. /\ Behind(rows) \in Nat /\ loc.pos <= Behind(rows)
       /\ \A row \in rows : row.sock <= Behind(rows)
  BY <1>8, <1>9, <1>10, <1>13
<1> QED BY <1>12, <1>14

SamePlace == loc'.passes = loc.passes /\ loc'.pass = loc.pass /\ loc'.file = loc.file

LEMMA FilledIs ==
  ASSUME Types
  PROVE  /\ Filled \subseteq Lines
         /\ \/ loc.buf # {} /\ Filled = loc.buf
            \/ loc.buf = {} /\ Filled = Rows(Chunk)
<1>1. loc.buf \subseteq Lines
  BY DEF Types, LocalTypes, Locals
<1> QED BY <1>1, RowsAre DEF Filled

LEMMA GetlineIs ==
  ASSUME Types, Getline
  PROVE  /\ loc' \in Locals /\ SamePlace
         /\ Filled = {} => loc' = [loc EXCEPT !.eof = TRUE]
         /\ Filled # {} =>
              /\ loc'.line \in Filled /\ loc'.buf = Filled \ {loc'.line}
              /\ \A row \in Filled : loc'.line.sock <= row.sock /\ row.sock <= loc'.pos
              /\ loc.pos <= loc'.pos
              /\ loc'.eof = loc.eof
<1>1. loc \in Locals
  BY DEF Types, LocalTypes
<1>2. CASE Filled = {}
  <2>1. loc' = [loc EXCEPT !.eof = TRUE]
    BY <1>2 DEF Getline
  <2>2. loc' \in Locals /\ SamePlace
    BY <1>1, <2>1 DEF Locals, SamePlace
  <2> QED BY <1>2, <2>1, <2>2
<1>3. CASE Filled # {}
  <2> DEFINE line == FirstOf(Filled)
             rest == Filled \ {line}
             place == Behind(Filled)
  <2>1. loc' = [loc EXCEPT !.line = line, !.buf = rest, !.pos = place]
    BY <1>3 DEF Getline
  <2>2. line \in Filled /\ \A other \in Filled : line.sock <= other.sock
    BY <1>3, FilledIs, FirstOfIs
  <2>3. /\ place \in Nat /\ loc.pos <= place
        /\ \A row \in Filled : row.sock <= place
    BY FilledIs, BehindIs
  <2>4. line \in Lines /\ rest \in SUBSET Lines
    BY <2>2, FilledIs
  <2> HIDE DEF line, place
  <2>5. /\ loc'.line = line /\ loc'.buf = rest /\ loc'.pos = place /\ loc'.eof = loc.eof
        /\ SamePlace
    BY <1>1, <2>1 DEF Locals, SamePlace
  <2> HIDE DEF rest
  <2>6. loc' \in Locals
    BY <1>1, <2>1, <2>3, <2>4 DEF Locals
  <2> QED BY <1>3, <2>2, <2>3, <2>5, <2>6 DEF rest
<1> QED BY <1>2, <1>3

LEMMA ReadHeadIs ==
  ASSUME Types, ReadHead
  PROVE  /\ loc' \in Locals /\ SamePlace
         /\ loc'.line = HeadLine /\ loc'.buf = Rows(Chunk - 1) /\ loc'.eof = loc.eof
         /\ loc.pos <= loc'.pos /\ \A row \in loc'.buf : row.sock <= loc'.pos
<1>1. loc \in Locals
  BY DEF Types, LocalTypes
<1> DEFINE rest == Rows(Chunk - 1)
           place == Behind(rest)
<1>2. loc' = [loc EXCEPT !.line = HeadLine, !.buf = rest, !.pos = place]
  BY DEF ReadHead
<1>3. rest \in SUBSET Lines
  BY RowsAre
<1>4. place \in Nat /\ loc.pos <= place /\ \A row \in rest : row.sock <= place
  BY <1>3, BehindIs
<1> HIDE DEF place
<1>5. /\ loc'.line = HeadLine /\ loc'.buf = rest /\ loc'.pos = place /\ loc'.eof = loc.eof
      /\ SamePlace
  BY <1>1, <1>2 DEF Locals, SamePlace
<1> HIDE DEF rest
<1>6. loc' \in Locals
  BY <1>1, <1>2, <1>3, <1>4, HeadIsLine DEF Locals
<1> QED BY <1>4, <1>5, <1>6 DEF rest

LEMMA SameLocals ==
  ASSUME Types, UNCHANGED loc PROVE loc' \in Locals /\ SamePlace
BY DEF Types, LocalTypes, SamePlace

\* The other steps that move in the tables.
LEMMA OtherLocals ==
  ASSUME Types
  PROVE  /\ OpenFile => loc' \in Locals /\ SamePlace
         /\ print_info => /\ loc' \in Locals /\ loc'.passes = loc.passes
                          /\ loc'.pass = loc.pass + 1 /\ loc'.file = 1
         /\ CloseFile => /\ loc' \in Locals /\ loc'.passes = loc.passes
                         /\ loc'.pass = loc.pass /\ loc'.file = loc.file + 1
<1>1. loc \in Locals
  BY DEF Types, LocalTypes
<1>2. ASSUME OpenFile
      PROVE  loc' \in Locals /\ SamePlace
  <2>1. loc' = [loc EXCEPT !.buf = {}, !.pos = 0, !.eof = FALSE]
    BY <1>2 DEF OpenFile
  <2> QED BY <1>1, <2>1 DEF Locals, SamePlace
<1>3. ASSUME print_info
      PROVE  /\ loc' \in Locals /\ loc'.passes = loc.passes
             /\ loc'.pass = loc.pass + 1 /\ loc'.file = 1
  <2>1. loc' = [loc EXCEPT !.pass = @ + 1, !.file = 1]
    BY <1>3 DEF print_info
  <2>2. loc.pass + 1 \in Nat \ {0} /\ 1 \in Nat \ {0}
    BY <1>1 DEF Locals
  <2> QED BY <1>1, <2>1, <2>2 DEF Locals
<1>4. ASSUME CloseFile
      PROVE  /\ loc' \in Locals /\ loc'.passes = loc.passes
             /\ loc'.pass = loc.pass /\ loc'.file = loc.file + 1
  <2>1. loc' = [loc EXCEPT !.file = @ + 1]
    BY <1>4 DEF CloseFile
  <2>2. loc.file + 1 \in Nat \ {0}
    BY <1>1 DEF Locals
  <2> QED BY <1>1, <2>1, <2>2 DEF Locals
<1> QED BY <1>2, <1>3, <1>4

LEMMA SameFew == ASSUME Types, loc'.passes = loc.passes PROVE FewFiles'
BY DEF Types, FewFiles

-----------------------------------------------------------------------------
(* The lists.                                                               *)

LEMMA LookingIs ==
  ASSUME Types, scan.todo # {}
  PROVE  Looking \in scan.todo /\ Looking \in Pids /\ \A p \in scan.todo : Looking <= p
<1>1. scan.todo \subseteq Pids
  BY DEF Types, LocalTypes, Scans
<1>2. scan.todo \subseteq Nat
  BY <1>1, NatPids
<1>3. Min(scan.todo) \in scan.todo /\ \A p \in scan.todo : Min(scan.todo) <= p
  BY <1>2, MinIs
<1> QED BY <1>1, <1>3 DEF Looking

LEMMA HousesAre ==
  ASSUME Types
  PROVE  /\ Len(pid_house) \in Nat /\ DOMAIN pid_house = 1 .. Len(pid_house)
         /\ \A k \in DOMAIN pid_house :
              /\ pid_house[k] \in Houses /\ pid_house[k].pid \in Pids
              /\ pid_house[k].inodes \in Seq(Inodes)
              /\ DOMAIN pid_house[k].inodes = 1 .. Len(pid_house[k].inodes)
              /\ Len(pid_house[k].inodes) \in Nat
<1>1. pid_house \in Seq(Houses)
  BY DEF Types, ListTypes
<1>2. Len(pid_house) \in Nat /\ DOMAIN pid_house = 1 .. Len(pid_house)
  BY <1>1, LenProperties
<1>3. \A k \in DOMAIN pid_house : pid_house[k] \in Houses
  BY <1>1, <1>2, ElementOfSeq
<1>4. \A house \in Houses : house.pid \in Pids /\ house.inodes \in Seq(Inodes)
  BY DEF Houses
<1>5. \A s \in Seq(Inodes) : Len(s) \in Nat /\ DOMAIN s = 1 .. Len(s)
  BY LenProperties
<1> QED BY <1>2, <1>3, <1>4, <1>5

\* A process named as owner is one of the list, with that socket.
LEMMA OwnerIs ==
  ASSUME Types, NEW inode
  PROVE  /\ get_connection_owner(inode) \in {0} \cup Pids
         /\ get_connection_owner(inode) # 0 =>
              \E k \in DOMAIN pid_house : \E j \in DOMAIN pid_house[k].inodes :
                /\ pid_house[k].inodes[j] = inode
                /\ get_connection_owner(inode) = pid_house[k].pid
<1>1. CASE Owners(inode) = {}
  BY <1>1 DEF get_connection_owner
<1>2. CASE Owners(inode) # {}
  <2>1. Owners(inode) \subseteq DOMAIN pid_house
    BY DEF Owners
  <2>2. Owners(inode) \subseteq Nat
    BY <2>1, HousesAre
  <2> DEFINE k == Min(Owners(inode))
  <2>3. k \in Owners(inode)
    <3> DEFINE S == Owners(inode)
    <3>1. S \subseteq Nat /\ S # {}
      BY <1>2, <2>2
    <3> HIDE DEF S
    <3>2. Min(S) \in S
      BY <3>1, MinIs
    <3> QED BY <3>2 DEF S
  <2>4. get_connection_owner(inode) = pid_house[k].pid
    BY <1>2 DEF get_connection_owner
  <2> HIDE DEF k
  <2>5. /\ k \in DOMAIN pid_house
        /\ \E j \in DOMAIN pid_house[k].inodes : pid_house[k].inodes[j] = inode
    BY <2>3 DEF Owners
  <2> QED BY <2>4, <2>5, HousesAre
<1> QED BY <1>1, <1>2

LEMMA ShownIs ==
  ASSUME NEW line \in Lines
  PROVE  Shown(line) \in Forms
BY DEF Lines, Shown, Forms

-----------------------------------------------------------------------------
(* The types are kept.                                                      *)

LEMMA FileIs == ASSUME Types, pc \in Reading PROVE File \in Files
<1>1. loc \in Locals /\ loc.pass \in Nat \ {0} /\ loc.file \in Nat \ {0}
  BY DEF Types, LocalTypes, Locals
<1>2. loc.pass <= Len(loc.passes) /\ loc.file <= Len(loc.passes[loc.pass])
  BY DEF Types, Place
<1>3. loc.pass \in DOMAIN loc.passes
  BY <1>1, <1>2, PassLengths
<1> DEFINE files == loc.passes[loc.pass]
<1>4. files \in Seq(Files) /\ loc.file \in 1 .. Len(files)
  BY <1>1, <1>2, <1>3, PassLengths
<1> HIDE DEF files
<1>5. files[loc.file] \in Files
  BY <1>4, ElementOfSeq
<1> QED BY <1>5 DEF File, files

LEMMA TypesWorld == ASSUME Types, World PROVE Types'
<1>1. WorldInv'
  BY WorldGoesOn DEF Types
<1> QED BY <1>1 DEF World, Types, LocalTypes, ListTypes, FewFiles, Place

LEMMA SameWorld == ASSUME Types, UNCHANGED world PROVE WorldInv'
BY WorldStands DEF Types

LEMMA TypesOpenFile == ASSUME Types, OpenFile PROVE Types'
<1>1. loc' \in Locals /\ SamePlace
  BY OtherLocals
<1>2. FewFiles'
  BY <1>1, SameFew DEF SamePlace
<1>3. pc' \in {"head", "crashed"} /\ UNCHANGED <<world, scan, pid_house, conn_house>>
  BY DEF OpenFile, Goto
<1>4. loc.pass <= Len(loc.passes) /\ loc.file <= Len(loc.passes[loc.pass])
  BY DEF OpenFile
<1>5. Place'
  BY <1>1, <1>3, <1>4 DEF Place, SamePlace
<1>6. WorldInv'
  BY <1>3, SameWorld
<1>7. pc' \in Labels
  BY <1>3 DEF Labels, Reading, Scanning
<1> QED BY <1>1, <1>2, <1>3, <1>5, <1>6, <1>7 DEF Types, LocalTypes, ListTypes

LEMMA TypesPrintInfo == ASSUME Types, print_info PROVE Types'
<1>1. /\ loc' \in Locals /\ loc'.passes = loc.passes
      /\ loc'.pass = loc.pass + 1 /\ loc'.file = 1
  BY OtherLocals
<1>2. FewFiles'
  BY <1>1, SameFew
<1>3. pc = "pass" /\ pc' = pc /\ UNCHANGED <<world, scan, pid_house, conn_house>>
  BY DEF print_info, Printing
<1>4. loc.pass \in Nat
  BY DEF Types, LocalTypes, Locals
<1>5. loc'.pass <= Len(loc'.passes) => Len(loc'.passes[loc'.pass]) \in Nat
  <2>1. loc \in Locals
    BY DEF Types, LocalTypes
  <2> QED BY <1>1, <1>4, <2>1, PassLengths
<1>6. Place'
  BY <1>1, <1>3, <1>5 DEF Place, Reading, Scanning
<1>7. WorldInv'
  BY <1>3, SameWorld
<1> QED BY <1>1, <1>2, <1>3, <1>6, <1>7 DEF Types, LocalTypes, ListTypes

LEMMA TypesCloseFile == ASSUME Types, CloseFile PROVE Types'
<1>1. /\ loc' \in Locals /\ loc'.passes = loc.passes
      /\ loc'.pass = loc.pass /\ loc'.file = loc.file + 1
  BY OtherLocals
<1>2. FewFiles'
  BY <1>1, SameFew
<1>3. pc = "close" /\ pc' = "pass" /\ UNCHANGED <<world, scan, pid_house, conn_house>>
  BY DEF CloseFile, Goto
<1>4. /\ loc.file \in Nat /\ loc.pass <= Len(loc.passes)
      /\ loc.file <= Len(loc.passes[loc.pass]) /\ Len(loc.passes[loc.pass]) \in Nat
  <2>1. loc \in Locals /\ loc.file \in Nat /\ loc.pass \in Nat \ {0}
    BY DEF Types, LocalTypes, Locals
  <2>2. loc.pass <= Len(loc.passes) /\ loc.file <= Len(loc.passes[loc.pass])
    BY <1>3 DEF Types, Place, Reading
  <2> QED BY <2>1, <2>2, PassLengths
<1>5. Place'
  BY <1>1, <1>3, <1>4 DEF Place, Reading, Scanning
<1>6. WorldInv'
  BY <1>3, SameWorld
<1>7. pc' \in Labels
  BY <1>3 DEF Labels
<1> QED BY <1>1, <1>2, <1>3, <1>5, <1>6, <1>7 DEF Types, LocalTypes, ListTypes

LEMMA TypesEndOfProgram == ASSUME Types, EndOfProgram PROVE Types'
<1>1. pc' = "done" /\ UNCHANGED <<world, loc, scan, pid_house, conn_house>>
  BY DEF EndOfProgram, Goto
<1>2. WorldInv'
  BY <1>1, SameWorld
<1>3. pc' \in Labels /\ Place'
  BY <1>1 DEF Labels, Place, Reading, Scanning
<1> QED BY <1>1, <1>2, <1>3 DEF Types, LocalTypes, ListTypes, FewFiles

\* Steps that stay in a table.
LEMMA PlaceStays ==
  ASSUME Types, SamePlace, pc \in Reading, pc' \in Labels \ {"pass"}
  PROVE  Place'
<1>1. loc.pass <= Len(loc.passes) /\ loc.file <= Len(loc.passes[loc.pass])
  BY DEF Types, Place
<1> QED BY <1>1 DEF Place, SamePlace

LEMMA TypesReading ==
  ASSUME Types, ReadHead \/ ReadFirst \/ ReadNext
  PROVE  Types'
<1>1. pc \in Reading /\ pc' \in Reading /\ UNCHANGED <<world, scan, pid_house, conn_house>>
  BY DEF ReadHead, ReadFirst, ReadNext, Goto, Reading, Scanning
<1>2. loc' \in Locals /\ SamePlace
  BY GetlineIs, ReadHeadIs DEF ReadFirst, ReadNext
<1>3. FewFiles'
  BY <1>2, SameFew DEF SamePlace
<1>4. pc' \in Labels \ {"pass"}
  BY <1>1 DEF Labels, Reading, Scanning
<1>5. Place'
  BY <1>1, <1>2, <1>4, PlaceStays
<1>6. WorldInv'
  BY <1>1, SameWorld
<1> QED BY <1>1, <1>2, <1>3, <1>4, <1>5, <1>6 DEF Types, LocalTypes, ListTypes

\* Steps that leave the tables alone.
LEMMA TypesBeside ==
  ASSUME Types, UNCHANGED <<world, loc>>, pc \in Reading, pc' \in Labels \ {"pass"},
         scan' \in Scans, ListTypes'
  PROVE  Types'
<1>1. loc' \in Locals /\ SamePlace
  BY SameLocals
<1>2. FewFiles'
  BY <1>1, SameFew DEF SamePlace
<1>3. Place' /\ WorldInv'
  BY <1>1, PlaceStays, SameWorld
<1> QED BY <1>1, <1>2, <1>3 DEF Types, LocalTypes

\* The row that info_parser adds.
NewRow == [file |-> File, sock |-> loc.line.sock, inode |-> loc.line.inode,
           addr |-> Shown(loc.line), owner |-> get_connection_owner(loc.line.inode)]

LEMMA NewRowIs == ASSUME Types, pc = "parse" PROVE NewRow \in Conns
<1>1. loc.line \in Lines
  BY DEF Types, LocalTypes, Locals
<1>2. File \in Files
  BY FileIs DEF Reading
<1>3. Shown(loc.line) \in Forms
  BY <1>1, ShownIs
<1>4. get_connection_owner(loc.line.inode) \in {0} \cup Pids
  BY OwnerIs
<1>5. loc.line.sock \in {0} \cup Inodes /\ loc.line.inode \in {0} \cup Inodes
  BY <1>1 DEF Lines
<1> QED BY <1>2, <1>3, <1>4, <1>5 DEF NewRow, Conns

LEMMA ConnsAre ==
  ASSUME Types
  PROVE  /\ Len(conn_house) \in Nat /\ DOMAIN conn_house = 1 .. Len(conn_house)
         /\ \A k \in DOMAIN conn_house : conn_house[k] \in Conns
<1>1. conn_house \in Seq(Conns)
  BY DEF Types, ListTypes
<1> QED BY <1>1, LenProperties, ElementOfSeq

\* One row more, and the others as they were.
LEMMA RowAdded ==
  ASSUME Types, info_parser
  PROVE  /\ conn_house' \in Seq(Conns)
         /\ Len(conn_house') = Len(conn_house) + 1
         /\ DOMAIN conn_house' = DOMAIN conn_house \cup {Len(conn_house) + 1}
         /\ Len(conn_house) + 1 \notin DOMAIN conn_house
         /\ \A k \in DOMAIN conn_house : conn_house'[k] = conn_house[k]
         /\ conn_house'[Len(conn_house) + 1] = NewRow
<1>1. conn_house' = Append(conn_house, NewRow)
  BY DEF info_parser, NewRow
<1>2. NewRow \in Conns
  BY NewRowIs DEF info_parser
<1> DEFINE row == NewRow
           list == conn_house
           longer == Append(list, row)
<1>3. list \in Seq(Conns) /\ row \in Conns
  BY <1>2 DEF Types, ListTypes
<1> HIDE DEF row, list
<1>4. /\ longer \in Seq(Conns) /\ Len(longer) = Len(list) + 1
      /\ \A k \in 1 .. Len(list) : longer[k] = list[k]
      /\ longer[Len(list) + 1] = row
  BY <1>3, AppendProperties
<1> HIDE DEF longer
<1>5. Len(list) \in Nat /\ DOMAIN list = 1 .. Len(list)
  BY ConnsAre DEF list
<1>6. DOMAIN longer = 1 .. Len(longer)
  BY <1>4, LenProperties
<1>7. /\ DOMAIN longer = DOMAIN list \cup {Len(list) + 1}
      /\ Len(list) + 1 \notin DOMAIN list
  BY <1>4, <1>5, <1>6
<1> QED BY <1>1, <1>4, <1>5, <1>7 DEF row, list, longer

LEMMA TypesInfoParser == ASSUME Types, info_parser PROVE Types'
<1>1. /\ pc = "parse" /\ pc' \in {"close", "next"}
      /\ UNCHANGED <<world, loc, scan, pid_house>>
  BY DEF info_parser, Goto
<1>2. ListTypes' /\ scan' \in Scans
  BY <1>1, RowAdded DEF Types, ListTypes, LocalTypes
<1>3. pc \in Reading /\ pc' \in Labels \ {"pass"}
  BY <1>1 DEF Labels, Reading
<1> QED BY <1>1, <1>2, <1>3, TypesBeside

\* One entry more in the list of processes.
LEMMA HouseAdded ==
  ASSUME Types, NEW p \in Pids, pid_house' = Append(pid_house, [pid |-> p, inodes |-> <<>>])
  PROVE  /\ pid_house' \in Seq(Houses) /\ pid_house' # <<>>
         /\ Len(pid_house') = Len(pid_house) + 1
         /\ DOMAIN pid_house' = DOMAIN pid_house \cup {Len(pid_house')}
         /\ \A k \in DOMAIN pid_house : pid_house'[k] = pid_house[k]
         /\ pid_house'[Len(pid_house')] = [pid |-> p, inodes |-> <<>>]
<1> DEFINE entry == [pid |-> p, inodes |-> <<>>]
           list == pid_house
           longer == Append(list, entry)
<1>1. list \in Seq(Houses) /\ entry \in Houses
  BY DEF Types, ListTypes, Houses
<1> HIDE DEF entry, list
<1>2. /\ longer \in Seq(Houses) /\ Len(longer) = Len(list) + 1 /\ longer # <<>>
      /\ \A k \in 1 .. Len(list) : longer[k] = list[k]
      /\ longer[Len(list) + 1] = entry
  BY <1>1, AppendProperties
<1> HIDE DEF longer
<1>3. Len(list) \in Nat /\ DOMAIN list = 1 .. Len(list)
  BY <1>1, LenProperties
<1>4. DOMAIN longer = 1 .. Len(longer)
  BY <1>2, LenProperties
<1>5. DOMAIN longer = DOMAIN list \cup {Len(longer)}
  BY <1>2, <1>3, <1>4
<1>6. longer[Len(longer)] = entry
  BY <1>2
<1>7. pid_house' = longer
  BY DEF longer, list, entry
<1> QED BY <1>2, <1>3, <1>5, <1>6, <1>7 DEF entry, list

\* One socket more in the last entry.
LEMMA HouseGrown ==
  ASSUME Types, pid_house # <<>>, NEW inode \in Inodes,
         pid_house' = [pid_house EXCEPT ![Len(pid_house)].inodes = Append(@, inode)]
  PROVE  /\ pid_house' \in Seq(Houses) /\ pid_house' # <<>>
         /\ Len(pid_house') = Len(pid_house) /\ DOMAIN pid_house' = DOMAIN pid_house
         /\ \A k \in DOMAIN pid_house : pid_house'[k].pid = pid_house[k].pid
         /\ \A k \in DOMAIN pid_house :
              k # Len(pid_house) => pid_house'[k].inodes = pid_house[k].inodes
         /\ Len(pid_house) \in DOMAIN pid_house
         /\ Len(pid_house'[Len(pid_house)].inodes) = Len(pid_house[Len(pid_house)].inodes) + 1
         /\ \A j \in DOMAIN pid_house'[Len(pid_house)].inodes :
              \/ /\ j \in DOMAIN pid_house[Len(pid_house)].inodes
                 /\ pid_house'[Len(pid_house)].inodes[j] = pid_house[Len(pid_house)].inodes[j]
              \/ pid_house'[Len(pid_house)].inodes[j] = inode
<1> DEFINE list == pid_house
           last == Len(list)
           old == list[last].inodes
           new == Append(old, inode)
           longer == [list EXCEPT ![last].inodes = new]
<1>1. list \in Seq(Houses)
  BY DEF Types, ListTypes
<1>2. last \in Nat \ {0}
  BY <1>1, EmptySeq
<1>3. DOMAIN list = 1 .. last /\ last \in DOMAIN list
  BY <1>2, HousesAre
<1>4. /\ list[last] \in Houses /\ old \in Seq(Inodes)
      /\ DOMAIN old = 1 .. Len(old) /\ Len(old) \in Nat
  BY <1>3, HousesAre
<1>5. pid_house' = longer
  OBVIOUS
<1> HIDE DEF old
<1>6. /\ new \in Seq(Inodes) /\ Len(new) = Len(old) + 1
      /\ \A j \in 1 .. Len(old) : new[j] = old[j]
      /\ new[Len(old) + 1] = inode
  <2>1. old \in Seq(Inodes)
    BY <1>4
  <2> QED BY <2>1, AppendProperties
<1>7. DOMAIN new = 1 .. Len(new)
  BY <1>6, LenProperties
<1> HIDE DEF new
<1>8. \A j \in DOMAIN new : (j \in DOMAIN old /\ new[j] = old[j]) \/ new[j] = inode
  <2>1. \A j \in DOMAIN new : j \in 1 .. Len(old) \/ j = Len(old) + 1
    BY <1>4, <1>6, <1>7
  <2> QED BY <1>4, <1>6, <2>1
<1> DEFINE house == [list[last] EXCEPT !.inodes = new]
<1>9. house \in Houses /\ house.pid = list[last].pid /\ house.inodes = new
  BY <1>4, <1>6 DEF Houses
<1>10. longer = [list EXCEPT ![last] = house]
  OBVIOUS
<1> HIDE DEF house, longer
<1>11. /\ longer \in Seq(Houses) /\ Len(longer) = Len(list)
       /\ \A k \in 1 .. Len(list) : longer[k] = IF k = last THEN house ELSE list[k]
  <2> DEFINE n == last
  <2>1. n \in 1 .. Len(list) /\ longer = [list EXCEPT ![n] = house]
    BY <1>3, <1>10
  <2> HIDE DEF n, list
  <2>2. list \in Seq(Houses) /\ house \in Houses
    BY <1>1, <1>9
  <2>3. /\ longer \in Seq(Houses) /\ Len(longer) = Len(list)
        /\ \A k \in 1 .. Len(list) : longer[k] = IF k = n THEN house ELSE list[k]
    BY <2>1, <2>2, ExceptSeq
  <2> QED BY <2>3 DEF n
<1>12. DOMAIN longer = DOMAIN list /\ longer # <<>>
  <2>1. DOMAIN longer = 1 .. Len(longer)
    BY <1>11, LenProperties
  <2>2. Len(longer) # 0
    BY <1>2, <1>11
  <2> QED BY <1>3, <1>11, <2>1, <2>2, EmptySeq
<1>13. longer[last] = house
  BY <1>3, <1>11
<1> HIDE DEF last
<1>14. \A k \in DOMAIN list : longer[k].pid = list[k].pid
  BY <1>3, <1>9, <1>11 DEF last
<1>15. \A k \in DOMAIN list : k # last => longer[k].inodes = list[k].inodes
  BY <1>3, <1>11 DEF last
<1> QED BY <1>3, <1>5, <1>6, <1>8, <1>9, <1>11, <1>12, <1>13, <1>14, <1>15 DEF last, old

LEMMA TypesPidFactory == ASSUME Types, pid_factory PROVE Types'
<1>1. /\ pc = "scan" /\ pc' = "pid"
      /\ scan' = [scan EXCEPT !.todo = {p \in Pids : Exists(p)}]
      /\ UNCHANGED <<world, loc, pid_house, conn_house>>
  BY DEF pid_factory, Goto
<1>2. scan' \in Scans
  BY <1>1 DEF Types, LocalTypes, Scans
<1>3. ListTypes'
  BY <1>1 DEF Types, ListTypes
<1>4. pc \in Reading /\ pc' \in Labels \ {"pass"}
  BY <1>1 DEF Labels, Reading, Scanning
<1> QED BY <1>1, <1>2, <1>3, <1>4, TypesBeside

LEMMA TypesEndOfScan == ASSUME Types, EndOfScan PROVE Types'
<1>1. /\ pc = "pid" /\ pc' = "parse"
      /\ scan' = [scan EXCEPT !.done = TRUE]
      /\ UNCHANGED <<world, loc, pid_house, conn_house>>
  BY DEF EndOfScan, Goto
<1>2. scan' \in Scans
  BY <1>1 DEF Types, LocalTypes, Scans
<1>3. ListTypes'
  BY <1>1 DEF Types, ListTypes
<1>4. pc \in Reading /\ pc' \in Labels \ {"pass"}
  BY <1>1 DEF Labels, Reading, Scanning
<1> QED BY <1>1, <1>2, <1>3, <1>4, TypesBeside

LEMMA TypesReadCmdline == ASSUME Types, ReadCmdline PROVE Types'
<1>1. /\ pc = "pid" /\ pc' \in {"fds", "crashed"} /\ scan.todo # {}
      /\ UNCHANGED <<world, loc, scan, conn_house>>
  BY DEF ReadCmdline, Goto
<1>2. Looking \in Pids
  BY <1>1, LookingIs
<1>3. pid_house' \in Seq(Houses)
  <2>1. \/ pid_house' = Append(pid_house, [pid |-> Looking, inodes |-> <<>>])
        \/ pid_house' = pid_house
    BY DEF ReadCmdline
  <2>2. CASE pid_house' = Append(pid_house, [pid |-> Looking, inodes |-> <<>>])
    BY <1>2, <2>2, HouseAdded
  <2>3. CASE pid_house' = pid_house
    BY <2>3 DEF Types, ListTypes
  <2> QED BY <2>1, <2>2, <2>3
<1>4. ListTypes' /\ scan' \in Scans
  BY <1>1, <1>3 DEF Types, ListTypes, LocalTypes
<1>5. pc \in Reading /\ pc' \in Labels \ {"pass"}
  BY <1>1 DEF Labels, Reading, Scanning
<1> QED BY <1>1, <1>4, <1>5, TypesBeside

LEMMA TypesListFds == ASSUME Types, ListFds \/ EndOfFds PROVE Types'
<1>1. /\ pc \in {"fds", "link"} /\ pc' \in {"link", "pid"}
      /\ \/ scan' = [scan EXCEPT !.fds = {f \in 1 .. MaxFd : fds[Looking][f] # 0}]
         \/ scan' = [scan EXCEPT !.todo = @ \ {Looking}]
      /\ UNCHANGED <<world, loc, pid_house, conn_house>>
  BY DEF ListFds, EndOfFds, Goto
<1>2. scan' \in Scans
  BY <1>1 DEF Types, LocalTypes, Scans
<1>3. ListTypes'
  BY <1>1 DEF Types, ListTypes
<1>4. pc \in Reading /\ pc' \in Labels \ {"pass"}
  BY <1>1 DEF Labels, Reading, Scanning
<1> QED BY <1>1, <1>2, <1>3, <1>4, TypesBeside

\* readlink looks at the lowest descriptor left; what it finds is stored or lost.
LEMMA ReadLinkIs ==
  ASSUME Types, ReadLink, scan.todo # {}
  PROVE  /\ pc = "link" /\ UNCHANGED <<world, loc, conn_house>>
         /\ \E f \in scan.fds :
              /\ f \in 1 .. MaxFd /\ scan' = [scan EXCEPT !.fds = @ \ {f}]
              /\ \/ pc' = pc /\ pid_house' = pid_house
                 \/ /\ pc' = "lost" /\ pid_house' = pid_house
                    /\ pid_house = <<>> \/ Full(pid_house[Len(pid_house)].inodes)
                 \/ /\ pc' = pc /\ pid_house # <<>> /\ fds[Looking][f] \in Inodes
                    /\ pid_house' = [pid_house EXCEPT ![Len(pid_house)].inodes
                                                        = Append(@, fds[Looking][f])]
<1> DEFINE f == Min(scan.fds)
<1>1. scan.fds \subseteq 1 .. MaxFd /\ scan.fds # {}
  BY DEF Types, LocalTypes, Scans, ReadLink
<1>2. f \in scan.fds
  <2>1. scan.fds \subseteq Nat
    BY <1>1
  <2> QED BY <1>1, <2>1, MinIs
<1>3. Looking \in Pids
  BY LookingIs
<1>4. fds[Looking][f] \in {0} \cup Inodes
  BY <1>1, <1>2, <1>3 DEF Types, WorldInv, WorldTypes
<1>5. /\ pc = "link" /\ UNCHANGED <<world, loc, conn_house>>
      /\ scan' = [scan EXCEPT !.fds = @ \ {f}]
      /\ IF fds[Looking][f] = 0 THEN pc' = pc /\ pid_house' = pid_house
         ELSE store_inode(fds[Looking][f])
  BY DEF ReadLink
<1> HIDE DEF f
<1>6. CASE fds[Looking][f] = 0
  BY <1>1, <1>2, <1>5, <1>6
<1>7. CASE fds[Looking][f] # 0
  <2>1. store_inode(fds[Looking][f]) /\ fds[Looking][f] \in Inodes
    BY <1>4, <1>5, <1>7
  <2>2. Last(pid_house) = pid_house[Len(pid_house)]
    BY DEF Last
  <2> QED BY <1>1, <1>2, <1>5, <2>1, <2>2 DEF store_inode, Goto
<1> QED BY <1>6, <1>7

LEMMA TypesReadLink == ASSUME Types, ReadLink, scan.todo # {} PROVE Types'
<1>1. pc = "link" /\ UNCHANGED <<world, loc, conn_house>>
  BY ReadLinkIs
<1>2. PICK f \in scan.fds :
        /\ scan' = [scan EXCEPT !.fds = @ \ {f}]
        /\ pc' \in {pc, "lost"}
        /\ \/ pid_house' = pid_house
           \/ /\ pid_house # <<>> /\ fds[Looking][f] \in Inodes
              /\ pid_house' = [pid_house EXCEPT ![Len(pid_house)].inodes
                                                  = Append(@, fds[Looking][f])]
  BY ReadLinkIs
<1>3. scan' \in Scans
  BY <1>2 DEF Types, LocalTypes, Scans
<1>4. pid_house' \in Seq(Houses)
  <2>1. CASE pid_house' = pid_house
    BY <2>1 DEF Types, ListTypes
  <2>2. CASE pid_house' # pid_house
    BY <1>2, <2>2, HouseGrown
  <2> QED BY <2>1, <2>2
<1>5. ListTypes'
  BY <1>1, <1>4 DEF Types, ListTypes
<1>6. pc \in Reading /\ pc' \in Labels \ {"pass"}
  BY <1>1, <1>2 DEF Labels, Reading, Scanning
<1> QED BY <1>1, <1>3, <1>5, <1>6, TypesBeside

\* A process is being looked at until its descriptors have been.
Underway == pc \in {"fds", "link"} => scan.todo # {}

Base == Types /\ Underway

LEMMA BaseInit == Init => Base
<1> SUFFICES ASSUME Init PROVE Base
  OBVIOUS
<1>1. pc = "pass"
  BY DEF Init
<1> QED BY <1>1, TypesInit DEF Base, Underway

LEMMA BaseNext == Base /\ [Next]_vars => Base'
<1> SUFFICES ASSUME Base, [Next]_vars PROVE Base'
  OBVIOUS
<1>1. Types
  BY DEF Base
<1>2. CASE World
  BY <1>1, <1>2, TypesWorld DEF World, Base, Underway
<1>3. CASE UNCHANGED vars
  <2>1. /\ UNCHANGED <<world, loc, scan, pid_house, conn_house>> /\ pc' = pc
    BY <1>3 DEF vars
  <2>2. WorldInv'
    BY <1>1, <2>1, SameWorld
  <2> QED BY <2>1, <2>2 DEF Base, Types, LocalTypes, ListTypes, FewFiles, Place, Underway
<1>4. CASE OpenFile
  <2>1. pc' \in {"head", "crashed"}
    BY <1>4 DEF OpenFile, Goto
  <2> QED BY <1>1, <1>4, <2>1, TypesOpenFile DEF Base, Underway
<1>5. CASE print_info
  BY <1>1, <1>5, TypesPrintInfo DEF Base, Underway, print_info, Printing
<1>6. CASE EndOfProgram
  BY <1>1, <1>6, TypesEndOfProgram DEF Base, Underway, EndOfProgram, Goto
<1>7. CASE ReadHead \/ ReadFirst \/ ReadNext
  <2>1. pc' \in {"first", "parse", "scan", "close"}
    BY <1>7 DEF ReadHead, ReadFirst, ReadNext, Goto
  <2> QED BY <1>1, <1>7, <2>1, TypesReading DEF Base, Underway
<1>8. CASE CloseFile
  BY <1>1, <1>8, TypesCloseFile DEF Base, Underway, CloseFile, Goto
<1>9. CASE info_parser
  <2>1. pc' \in {"close", "next"}
    BY <1>9 DEF info_parser, Goto
  <2> QED BY <1>1, <1>9, <2>1, TypesInfoParser DEF Base, Underway
<1>10. CASE pid_factory
  BY <1>1, <1>10, TypesPidFactory DEF Base, Underway, pid_factory, Goto
<1>11. CASE EndOfScan
  BY <1>1, <1>11, TypesEndOfScan DEF Base, Underway, EndOfScan, Goto
<1>12. CASE ReadCmdline
  <2>1. scan' = scan /\ scan.todo # {}
    BY <1>12 DEF ReadCmdline
  <2> QED BY <1>1, <1>12, <2>1, TypesReadCmdline DEF Base, Underway
<1>13. CASE ListFds \/ EndOfFds
  <2>1. \/ pc' = "pid"
        \/ /\ scan' = [scan EXCEPT !.fds = {f \in 1 .. MaxFd : fds[Looking][f] # 0}]
           /\ scan.todo # {}
    BY <1>13 DEF ListFds, EndOfFds, Goto, Base, Underway
  <2>2. scan \in Scans
    BY <1>1 DEF Types, LocalTypes
  <2>3. Underway'
    BY <2>1, <2>2 DEF Underway, Scans
  <2> QED BY <1>1, <1>13, <2>3, TypesListFds DEF Base
<1>14. CASE ReadLink
  <2>1. scan.todo # {}
    BY <1>14 DEF ReadLink, Base, Underway
  <2>2. PICK f : scan' = [scan EXCEPT !.fds = @ \ {f}]
    BY <1>14 DEF ReadLink
  <2>3. scan'.todo = scan.todo
    BY <1>1, <2>2 DEF Types, LocalTypes, Scans
  <2> QED BY <1>1, <1>14, <2>1, <2>3, TypesReadLink DEF Base, Underway
<1> QED BY <1>2, <1>3, <1>4, <1>5, <1>6, <1>7, <1>8, <1>9, <1>10, <1>11, <1>12, <1>13, <1>14
        DEF Next, Program

LEMMA BaseHolds == Spec => []Base
<1>1. Init => Base
  BY BaseInit
<1>2. Base /\ [Next]_vars => Base'
  BY BaseNext
<1> QED BY <1>1, <1>2, PTL DEF Spec

-----------------------------------------------------------------------------
(* Lines come in the order of the table, each of the table being read.      *)

InOrder ==
  /\ loc.line.sock <= loc.pos
  /\ loc.line.sock # 0 => Family[loc.line.sock] = File
  /\ \A row \in loc.buf :
       /\ loc.line.sock < row.sock /\ row.sock <= loc.pos
       /\ row.sock \in Inodes /\ Family[row.sock] = File
       /\ \A other \in loc.buf : row.sock = other.sock => row = other

Ordered == pc \in Reading \ {"head"} => InOrder

LEMMA SameFile == ASSUME SamePlace PROVE File' = File
BY DEF SamePlace, File

LEMMA LineIs ==
  ASSUME Types
  PROVE  /\ loc.line \in Lines /\ loc.line.sock \in {0} \cup Inodes /\ loc.line.sock \in Nat
         /\ loc.pos \in Nat
<1>1. loc.line \in Lines /\ loc.pos \in Nat
  BY DEF Types, LocalTypes, Locals
<1>2. loc.line.sock \in {0} \cup Inodes
  BY <1>1 DEF Lines
<1>3. {0} \cup Inodes \subseteq Nat
  BY NatInodes
<1>4. loc.line.sock \in Nat
  BY <1>2, <1>3
<1> QED BY <1>1, <1>2, <1>4

LEMMA GetlineOrder ==
  ASSUME Types, InOrder, Getline
  PROVE  /\ InOrder'
         /\ Filled # {} => loc.line.sock < loc'.line.sock
         /\ Filled = {} => loc'.line = loc.line
<1>1. /\ loc' \in Locals /\ SamePlace
      /\ Filled = {} => loc' = [loc EXCEPT !.eof = TRUE]
      /\ Filled # {} =>
           /\ loc'.line \in Filled /\ loc'.buf = Filled \ {loc'.line}
           /\ \A row \in Filled : loc'.line.sock <= row.sock /\ row.sock <= loc'.pos
           /\ loc.pos <= loc'.pos
  BY GetlineIs
<1>2. File' = File
  BY <1>1, SameFile
<1>3. CASE Filled = {}
  <2>1. loc'.line = loc.line /\ loc'.buf = loc.buf /\ loc'.pos = loc.pos
    BY <1>1, <1>3 DEF Types, LocalTypes, Locals
  <2> QED BY <1>2, <1>3, <2>1 DEF InOrder
<1>4. CASE Filled # {}
  <2>1. \A row \in Filled :
          /\ loc.line.sock < row.sock
          /\ row.sock \in Inodes /\ Family[row.sock] = File
          /\ \A other \in Filled : row.sock = other.sock => row = other
    <3>1. CASE loc.buf # {}
      <4>1. Filled = loc.buf
        BY <3>1, FilledIs
      <4> QED BY <4>1 DEF InOrder
    <3>2. CASE loc.buf = {}
      <4>1. Filled = Rows(Chunk)
        BY <3>2, FilledIs
      <4>2. \A row \in Rows(Chunk) :
              /\ loc.pos < row.sock /\ row.sock \in Inodes /\ Family[row.sock] = File
              /\ \A other \in Rows(Chunk) : row.sock = other.sock => row = other
        BY RowsAre
      <4>3. \A i \in Inodes : loc.pos < i => loc.line.sock < i
        BY LineIs, NatInodes DEF InOrder
      <4> QED BY <4>1, <4>2, <4>3
    <3> QED BY <3>1, <3>2
  <2>2. /\ loc'.line \in Filled /\ loc'.buf = Filled \ {loc'.line}
        /\ \A row \in Filled : loc'.line.sock <= row.sock /\ row.sock <= loc'.pos
    BY <1>1, <1>4
  <2>3. \A row \in Filled \ {loc'.line} : loc'.line.sock < row.sock
    <3>1. \A row \in Filled : row.sock \in Nat
      BY <2>1, NatInodes
    <3> QED BY <2>1, <2>2, <3>1
  <2>4. InOrder'
    BY <1>2, <2>1, <2>2, <2>3 DEF InOrder
  <2> QED BY <1>4, <2>1, <2>2, <2>4
<1> QED BY <1>3, <1>4

LEMMA ReadHeadOrder == ASSUME Types, ReadHead PROVE InOrder'
<1>1. /\ loc' \in Locals /\ SamePlace
      /\ loc'.line = HeadLine /\ loc'.buf = Rows(Chunk - 1)
      /\ \A row \in loc'.buf : row.sock <= loc'.pos
  BY ReadHeadIs
<1>2. loc'.line.sock = 0 /\ loc'.pos \in Nat
  BY <1>1, HeadIsLine DEF Locals
<1>3. \A row \in Rows(Chunk - 1) :
        /\ row.sock \in Inodes /\ Family[row.sock] = File
        /\ \A other \in Rows(Chunk - 1) : row.sock = other.sock => row = other
  BY RowsAre
<1>4. \A i \in Inodes : 0 < i
  BY NatInodes
<1>5. File' = File
  BY <1>1, SameFile
<1> QED BY <1>1, <1>2, <1>3, <1>4, <1>5 DEF InOrder

LEMMA OrderedInit == Init => Ordered
<1> SUFFICES ASSUME Init PROVE Ordered
  OBVIOUS
<1>1. pc = "pass"
  BY DEF Init
<1> QED BY <1>1 DEF Ordered, Reading, Scanning

LEMMA OrderedNext == Base /\ Ordered /\ [Next]_vars => Ordered'
<1> SUFFICES ASSUME Base, Ordered, [Next]_vars PROVE Ordered'
  OBVIOUS
<1>1. Types
  BY DEF Base
<1>2. CASE loc' = loc /\ (pc' \in Reading \ {"head"} => pc \in Reading \ {"head"})
  BY <1>2 DEF Ordered, InOrder, File
<1>3. CASE pc' \notin Reading \ {"head"}
  BY <1>3 DEF Ordered
<1>4. CASE World \/ UNCHANGED vars
  BY <1>2, <1>4 DEF World, vars
<1>5. CASE OpenFile \/ print_info \/ EndOfProgram \/ CloseFile
  <2>1. pc' \in {"head", "crashed", "pass", "done"}
    BY <1>5 DEF OpenFile, print_info, Printing, EndOfProgram, CloseFile, Goto
  <2> QED BY <1>3, <2>1 DEF Reading, Scanning
<1>6. CASE ReadHead
  BY <1>1, <1>6, ReadHeadOrder DEF Ordered
<1>7. CASE ReadFirst \/ ReadNext
  <2>1. Getline /\ pc \in Reading \ {"head"}
    BY <1>7 DEF ReadFirst, ReadNext, Reading
  <2> QED BY <1>1, <2>1, GetlineOrder DEF Ordered
<1>8. CASE \/ info_parser \/ pid_factory \/ EndOfScan \/ ReadCmdline
           \/ ListFds \/ EndOfFds \/ ReadLink
  <2>1. loc' = loc /\ pc \in Reading \ {"head"}
    BY <1>8 DEF info_parser, pid_factory, EndOfScan, ReadCmdline, ListFds, EndOfFds,
                ReadLink, Reading, Scanning
  <2> QED BY <1>2, <2>1
<1> QED BY <1>4, <1>5, <1>6, <1>7, <1>8 DEF Next, Program

LEMMA OrderedHolds == Spec => []Ordered
<1>1. Init => Ordered
  BY OrderedInit
<1>2. Base /\ Ordered /\ [Next]_vars => Ordered'
  BY OrderedNext
<1> QED BY <1>1, <1>2, BaseHolds, PTL DEF Spec

-----------------------------------------------------------------------------
(* The columns show where the sockets are.                                  *)

LEMMA NewRowShows ==
  ASSUME Types, Ordered, pc = "parse", NewRow.sock # 0
  PROVE  /\ NewRow.addr.port = Address[NewRow.sock].port
         /\ NewRow.file \in {"tcp", "udp"} => NewRow.addr = Address[NewRow.sock]
<1> DEFINE i == loc.line.sock
<1>1. /\ NewRow.file = File /\ NewRow.sock = i /\ NewRow.addr = Shown(loc.line)
  BY DEF NewRow
<1>2. i \in Inodes /\ i # 0
  BY <1>1, LineIs
<1>3. Family[i] = File
  BY <1>1 DEF Ordered, InOrder, Reading
<1> HIDE DEF i
<1>4. CASE File \in {"tcp", "udp"}
  <2>1. Address[i] \in [addr : [1 .. 4 -> Byte], port : Port]
    BY <1>2, <1>3, <1>4, SocketAssumption
  <2>2. PICK bytes \in [1 .. 4 -> Byte], port \in Port :
          Address[i] = [addr |-> bytes, port |-> port]
    BY <2>1
  <2>3. addr_hex2dec_v4(Field(Address[i])) = Address[i]
    BY <2>2, AddressV4
  <2>4. Shown(loc.line) = addr_hex2dec_v4(Field(Address[i]))
    BY <1>2, <1>4 DEF Shown, i
  <2> QED BY <1>1, <2>3, <2>4
<1>5. CASE File \notin {"tcp", "udp"}
  <2>1. Address[i] \in [addr : [1 .. 16 -> Byte], port : Port]
    BY <1>2, <1>3, <1>5, SocketAssumption
  <2>2. PICK bytes \in [1 .. 16 -> Byte], port \in Port :
          Address[i] = [addr |-> bytes, port |-> port]
    BY <2>1
  <2>3. addr_hex2dec_v6(Field(Address[i])).port = Address[i].port
    <3>1. addr_hex2dec_v6(Field(Address[i])).port = port
      BY <2>2, PortV6
    <3> QED BY <2>2, <3>1
  <2>4. Shown(loc.line) = addr_hex2dec_v6(Field(Address[i]))
    BY <1>2, <1>5 DEF Shown, i
  <2> QED BY <1>1, <1>5, <2>3, <2>4
<1> QED BY <1>4, <1>5

\* Only info_parser writes to the list of connections.
LEMMA OnlyParserWrites ==
  ASSUME [Next]_vars, ~info_parser PROVE conn_house' = conn_house
BY DEF Next, vars, World, Program, OpenFile, print_info, EndOfProgram, ReadHead, ReadFirst,
       ReadNext, CloseFile, pid_factory, EndOfScan, ReadCmdline, ListFds, EndOfFds, ReadLink

\* Whatever is done to the world and to the lists meanwhile, the rows show
\* the IPv4 addresses and all the ports as they are.
THEOREM ColumnsAreRight == Spec => []AddressesShown
<1>1. Init => AddressesShown
  <2> SUFFICES ASSUME Init PROVE AddressesShown
    OBVIOUS
  <2>1. conn_house = <<>>
    BY DEF Init
  <2> QED BY <2>1 DEF AddressesShown
<1>2. Base /\ Ordered /\ AddressesShown /\ [Next]_vars => AddressesShown'
  <2> SUFFICES ASSUME Base, Ordered, AddressesShown, [Next]_vars PROVE AddressesShown'
    OBVIOUS
  <2>1. CASE info_parser
    <3>1. Types /\ pc = "parse"
      BY <2>1 DEF Base, info_parser
    <3>2. ASSUME NEW k \in DOMAIN conn_house', conn_house'[k].sock # 0
          PROVE  /\ conn_house'[k].addr.port = Address[conn_house'[k].sock].port
                 /\ conn_house'[k].file \in {"tcp", "udp"} =>
                      conn_house'[k].addr = Address[conn_house'[k].sock]
      <4>1. CASE k \in DOMAIN conn_house
        <5>1. conn_house'[k] = conn_house[k]
          BY <2>1, <3>1, <4>1, RowAdded
        <5> QED BY <3>2, <4>1, <5>1 DEF AddressesShown
      <4>2. CASE k \notin DOMAIN conn_house
        <5>1. conn_house'[k] = NewRow
          BY <2>1, <3>1, <4>2, RowAdded
        <5> QED BY <3>1, <3>2, <5>1, NewRowShows
      <4> QED BY <4>1, <4>2
    <3> QED BY <3>2 DEF AddressesShown
  <2>2. CASE ~info_parser
    BY <2>2, OnlyParserWrites DEF AddressesShown
  <2> QED BY <2>1, <2>2
<1> QED BY <1>1, <1>2, BaseHolds, OrderedHolds, PTL DEF Spec

-----------------------------------------------------------------------------
(* The scan.                                                                *)

\* pid may be named beside the socket i.
Creditable(pid, i) ==
  pid \in held[i] \/ \E q \in held[i] : pid < q /\ Ended(q)

EntriesCreditable ==
  \A k \in DOMAIN pid_house : \A j \in DOMAIN pid_house[k].inodes :
    Creditable(pid_house[k].pid, pid_house[k].inodes[j])

RowsCreditable ==
  \A k \in DOMAIN conn_house :
    conn_house[k].owner # 0 =>
      /\ conn_house[k].inode \in Inodes
      /\ Creditable(conn_house[k].owner, conn_house[k].inode)

\* Whoever is still to be looked at has been there since the scan began.
TodoStarted == \A p \in scan.todo : life[p] # "none"

\* There is one scan, and its entries come in the order of the processes.
ListOrdered ==
  /\ ~scan.done /\ pc \notin {"pid", "fds", "link", "crashed", "lost"} => pid_house = <<>>
  /\ pc \in Scanning => ~scan.done
  /\ pc = "pid" => \A k \in DOMAIN pid_house : \A p \in scan.todo : pid_house[k].pid < p
  /\ pc \in {"fds", "link"} => \A k \in DOMAIN pid_house : pid_house[k].pid <= Looking

\* The last entry is that of the process looked at, with room for what is
\* left of its sockets, unless it was ending when its cmdline was read.
EntryHasRoom ==
  pc \in {"fds", "link"} =>
    \/ /\ pid_house # <<>>
       /\ pid_house[Len(pid_house)].pid = Looking
       /\ IF pc = "fds" THEN pid_house[Len(pid_house)].inodes = <<>>
          ELSE Len(pid_house[Len(pid_house)].inodes) + Cardinality(scan.fds) <= MaxFd
    \/ Ended(Looking) /\ \A k \in DOMAIN pid_house : pid_house[k].pid < Looking

ScanInv == EntriesCreditable /\ RowsCreditable /\ TodoStarted /\ ListOrdered /\ EntryHasRoom

LEMMA StepGoesOn == ASSUME Base, [Next]_vars PROVE Onward
<1>1. WorldInv
  BY DEF Base, Types
<1>2. CASE World
  BY <1>1, <1>2, WorldGoesOn
<1>3. CASE ~World
  <2>1. UNCHANGED world
    BY <1>3, ProgramOnlyLooks DEF Next, vars
  <2> QED BY <1>1, <2>1, WorldStands
<1> QED BY <1>2, <1>3

LEMMA CreditKept ==
  ASSUME Types, Onward, NEW pid \in Pids, NEW i \in Inodes, Creditable(pid, i)
  PROVE  Creditable(pid, i)'
<1>1. held[i] \subseteq held[i]'
  BY DEF Onward
<1>2. held[i] \subseteq Pids
  BY DEF Types, WorldInv, WorldTypes
<1>3. \A q \in held[i] : Ended(q) => Ended(q)'
  BY <1>2 DEF Onward
<1> QED BY <1>1, <1>3 DEF Creditable

LEMMA EntryIs ==
  ASSUME Types, NEW k \in DOMAIN pid_house, NEW j \in DOMAIN pid_house[k].inodes
  PROVE  pid_house[k].pid \in Pids /\ pid_house[k].inodes[j] \in Inodes
<1> DEFINE s == pid_house[k].inodes
<1>1. s \in Seq(Inodes) /\ j \in 1 .. Len(s)
  BY HousesAre
<1> HIDE DEF s
<1>2. s[j] \in Inodes
  BY <1>1, ElementOfSeq
<1> QED BY <1>2, HousesAre DEF s

LEMMA EntriesKept ==
  ASSUME Types, Onward, EntriesCreditable, NEW k \in DOMAIN pid_house,
         NEW j \in DOMAIN pid_house[k].inodes,
         NEW pid, NEW i, pid = pid_house[k].pid, i = pid_house[k].inodes[j]
  PROVE  pid \in Pids /\ i \in Inodes /\ Creditable(pid, i)'
<1>1. pid \in Pids /\ i \in Inodes
  BY EntryIs
<1>2. Creditable(pid, i)
  BY DEF EntriesCreditable
<1> QED BY <1>1, <1>2, CreditKept

\* Only these two write to the list of processes.
LEMMA OnlyScanWrites ==
  ASSUME [Next]_vars, ~ReadCmdline, ~ReadLink PROVE pid_house' = pid_house
BY DEF Next, vars, World, Program, OpenFile, print_info, EndOfProgram, ReadHead, ReadFirst,
       ReadNext, CloseFile, info_parser, pid_factory, EndOfScan, ListFds, EndOfFds

LEMMA EntriesStand ==
  ASSUME Types, Onward, EntriesCreditable, pid_house' = pid_house
  PROVE  EntriesCreditable'
<1>1. ASSUME NEW k \in DOMAIN pid_house, NEW j \in DOMAIN pid_house[k].inodes
      PROVE  Creditable(pid_house[k].pid, pid_house[k].inodes[j])'
  <2>1. PICK pid, i : pid = pid_house[k].pid /\ i = pid_house[k].inodes[j]
    OBVIOUS
  <2>2. Creditable(pid, i)'
    BY <2>1, EntriesKept
  <2> QED BY <2>1, <2>2 DEF Creditable
<1> QED BY <1>1 DEF EntriesCreditable

\* A socket found among the descriptors of the process looked at may be
\* credited to the last process of the list.
LEMMA FoundCreditable ==
  ASSUME Base, ScanInv, pc = "link", pid_house # <<>>, NEW f \in 1 .. MaxFd,
         NEW i, i = fds[Looking][f], i \in Inodes,
         NEW pid, pid = pid_house[Len(pid_house)].pid
  PROVE  Creditable(pid, i)
<1>1. Types /\ scan.todo # {}
  BY DEF Base, Underway
<1>2. Looking \in Pids
  BY <1>1, LookingIs
<1>3. i # 0
  BY NatInodes
<1>4. Looking \in held[i]
  BY <1>1, <1>2, <1>3 DEF Types, WorldInv, HoldersKnown
<1>5. Len(pid_house) \in DOMAIN pid_house
  <2>1. pid_house \in Seq(Houses)
    BY <1>1 DEF Types, ListTypes
  <2> QED BY <2>1, EmptySeq, LenProperties
<1>6. pid = Looking \/ (Ended(Looking) /\ pid < Looking)
  BY <1>5 DEF ScanInv, EntryHasRoom
<1> QED BY <1>4, <1>6 DEF Creditable

LEMMA EntriesNext ==
  ASSUME Base, ScanInv, [Next]_vars PROVE EntriesCreditable'
<1>1. Types /\ Onward /\ EntriesCreditable
  BY StepGoesOn DEF Base, ScanInv
<1>2. CASE pid_house' = pid_house
  BY <1>1, <1>2, EntriesStand
<1>3. CASE ReadCmdline /\ pid_house' # pid_house
  <2>1. scan.todo # {} /\ pid_house' = Append(pid_house, [pid |-> Looking, inodes |-> <<>>])
    BY <1>3 DEF ReadCmdline
  <2>2. Looking \in Pids
    BY <1>1, <2>1, LookingIs
  <2>3. /\ DOMAIN pid_house' = DOMAIN pid_house \cup {Len(pid_house')}
        /\ \A k \in DOMAIN pid_house : pid_house'[k] = pid_house[k]
        /\ pid_house'[Len(pid_house')] = [pid |-> Looking, inodes |-> <<>>]
    BY <1>1, <2>1, <2>2, HouseAdded
  <2>4. ASSUME NEW k \in DOMAIN pid_house', NEW j \in DOMAIN pid_house'[k].inodes
        PROVE  Creditable(pid_house[k].pid, pid_house[k].inodes[j])'
    <3>1. k \in DOMAIN pid_house /\ pid_house'[k] = pid_house[k]
      <4>1. CASE k \notin DOMAIN pid_house
        <5>1. k = Len(pid_house')
          BY <2>3, <4>1
        <5>2. pid_house'[k] = [pid |-> Looking, inodes |-> <<>>]
          BY <2>3, <5>1
        <5>3. pid_house'[k].inodes = <<>>
          BY <5>2
        <5>4. DOMAIN << >> = {}
          OBVIOUS
        <5> QED BY <2>4, <5>3, <5>4
      <4> QED BY <2>3, <4>1
    <3>2. PICK pid, i : pid = pid_house[k].pid /\ i = pid_house[k].inodes[j]
      OBVIOUS
    <3>3. Creditable(pid, i)'
      BY <1>1, <3>1, <3>2, EntriesKept
    <3> QED BY <3>1, <3>2, <3>3 DEF Creditable
  <2> QED BY <2>4 DEF EntriesCreditable
<1>4. CASE ReadLink /\ pid_house' # pid_house
  <2>1. scan.todo # {} /\ pc = "link"
    BY <1>4 DEF ReadLink, Base, Underway
  <2>2. PICK f \in 1 .. MaxFd :
          /\ pid_house # <<>> /\ fds[Looking][f] \in Inodes
          /\ pid_house' = [pid_house EXCEPT ![Len(pid_house)].inodes
                                              = Append(@, fds[Looking][f])]
    BY <1>1, <1>4, <2>1, ReadLinkIs
  <2>3. PICK inode : inode = fds[Looking][f]
    OBVIOUS
  <2> DEFINE last == Len(pid_house)
  <2>4. /\ DOMAIN pid_house' = DOMAIN pid_house
        /\ \A k \in DOMAIN pid_house : pid_house'[k].pid = pid_house[k].pid
        /\ \A k \in DOMAIN pid_house :
             k # last => pid_house'[k].inodes = pid_house[k].inodes
        /\ last \in DOMAIN pid_house
        /\ \A j \in DOMAIN pid_house'[last].inodes :
             \/ /\ j \in DOMAIN pid_house[last].inodes
                /\ pid_house'[last].inodes[j] = pid_house[last].inodes[j]
             \/ pid_house'[last].inodes[j] = inode
    BY <1>1, <2>2, <2>3, HouseGrown
  <2>5. ASSUME NEW k \in DOMAIN pid_house', NEW j \in DOMAIN pid_house'[k].inodes,
               NEW pid, NEW i, pid = pid_house'[k].pid, i = pid_house'[k].inodes[j]
        PROVE  Creditable(pid, i)'
    <3>1. CASE j \in DOMAIN pid_house[k].inodes /\ i = pid_house[k].inodes[j]
      <4>1. k \in DOMAIN pid_house /\ pid = pid_house[k].pid
        BY <2>4, <2>5
      <4> QED BY <1>1, <3>1, <4>1, EntriesKept
    <3>2. CASE ~(j \in DOMAIN pid_house[k].inodes /\ i = pid_house[k].inodes[j])
      <4>1. k = last /\ i = inode
        BY <2>4, <2>5, <3>2
      <4>2. pid = pid_house[last].pid /\ pid \in Pids
        BY <1>1, <2>4, <2>5, <4>1, HousesAre
      <4>3. Creditable(pid, i)
        BY <2>1, <2>2, <2>3, <4>1, <4>2, FoundCreditable
      <4>4. i \in Inodes
        BY <2>2, <2>3, <4>1
      <4> QED BY <1>1, <4>2, <4>3, <4>4, CreditKept
    <3> QED BY <3>1, <3>2
  <2>6. ASSUME NEW k \in DOMAIN pid_house', NEW j \in DOMAIN pid_house'[k].inodes
        PROVE  Creditable(pid_house[k].pid, pid_house[k].inodes[j])'
    <3>1. PICK pid, i : pid = pid_house'[k].pid /\ i = pid_house'[k].inodes[j]
      OBVIOUS
    <3>2. Creditable(pid, i)'
      BY <2>5, <3>1
    <3> QED BY <3>1, <3>2 DEF Creditable
  <2> QED BY <2>6 DEF EntriesCreditable
<1> QED BY <1>2, <1>3, <1>4, OnlyScanWrites

LEMMA RowsNext ==
  ASSUME Base, ScanInv, [Next]_vars PROVE RowsCreditable'
<1>1. Types /\ Onward /\ EntriesCreditable /\ RowsCreditable
  BY StepGoesOn DEF Base, ScanInv
<1>2. ASSUME NEW k \in DOMAIN conn_house, NEW pid, NEW i, pid # 0,
             pid = conn_house[k].owner, i = conn_house[k].inode
      PROVE  i \in Inodes /\ Creditable(pid, i)'
  <2>1. i \in Inodes /\ Creditable(pid, i)
    BY <1>1, <1>2 DEF RowsCreditable
  <2>2. pid \in Pids
    BY <1>1, <1>2, ConnsAre DEF Conns
  <2> QED BY <1>1, <2>1, <2>2, CreditKept
<1>3. ASSUME info_parser, NEW pid, NEW i, pid # 0, pid = NewRow.owner, i = NewRow.inode
      PROVE  i \in Inodes /\ Creditable(pid, i)'
  <2>1. pid = get_connection_owner(loc.line.inode) /\ i = loc.line.inode
    BY <1>3 DEF NewRow
  <2>2. PICK k \in DOMAIN pid_house : \E j \in DOMAIN pid_house[k].inodes :
               pid_house[k].inodes[j] = i /\ pid = pid_house[k].pid
    BY <1>1, <1>3, <2>1, OwnerIs
  <2> QED BY <1>1, <2>2, EntriesKept
<1>4. ASSUME NEW k \in DOMAIN conn_house', NEW pid, NEW i, pid # 0,
             pid = conn_house'[k].owner, i = conn_house'[k].inode
      PROVE  i \in Inodes /\ Creditable(pid, i)'
  <2>1. CASE ~info_parser
    BY <1>2, <1>4, <2>1, OnlyParserWrites
  <2>2. CASE info_parser /\ k \in DOMAIN conn_house
    <3>1. conn_house'[k] = conn_house[k]
      BY <1>1, <2>2, RowAdded
    <3> QED BY <1>2, <1>4, <2>2, <3>1
  <2>3. CASE info_parser /\ k \notin DOMAIN conn_house
    <3>1. conn_house'[k] = NewRow
      BY <1>1, <2>3, RowAdded
    <3> QED BY <1>3, <1>4, <2>3, <3>1
  <2> QED BY <2>1, <2>2, <2>3
<1>5. ASSUME NEW k \in DOMAIN conn_house', conn_house'[k].owner # 0
      PROVE  /\ conn_house'[k].inode \in Inodes
             /\ Creditable(conn_house[k].owner, conn_house[k].inode)'
  <2>1. PICK pid, i : pid = conn_house'[k].owner /\ i = conn_house'[k].inode
    OBVIOUS
  <2>2. i \in Inodes /\ Creditable(pid, i)'
    BY <1>4, <1>5, <2>1
  <2> QED BY <2>1, <2>2 DEF Creditable
<1> QED BY <1>5 DEF RowsCreditable

LEMMA TodoNext ==
  ASSUME Base, ScanInv, [Next]_vars PROVE TodoStarted'
<1>1. Types /\ Onward /\ TodoStarted
  BY StepGoesOn DEF Base, ScanInv
<1>2. scan \in Scans /\ scan.todo \subseteq Pids
  BY <1>1 DEF Types, LocalTypes, Scans
<1>3. CASE pid_factory
  <2>1. scan'.todo = {p \in Pids : Exists(p)} /\ life' = life
    BY <1>2, <1>3 DEF pid_factory, Scans, world
  <2> QED BY <2>1 DEF TodoStarted, Exists
<1>4. CASE scan'.todo \subseteq scan.todo
  BY <1>1, <1>2, <1>4 DEF TodoStarted, Onward
<1>5. CASE ~pid_factory
  <2>1. \/ scan' = scan
        \/ scan' = [scan EXCEPT !.done = TRUE]
        \/ scan' = [scan EXCEPT !.fds = {f \in 1 .. MaxFd : fds[Looking][f] # 0}]
        \/ scan' = [scan EXCEPT !.todo = @ \ {Looking}]
        \/ \E f : scan' = [scan EXCEPT !.fds = @ \ {f}]
    BY <1>5 DEF Next, vars, World, Program, OpenFile, print_info, EndOfProgram, ReadHead,
                ReadFirst, ReadNext, CloseFile, info_parser, EndOfScan, ReadCmdline,
                ListFds, EndOfFds, ReadLink
  <2>2. scan'.todo \subseteq scan.todo
    BY <1>2, <2>1 DEF Scans
  <2> QED BY <1>4, <2>2
<1> QED BY <1>3, <1>5

ScanOrder == ListOrdered /\ EntryHasRoom

\* Steps outside the scan.
LEMMA OrderBeside ==
  ASSUME Base, ScanInv, Onward, scan' = scan, pid_house' = pid_house,
         \/ pc' = pc
         \/ /\ pc \notin {"pid", "fds", "link", "crashed", "lost"}
            /\ pc' \notin {"pid", "fds", "link"}
            /\ pc' = "scan" => ~scan.done
  PROVE  ScanOrder'
<1>1. Looking' = Looking
  BY DEF Looking
<1>2. CASE pc' = pc
  <2>1. ListOrdered'
    BY <1>1, <1>2 DEF ScanInv, ListOrdered
  <2>2. EntryHasRoom'
    <3>1. CASE pc \in {"fds", "link"}
      <4>1. Looking \in Pids
        BY <3>1, LookingIs DEF Base, Underway
      <4>2. PICK p \in Pids : p = Looking
        BY <4>1
      <4>3. Ended(p) => Ended(p)'
        BY DEF Onward
      <4>4. Ended(Looking) => Ended(Looking)'
        BY <1>1, <4>2, <4>3 DEF Ended
      <4> QED BY <1>1, <1>2, <4>4 DEF ScanInv, EntryHasRoom
    <3>2. CASE pc \notin {"fds", "link"}
      BY <1>2, <3>2 DEF EntryHasRoom
    <3> QED BY <3>1, <3>2
  <2> QED BY <2>1, <2>2 DEF ScanOrder
<1>3. CASE pc' # pc
  <2>1. /\ pc \notin {"pid", "fds", "link", "crashed", "lost"}
        /\ pc' \notin {"pid", "fds", "link"}
        /\ pc' = "scan" => ~scan.done
    BY <1>3
  <2> QED BY <2>1 DEF ScanInv, ScanOrder, ListOrdered, EntryHasRoom, Scanning
<1> QED BY <1>2, <1>3

LEMMA OrderPidFactory ==
  ASSUME Base, ScanInv, pid_factory PROVE ScanOrder'
<1>1. /\ pc = "scan" /\ pc' = "pid" /\ pid_house' = pid_house
      /\ scan' = [scan EXCEPT !.todo = {p \in Pids : Exists(p)}]
  BY DEF pid_factory, Goto
<1>2. scan'.done = scan.done /\ ~scan.done
  BY <1>1 DEF Base, Types, LocalTypes, Scans, ScanInv, ListOrdered, Scanning
<1>3. pid_house = <<>>
  BY <1>1, <1>2 DEF ScanInv, ListOrdered
<1>4. DOMAIN pid_house' = {}
  BY <1>1, <1>3
<1> QED BY <1>1, <1>2, <1>4 DEF ScanOrder, ListOrdered, EntryHasRoom

LEMMA OrderEndOfScan ==
  ASSUME Base, ScanInv, EndOfScan PROVE ScanOrder'
<1>1. pc' = "parse" /\ scan' = [scan EXCEPT !.done = TRUE]
  BY DEF EndOfScan, Goto
<1>2. scan'.done
  BY <1>1 DEF Base, Types, LocalTypes, Scans
<1> QED BY <1>1, <1>2 DEF ScanOrder, ListOrdered, EntryHasRoom, Scanning

LEMMA OrderReadCmdline ==
  ASSUME Base, ScanInv, ReadCmdline PROVE ScanOrder'
<1>1. /\ pc = "pid" /\ scan.todo # {} /\ UNCHANGED <<world, loc, scan, conn_house>>
      /\ pc' = IF Exists(Looking) THEN "fds" ELSE "crashed"
      /\ pid_house' = IF life[Looking] = "run"
                      THEN Append(pid_house, [pid |-> Looking, inodes |-> <<>>])
                      ELSE pid_house
  BY DEF ReadCmdline, Goto
<1>2. Types
  BY DEF Base
<1>3. Looking \in scan.todo /\ Looking \in Pids
  BY <1>1, <1>2, LookingIs
<1>4. Looking' = Looking
  BY <1>1 DEF Looking
<1>5. \A k \in DOMAIN pid_house : pid_house[k].pid < Looking
  BY <1>1, <1>3 DEF ScanInv, ListOrdered
<1>6. ~scan'.done
  BY <1>1 DEF ScanInv, ListOrdered, Scanning
<1>7. CASE life[Looking] = "run"
  <2>1. /\ pid_house' # <<>>
        /\ DOMAIN pid_house' = DOMAIN pid_house \cup {Len(pid_house')}
        /\ \A k \in DOMAIN pid_house : pid_house'[k] = pid_house[k]
        /\ pid_house'[Len(pid_house')] = [pid |-> Looking, inodes |-> <<>>]
    BY <1>1, <1>2, <1>3, <1>7, HouseAdded
  <2>2. pc' = "fds"
    BY <1>1, <1>7 DEF Exists
  <2>3. \A k \in DOMAIN pid_house' : pid_house'[k].pid <= Looking
    <3>1. \A k \in DOMAIN pid_house : pid_house[k].pid \in Nat
      BY <1>2, HousesAre, NatPids
    <3>2. Looking \in Nat
      BY <1>3, NatPids
    <3>3. \A k \in DOMAIN pid_house : pid_house'[k].pid <= Looking
      BY <1>5, <2>1, <3>1, <3>2
    <3>4. pid_house'[Len(pid_house')].pid <= Looking
      BY <2>1, <3>2
    <3> QED BY <2>1, <3>3, <3>4
  <2>4. pid_house'[Len(pid_house')].pid = Looking /\ pid_house'[Len(pid_house')].inodes = <<>>
    BY <2>1
  <2>5. ListOrdered'
    BY <1>4, <1>6, <2>2, <2>3 DEF ListOrdered
  <2>6. EntryHasRoom'
    BY <1>4, <2>1, <2>2, <2>4 DEF EntryHasRoom
  <2> QED BY <2>5, <2>6 DEF ScanOrder
<1>8. CASE life[Looking] # "run"
  <2>1. pid_house' = pid_house
    BY <1>1, <1>8
  <2>2. CASE Exists(Looking)
    <3>1. pc' = "fds" /\ life' = life
      BY <1>1, <2>2 DEF world
    <3>2. Ended(Looking)
      BY <1>8, <2>2 DEF Ended, Exists
    <3>3. Ended(Looking)'
      BY <1>4, <3>1, <3>2 DEF Ended
    <3>4. \A k \in DOMAIN pid_house : pid_house[k].pid <= Looking
      <4>1. \A k \in DOMAIN pid_house : pid_house[k].pid \in Nat
        BY <1>2, HousesAre, NatPids
      <4>2. Looking \in Nat
        BY <1>3, NatPids
      <4> QED BY <1>5, <4>1, <4>2
    <3> QED BY <1>4, <1>5, <1>6, <2>1, <3>1, <3>3, <3>4
            DEF ScanOrder, ListOrdered, EntryHasRoom
  <2>3. CASE ~Exists(Looking)
    <3>1. pc' = "crashed"
      BY <1>1, <2>3
    <3> QED BY <3>1 DEF ScanOrder, ListOrdered, EntryHasRoom, Scanning
  <2> QED BY <2>2, <2>3
<1> QED BY <1>7, <1>8

\* The process looked at is left behind.
LEMMA OrderLookedAt ==
  ASSUME Base, ScanInv, pc \in {"fds", "link"}, pc' = "pid", pid_house' = pid_house,
         scan' = [scan EXCEPT !.todo = @ \ {Looking}]
  PROVE  ScanOrder'
<1>1. Types /\ scan.todo # {}
  BY DEF Base, Underway
<1>2. \A p \in scan.todo : p \in Nat /\ Looking <= p
  BY <1>1, LookingIs, NatPids DEF Types, LocalTypes, Scans
<1>3. Looking \in Nat
  BY <1>1, LookingIs, NatPids
<1>4. scan'.todo = scan.todo \ {Looking} /\ scan'.done = scan.done
  BY <1>1 DEF Types, LocalTypes, Scans
<1>5. \A k \in DOMAIN pid_house : pid_house[k].pid \in Nat /\ pid_house[k].pid <= Looking
  BY <1>1, HousesAre, NatPids DEF ScanInv, ListOrdered
<1>6. \A k \in DOMAIN pid_house' : \A p \in scan'.todo : pid_house'[k].pid < p
  <2>1. \A p \in scan'.todo : p \in Nat /\ Looking < p
    BY <1>2, <1>3, <1>4
  <2> QED BY <1>3, <1>5, <2>1
<1>7. ~scan'.done
  BY <1>4 DEF ScanInv, ListOrdered, Scanning
<1> QED BY <1>6, <1>7 DEF ScanOrder, ListOrdered, EntryHasRoom

LEMMA OrderListFds ==
  ASSUME Base, ScanInv, ListFds \/ EndOfFds PROVE ScanOrder'
<1>1. pid_house' = pid_house /\ life' = life
  BY DEF ListFds, EndOfFds, world
<1>2. CASE scan' = [scan EXCEPT !.todo = @ \ {Looking}] /\ pc' = "pid"
  <2>1. pc \in {"fds", "link"}
    BY DEF ListFds, EndOfFds
  <2> QED BY <1>1, <1>2, <2>1, OrderLookedAt
<1>3. CASE /\ pc = "fds" /\ pc' = "link"
           /\ scan' = [scan EXCEPT !.fds = {f \in 1 .. MaxFd : fds[Looking][f] # 0}]
  <2> DEFINE found == {f \in 1 .. MaxFd : fds[Looking][f] # 0}
  <2>1. scan'.todo = scan.todo /\ scan'.done = scan.done /\ scan'.fds = found
    BY <1>3 DEF Base, Types, LocalTypes, Scans
  <2>2. Looking' = Looking
    BY <2>1 DEF Looking
  <2>3. Cardinality(found) \in Nat /\ Cardinality(found) <= MaxFd
    <3>1. MaxFd \in Nat \ {0}
      BY SizeAssumption
    <3>2. IsFiniteSet(1 .. MaxFd) /\ Cardinality(1 .. MaxFd) = MaxFd
      BY <3>1, FS_Interval
    <3>3. found \in SUBSET (1 .. MaxFd)
      OBVIOUS
    <3> HIDE DEF found
    <3>4. IsFiniteSet(found) /\ Cardinality(found) <= Cardinality(1 .. MaxFd)
      BY <3>2, <3>3, FS_Subset
    <3> QED BY <3>2, <3>4, FS_CardinalityType
  <2> HIDE DEF found
  <2>4. ListOrdered'
    BY <1>1, <1>3, <2>1, <2>2 DEF ScanInv, ListOrdered, Scanning
  <2>5. CASE Ended(Looking) /\ \A k \in DOMAIN pid_house : pid_house[k].pid < Looking
    <3>1. Ended(Looking)'
      BY <1>1, <2>2, <2>5 DEF Ended
    <3> QED BY <1>1, <2>2, <2>4, <2>5, <3>1 DEF ScanOrder, EntryHasRoom
  <2>6. CASE /\ pid_house # <<>>
             /\ pid_house[Len(pid_house)].pid = Looking
             /\ pid_house[Len(pid_house)].inodes = <<>>
    <3>1. Len(pid_house[Len(pid_house)].inodes) + Cardinality(found) <= MaxFd
      BY <2>3, <2>6
    <3> QED BY <1>1, <1>3, <2>1, <2>2, <2>4, <2>6, <3>1 DEF ScanOrder, EntryHasRoom
  <2> QED BY <1>3, <2>5, <2>6 DEF ScanInv, EntryHasRoom
<1> QED BY <1>2, <1>3 DEF ListFds, EndOfFds, Goto

LEMMA OrderReadLink ==
  ASSUME Base, ScanInv, ReadLink PROVE ScanOrder'
<1>1. Types /\ scan.todo # {} /\ pc = "link"
  BY DEF Base, Underway, ReadLink
<1>2. PICK f \in scan.fds :
        /\ f \in 1 .. MaxFd /\ scan' = [scan EXCEPT !.fds = @ \ {f}]
        /\ \/ pc' = pc /\ pid_house' = pid_house
           \/ pc' = "lost" /\ pid_house' = pid_house
           \/ /\ pc' = pc /\ pid_house # <<>> /\ fds[Looking][f] \in Inodes
              /\ pid_house' = [pid_house EXCEPT ![Len(pid_house)].inodes
                                                  = Append(@, fds[Looking][f])]
  BY <1>1, ReadLinkIs
<1>3. life' = life
  BY DEF ReadLink, world
<1>4. scan'.todo = scan.todo /\ scan'.done = scan.done /\ scan'.fds = scan.fds \ {f}
  BY <1>1, <1>2 DEF Types, LocalTypes, Scans
<1>5. Looking' = Looking
  BY <1>4 DEF Looking
<1>6. Ended(Looking) => Ended(Looking)'
  BY <1>3, <1>5 DEF Ended
<1>7. /\ Cardinality(scan.fds) \in Nat
      /\ Cardinality(scan'.fds) = Cardinality(scan.fds) - 1
  <2> DEFINE S == scan.fds
  <2>1. S \in SUBSET (1 .. MaxFd)
    BY <1>1 DEF Types, LocalTypes, Scans
  <2>2. MaxFd \in Nat
    BY SizeAssumption
  <2>3. IsFiniteSet(1 .. MaxFd)
    BY <2>2, FS_Interval
  <2>4. f \in S
    OBVIOUS
  <2> HIDE DEF S
  <2>5. IsFiniteSet(S)
    BY <2>1, <2>3, FS_Subset
  <2>6. Cardinality(S) \in Nat /\ Cardinality(S \ {f}) = Cardinality(S) - 1
    BY <2>4, <2>5, FS_CardinalityType, FS_RemoveElement
  <2> QED BY <1>4, <2>6 DEF S
<1>8. MaxFd \in Nat
  BY SizeAssumption
<1>9. \A k \in DOMAIN pid_house : Len(pid_house[k].inodes) \in Nat
  BY <1>1, HousesAre
<1>10. ~scan.done /\ \A k \in DOMAIN pid_house : pid_house[k].pid <= Looking
  BY <1>1 DEF ScanInv, ListOrdered, Scanning
<1>11. pid_house # <<>> => Len(pid_house) \in DOMAIN pid_house
  <2>1. pid_house \in Seq(Houses)
    BY <1>1 DEF Types, ListTypes
  <2> QED BY <2>1, EmptySeq, LenProperties
<1>12. CASE pc' = "lost"
  BY <1>12 DEF ScanOrder, ListOrdered, EntryHasRoom, Scanning
<1>13. CASE pc' = pc /\ pid_house' = pid_house
  <2>1. ListOrdered'
    BY <1>1, <1>4, <1>5, <1>10, <1>13 DEF ListOrdered
  <2>2. CASE Ended(Looking) /\ \A k \in DOMAIN pid_house : pid_house[k].pid < Looking
    BY <1>5, <1>6, <1>13, <2>1, <2>2 DEF ScanOrder, EntryHasRoom
  <2>3. CASE /\ pid_house # <<>>
             /\ pid_house[Len(pid_house)].pid = Looking
             /\ Len(pid_house[Len(pid_house)].inodes) + Cardinality(scan.fds) <= MaxFd
    <3>1. Len(pid_house[Len(pid_house)].inodes) \in Nat
      BY <1>9, <1>11, <2>3
    <3>2. Len(pid_house[Len(pid_house)].inodes) + Cardinality(scan'.fds) <= MaxFd
      BY <1>7, <1>8, <2>3, <3>1
    <3> QED BY <1>1, <1>5, <1>13, <2>1, <2>3, <3>2 DEF ScanOrder, EntryHasRoom
  <2> QED BY <1>1, <2>2, <2>3 DEF ScanInv, EntryHasRoom
<1>14. CASE /\ pc' = pc /\ pid_house # <<>> /\ fds[Looking][f] \in Inodes
            /\ pid_house' = [pid_house EXCEPT ![Len(pid_house)].inodes
                                                = Append(@, fds[Looking][f])]
  <2>1. PICK inode : inode = fds[Looking][f]
    OBVIOUS
  <2>2. /\ pid_house' # <<>>
        /\ Len(pid_house') = Len(pid_house) /\ DOMAIN pid_house' = DOMAIN pid_house
        /\ \A k \in DOMAIN pid_house : pid_house'[k].pid = pid_house[k].pid
        /\ Len(pid_house'[Len(pid_house)].inodes) = Len(pid_house[Len(pid_house)].inodes) + 1
    BY <1>1, <1>14, <2>1, HouseGrown
  <2>3. ListOrdered'
    BY <1>1, <1>4, <1>5, <1>10, <1>14, <2>2 DEF ListOrdered
  <2>4. CASE Ended(Looking) /\ \A k \in DOMAIN pid_house : pid_house[k].pid < Looking
    BY <1>5, <1>6, <1>14, <2>2, <2>3, <2>4 DEF ScanOrder, EntryHasRoom
  <2>5. CASE /\ pid_house # <<>>
             /\ pid_house[Len(pid_house)].pid = Looking
             /\ Len(pid_house[Len(pid_house)].inodes) + Cardinality(scan.fds) <= MaxFd
    <3>1. Len(pid_house[Len(pid_house)].inodes) \in Nat
      BY <1>9, <1>11, <2>5
    <3>2. Len(pid_house'[Len(pid_house')].inodes) + Cardinality(scan'.fds) <= MaxFd
      BY <1>7, <1>8, <2>2, <2>5, <3>1
    <3>3. pid_house'[Len(pid_house')].pid = Looking
      BY <1>11, <2>2, <2>5
    <3> QED BY <1>1, <1>5, <1>14, <2>2, <2>3, <3>2, <3>3 DEF ScanOrder, EntryHasRoom
  <2> QED BY <1>1, <2>4, <2>5 DEF ScanInv, EntryHasRoom
<1> QED BY <1>2, <1>12, <1>13, <1>14

LEMMA OrderNext ==
  ASSUME Base, ScanInv, [Next]_vars PROVE ScanOrder'
<1>1. Onward
  BY StepGoesOn
<1>2. CASE World \/ UNCHANGED vars
  BY <1>1, <1>2, OrderBeside DEF World, vars
<1>3. CASE \/ OpenFile \/ print_info \/ EndOfProgram \/ ReadHead \/ ReadFirst \/ ReadNext
           \/ CloseFile \/ info_parser
  <2>1. scan' = scan /\ pid_house' = pid_house
    BY <1>3 DEF OpenFile, print_info, EndOfProgram, ReadHead, ReadFirst, ReadNext, CloseFile,
                info_parser
  <2>2. /\ pc \notin {"pid", "fds", "link", "crashed", "lost"}
        /\ pc' \notin {"pid", "fds", "link"}
        /\ pc' = "scan" => ~scan.done
    BY <1>3 DEF OpenFile, print_info, Printing, EndOfProgram, ReadHead, ReadFirst, ReadNext,
                CloseFile, info_parser, Goto
  <2> QED BY <1>1, <2>1, <2>2, OrderBeside
<1> QED BY <1>2, <1>3, OrderPidFactory, OrderEndOfScan, OrderReadCmdline, OrderListFds,
           OrderReadLink DEF Next, Program

LEMMA ScanInvInit == Init => ScanInv
<1> SUFFICES ASSUME Init PROVE ScanInv
  OBVIOUS
<1>1. pc = "pass" /\ scan = NoScan /\ pid_house = <<>> /\ conn_house = <<>>
  BY DEF Init
<1>2. DOMAIN pid_house = {} /\ DOMAIN conn_house = {} /\ scan.todo = {}
  BY <1>1 DEF NoScan
<1> QED BY <1>1, <1>2 DEF ScanInv, EntriesCreditable, RowsCreditable, TodoStarted,
                          ListOrdered, EntryHasRoom, Scanning

LEMMA ScanInvHolds == Spec => []ScanInv
<1>1. Init => ScanInv
  BY ScanInvInit
<1>2. Base /\ ScanInv /\ [Next]_vars => ScanInv'
  BY EntriesNext, RowsNext, TodoNext, OrderNext DEF ScanInv, ScanOrder
<1> QED BY <1>1, <1>2, BaseHolds, PTL DEF Spec

\* A process named beside a socket held it, or comes before one that held it
\* and was ending: so the scan reads however processes and sockets come and go.
THEOREM OwnersHeldTheirSockets == Spec => []CreditsHolder
<1>1. ScanInv => CreditsHolder
  BY DEF ScanInv, RowsCreditable, Creditable, CreditsHolder
<1> QED BY <1>1, ScanInvHolds, PTL

-----------------------------------------------------------------------------
(* What kills the program.                                                  *)

LEMMA CrashNeedsEnding ==
  ASSUME Base, ScanInv, ReadCmdline, pc' = "crashed"
  PROVE  \E p \in Pids : Ended(p)'
<1>1. scan.todo # {} /\ life' = life /\ ~Exists(Looking)
  BY DEF ReadCmdline, Goto, world
<1>2. Looking \in scan.todo /\ Looking \in Pids
  BY <1>1, LookingIs DEF Base
<1>3. life[Looking] # "none" /\ life[Looking] \in Lives
  BY <1>2 DEF ScanInv, TodoStarted, Base, Types, WorldInv, WorldTypes
<1>4. PICK p \in Pids : p = Looking
  BY <1>2
<1>5. Ended(p)'
  BY <1>1, <1>3, <1>4 DEF Lives, Exists, Ended
<1> QED BY <1>5

LEMMA OverflowNeedsEnding ==
  ASSUME MaxFd <= MAX_INODE_IN_PID, Base, ScanInv, ReadLink, pc' = "lost"
  PROVE  \E p \in Pids : Ended(p)'
<1>1. Types /\ scan.todo # {} /\ pc = "link" /\ life' = life /\ scan.fds # {}
  BY DEF Base, Underway, ReadLink, world
<1>2. pid_house = <<>> \/ Full(pid_house[Len(pid_house)].inodes)
  BY <1>1, ReadLinkIs
<1>3. Looking \in Pids
  BY <1>1, LookingIs
<1>4. CASE Ended(Looking)
  <2>1. PICK p \in Pids : p = Looking
    BY <1>3
  <2>2. Ended(p)'
    BY <1>1, <1>4, <2>1 DEF Ended
  <2> QED BY <2>2
<1>5. CASE /\ pid_house # <<>>
           /\ Len(pid_house[Len(pid_house)].inodes) + Cardinality(scan.fds) <= MaxFd
  <2>1. Cardinality(scan.fds) \in Nat /\ Cardinality(scan.fds) # 0
    <3> DEFINE S == scan.fds
    <3>1. S \in SUBSET (1 .. MaxFd) /\ S # {}
      BY <1>1 DEF Types, LocalTypes, Scans
    <3>2. MaxFd \in Nat
      BY SizeAssumption
    <3>3. IsFiniteSet(1 .. MaxFd)
      BY <3>2, FS_Interval
    <3> HIDE DEF S
    <3>4. IsFiniteSet(S)
      BY <3>1, <3>3, FS_Subset
    <3>5. Cardinality(S) \in Nat /\ Cardinality(S) # 0
      BY <3>1, <3>4, FS_CardinalityType, FS_EmptySet
    <3> QED BY <3>5 DEF S
  <2>2. Len(pid_house) \in DOMAIN pid_house
    <3>1. pid_house \in Seq(Houses)
      BY <1>1 DEF Types, ListTypes
    <3> QED BY <1>5, <3>1, EmptySeq, LenProperties
  <2>3. Len(pid_house[Len(pid_house)].inodes) \in Nat
    BY <1>1, <2>2, HousesAre
  <2>4. Len(pid_house[Len(pid_house)].inodes) >= MAX_INODE_IN_PID
    BY <1>2, <1>5 DEF Full
  <2>5. MaxFd \in Nat /\ MAX_INODE_IN_PID \in Nat
    BY SizeAssumption
  <2> QED BY <1>5, <2>1, <2>3, <2>4, <2>5
<1> QED BY <1>1, <1>4, <1>5 DEF ScanInv, EntryHasRoom

LEMMA DeathNext ==
  ASSUME MaxFd <= MAX_INODE_IN_PID, Base, ScanInv, DeathNeedsEnding, [Next]_vars
  PROVE  DeathNeedsEnding'
<1>1. Onward
  BY StepGoesOn
<1>2. CASE World \/ UNCHANGED vars
  <2>1. pc' = pc /\ loc' = loc
    BY <1>2 DEF World, vars
  <2>2. (\E p \in Pids : Ended(p)) => \E p \in Pids : Ended(p)'
    BY <1>1 DEF Onward
  <2> QED BY <2>1, <2>2 DEF DeathNeedsEnding, File
<1>3. CASE pc' \notin {"crashed", "lost"}
  BY <1>3 DEF DeathNeedsEnding
<1>4. CASE OpenFile /\ pc' = "crashed"
  <2>1. File \in Missing /\ loc.file <= Len(loc.passes[loc.pass])
    BY <1>4 DEF OpenFile, Goto
  <2>2. SamePlace
    BY <1>4, OtherLocals DEF Base
  <2> QED BY <2>1, <2>2, SameFile DEF DeathNeedsEnding, SamePlace
<1>5. CASE ReadCmdline /\ pc' = "crashed"
  BY <1>5, CrashNeedsEnding DEF DeathNeedsEnding
<1>6. CASE ReadLink /\ pc' = "lost"
  BY <1>6, OverflowNeedsEnding DEF DeathNeedsEnding
<1>7. CASE Program /\ pc' \in {"crashed", "lost"}
  <2>1. OpenFile => pc' # "lost"
    BY DEF OpenFile, Goto
  <2>2. ReadCmdline => pc' # "lost"
    BY DEF ReadCmdline, Goto
  <2>3. ReadLink => pc' # "crashed"
    <3>1. ReadLink => pc' \in {"link", "lost"}
      BY ReadLinkIs DEF Base, Underway, ReadLink
    <3> QED BY <3>1
  <2>4. OpenFile \/ ReadCmdline \/ ReadLink
    BY <1>7 DEF Program, print_info, Printing, EndOfProgram, ReadHead, ReadFirst, ReadNext,
                CloseFile, info_parser, pid_factory, EndOfScan, ListFds, EndOfFds, Goto
  <2> QED BY <1>4, <1>5, <1>6, <1>7, <2>1, <2>2, <2>3, <2>4
<1> QED BY <1>2, <1>3, <1>7 DEF Next

\* While no process has more sockets than PROC_HOUSE has room for, the
\* program dies only of a missing table, or of a process that ends meanwhile.
THEOREM DeathIsExplained ==
  ASSUME MaxFd <= MAX_INODE_IN_PID
  PROVE  Spec => []DeathNeedsEnding
<1>1. Init => DeathNeedsEnding
  <2> SUFFICES ASSUME Init PROVE DeathNeedsEnding
    OBVIOUS
  <2>1. pc = "pass"
    BY DEF Init
  <2> QED BY <2>1 DEF DeathNeedsEnding
<1>2. Base /\ ScanInv /\ DeathNeedsEnding /\ [Next]_vars => DeathNeedsEnding'
  BY DeathNext
<1> QED BY <1>1, <1>2, BaseHolds, ScanInvHolds, PTL DEF Spec

-----------------------------------------------------------------------------
(* Rows and readings are counted.                                           *)

\* The tables of a file opened so far.
Slots(f) ==
  {slot \in (1 .. Len(loc.passes)) \X (1 .. 4) :
     slot[2] <= Opened(slot[1]) /\ loc.passes[slot[1]][slot[2]] = f}

\* The table being read has not given the row of sock yet.
Pending(sock) ==
  \/ pc \in {"head", "first"} \cup Scanning
  \/ pc = "parse" /\ loc.line.sock <= sock
  \/ pc = "next" /\ loc.line.sock < sock

Counted ==
  \A f \in Files : \A sock \in {0} \cup Inodes :
    /\ RowsOf(f, sock) <= TimesOpened(f)
    /\ f = File /\ Pending(sock) => RowsOf(f, sock) < TimesOpened(f)

LEMMA SlotsFinite ==
  ASSUME Types, NEW f
  PROVE  IsFiniteSet(Slots(f)) /\ TimesOpened(f) = Cardinality(Slots(f))
         /\ TimesOpened(f) \in Nat
<1> DEFINE n == Len(loc.passes)
           places == (1 .. n) \X (1 .. 4)
           slots == Slots(f)
<1>1. n \in Nat
  BY PassLengths DEF Types, LocalTypes
<1>2. IsFiniteSet(1 .. n) /\ IsFiniteSet(1 .. 4)
  <2> HIDE DEF n
  <2>1. \A b \in Nat : IsFiniteSet(1 .. b)
    BY FS_Interval
  <2> QED BY <1>1, <2>1
<1>3. IsFiniteSet(places)
  <2> HIDE DEF n
  <2> QED BY <1>2, FS_Product
<1>4. slots \in SUBSET places
  BY DEF Slots
<1> HIDE DEF slots, places
<1>5. IsFiniteSet(slots)
  BY <1>3, <1>4, FS_Subset
<1>6. TimesOpened(f) = Cardinality(slots)
  BY DEF TimesOpened, slots, Slots
<1>7. Cardinality(slots) \in Nat
  BY <1>5, FS_CardinalityType
<1> QED BY <1>5, <1>6, <1>7 DEF slots

RowSet(f, sock) ==
  {k \in DOMAIN conn_house : conn_house[k].file = f /\ conn_house[k].sock = sock}

LEMMA RowsFinite ==
  ASSUME Types, NEW f, NEW sock
  PROVE  /\ IsFiniteSet(RowSet(f, sock)) /\ RowsOf(f, sock) = Cardinality(RowSet(f, sock))
         /\ RowsOf(f, sock) \in Nat
<1> DEFINE n == Len(conn_house)
           rows == RowSet(f, sock)
<1>1. n \in Nat /\ DOMAIN conn_house = 1 .. n
  BY ConnsAre
<1>2. rows \in SUBSET (1 .. n)
  BY <1>1 DEF RowSet
<1> HIDE DEF n, rows
<1>3. IsFiniteSet(1 .. n)
  BY <1>1, FS_Interval
<1>4. IsFiniteSet(rows)
  BY <1>2, <1>3, FS_Subset
<1>5. Cardinality(rows) \in Nat
  BY <1>4, FS_CardinalityType
<1>6. RowsOf(f, sock) = Cardinality(rows)
  BY DEF RowsOf, rows, RowSet
<1> QED BY <1>4, <1>5, <1>6 DEF rows

\* info_parser adds to the rows of its own file and socket, and to no other.
LEMMA OneRowMore ==
  ASSUME Types, info_parser, NEW f, NEW sock
  PROVE  RowsOf(f, sock)' = IF f = File /\ sock = loc.line.sock
                            THEN RowsOf(f, sock) + 1 ELSE RowsOf(f, sock)
<1> DEFINE last == Len(conn_house) + 1
           rows == RowSet(f, sock)
           more == RowSet(f, sock)'
<1>1. /\ DOMAIN conn_house' = DOMAIN conn_house \cup {last}
      /\ last \notin DOMAIN conn_house
      /\ \A k \in DOMAIN conn_house : conn_house'[k] = conn_house[k]
      /\ conn_house'[last] = NewRow
  BY RowAdded
<1>2. NewRow.file = File /\ NewRow.sock = loc.line.sock
  BY DEF NewRow
<1>3. IsFiniteSet(rows) /\ RowsOf(f, sock) = Cardinality(rows)
  BY RowsFinite
<1>4. RowsOf(f, sock)' = Cardinality(more)
  BY DEF RowsOf, RowSet
<1> HIDE DEF last
<1>5. CASE f = File /\ sock = loc.line.sock
  <2>1. more = rows \cup {last} /\ last \notin rows
    BY <1>1, <1>2, <1>5 DEF RowSet
  <2> HIDE DEF more, rows
  <2>2. Cardinality(more) = Cardinality(rows) + 1
    BY <1>3, <2>1, FS_AddElement
  <2> QED BY <1>3, <1>4, <1>5, <2>2
<1>6. CASE ~(f = File /\ sock = loc.line.sock)
  <2>1. more = rows
    BY <1>1, <1>2, <1>6 DEF RowSet
  <2> QED BY <1>3, <1>4, <1>6, <2>1
<1> QED BY <1>5, <1>6

LEMMA OpenedIs ==
  ASSUME Types, NEW k \in Nat
  PROVE  /\ k < loc.pass => Opened(k) = Len(loc.passes[k])
         /\ loc.pass < k => Opened(k) = 0
         /\ k = loc.pass =>
              Opened(k) = IF pc \in {"pass", "crashed"} THEN loc.file - 1 ELSE loc.file
<1>1. loc.pass \in Nat
  BY DEF Types, LocalTypes, Locals
<1>2. CASE k < loc.pass
  BY <1>1, <1>2 DEF Opened
<1>3. CASE loc.pass < k
  BY <1>1, <1>3 DEF Opened
<1>4. CASE k = loc.pass
  BY <1>1, <1>4 DEF Opened
<1> QED BY <1>1, <1>2, <1>3, <1>4

LEMMA SameOpened ==
  ASSUME Types, Types', loc'.passes = loc.passes,
         \A k \in 1 .. Len(loc.passes) : Opened(k)' = Opened(k)
  PROVE  \A f : TimesOpened(f)' = TimesOpened(f)
<1>1. ASSUME NEW f
      PROVE  Slots(f)' = Slots(f)
  <2>1. \A slot \in (1 .. Len(loc.passes)) \X (1 .. 4) : Opened(slot[1])' = Opened(slot[1])
    OBVIOUS
  <2> QED BY <2>1 DEF Slots
<1>2. ASSUME NEW f
      PROVE  TimesOpened(f)' = Cardinality(Slots(f)')
  BY DEF TimesOpened, Slots
<1>3. ASSUME NEW f
      PROVE  TimesOpened(f) = Cardinality(Slots(f))
  BY DEF TimesOpened, Slots
<1> QED BY <1>1, <1>2, <1>3

\* The slot of the table being read.
LEMMA PlaceIs ==
  ASSUME Types, loc.pass <= Len(loc.passes), loc.file <= Len(loc.passes[loc.pass])
  PROVE  /\ loc.pass \in 1 .. Len(loc.passes) /\ loc.file \in 1 .. 4
         /\ loc.pass \in Nat \ {0} /\ loc.file \in Nat \ {0}
<1>1. loc \in Locals /\ loc.pass \in Nat \ {0} /\ loc.file \in Nat \ {0}
  BY DEF Types, LocalTypes, Locals
<1>2. Len(loc.passes) \in Nat /\ DOMAIN loc.passes = 1 .. Len(loc.passes)
  BY <1>1, PassLengths
<1>3. loc.pass \in DOMAIN loc.passes
  BY <1>1, <1>2
<1>4. Len(loc.passes[loc.pass]) <= 4 /\ Len(loc.passes[loc.pass]) \in Nat
  BY <1>1, <1>3, PassLengths DEF Types, FewFiles
<1> QED BY <1>1, <1>2, <1>3, <1>4

\* The slot of the table being read comes, or goes with the program.
LEMMA OneSlot ==
  ASSUME Types, Types', SamePlace,
         loc.pass <= Len(loc.passes), loc.file <= Len(loc.passes[loc.pass]),
         NEW f
  PROVE  /\ pc \in {"pass", "crashed"} /\ pc' \notin {"pass", "crashed"} =>
              TimesOpened(f)' = IF f = File THEN TimesOpened(f) + 1 ELSE TimesOpened(f)
         /\ pc \notin {"pass", "crashed"} /\ pc' \in {"pass", "crashed"} =>
              TimesOpened(f) = IF f = File THEN TimesOpened(f)' + 1 ELSE TimesOpened(f)'
         /\ (pc \in {"pass", "crashed"} <=> pc' \in {"pass", "crashed"}) =>
              TimesOpened(f)' = TimesOpened(f)
         /\ TimesOpened(f)' \in Nat
<1> DEFINE n == Len(loc.passes)
           places == (1 .. n) \X (1 .. 4)
           old == Slots(f)
           new == Slots(f)'
           before == [k \in 1 .. n |-> Opened(k)]
           after == [k \in 1 .. n |-> Opened(k)']
<1>0. PICK p, q : p = loc.pass /\ q = loc.file
  OBVIOUS
<1> DEFINE here == <<p, q>>
<1>1. p \in 1 .. n /\ q \in 1 .. 4 /\ p \in Nat \ {0} /\ q \in Nat \ {0} /\ n \in Nat
  BY <1>0, PlaceIs, PassLengths DEF Types, LocalTypes
<1>2. loc'.passes = loc.passes /\ loc'.pass = p /\ loc'.file = q
  BY <1>0 DEF SamePlace
<1>3. \A k \in 1 .. n : k # p => after[k] = before[k]
  <2>1. ASSUME NEW k \in 1 .. n, k # p
        PROVE  Opened(k)' = Opened(k)
    <3>1. k \in Nat
      OBVIOUS
    <3>2. k < p \/ p < k
      BY <1>1, <2>1, <3>1
    <3>3. CASE k < p
      BY <1>0, <1>1, <1>2, <3>1, <3>3 DEF Opened
    <3>4. CASE p < k
      BY <1>0, <1>1, <1>2, <3>1, <3>4 DEF Opened
    <3> QED BY <3>2, <3>3, <3>4
  <2> QED BY <2>1
<1>4. /\ before[p] = IF pc \in {"pass", "crashed"} THEN q - 1 ELSE q
      /\ after[p] = IF pc' \in {"pass", "crashed"} THEN q - 1 ELSE q
  BY <1>0, <1>1, <1>2 DEF Opened
<1>5. File = loc.passes[p][q]
  BY <1>0 DEF File
<1>6. /\ old = {slot \in places : slot[2] <= before[slot[1]] /\ loc.passes[slot[1]][slot[2]] = f}
      /\ new = {slot \in places : slot[2] <= after[slot[1]] /\ loc.passes[slot[1]][slot[2]] = f}
  BY <1>2 DEF Slots, Opened
<1>7. here \in places /\ here[1] = p /\ here[2] = q
  BY <1>1
<1>8. \A slot \in places : slot[1] = p /\ slot[2] = q => slot = here
  OBVIOUS
<1>9. \A slot \in places : slot[1] \in 1 .. n /\ slot[2] \in 1 .. 4
  OBVIOUS
<1> HIDE DEF n, places, here, old, new, before, after
<1>10. ASSUME NEW slot \in places, slot # here
       PROVE  slot[2] <= after[slot[1]] <=> slot[2] <= before[slot[1]]
  <2>1. CASE slot[1] # p
    BY <1>3, <1>9, <2>1
  <2>2. CASE slot[1] = p
    <3>1. slot[2] # q /\ slot[2] \in Nat
      BY <1>8, <1>9, <1>10, <2>2
    <3>2. slot[2] <= q - 1 <=> slot[2] <= q
      BY <1>1, <3>1
    <3> QED BY <1>4, <2>2, <3>2
  <2> QED BY <2>1, <2>2
<1>11. /\ pc \in {"pass", "crashed"} => ~(here[2] <= before[here[1]])
       /\ pc \notin {"pass", "crashed"} => here[2] <= before[here[1]]
       /\ pc' \in {"pass", "crashed"} => ~(here[2] <= after[here[1]])
       /\ pc' \notin {"pass", "crashed"} => here[2] <= after[here[1]]
  <2>1. ~(q <= q - 1) /\ q <= q
    BY <1>1
  <2> QED BY <1>4, <1>7, <2>1
<1>12. /\ IsFiniteSet(old) /\ TimesOpened(f) = Cardinality(old)
       /\ Cardinality(old) \in Nat
  BY SlotsFinite DEF old
<1>13. IsFiniteSet(places)
  <2>1. IsFiniteSet(1 .. n)
    BY <1>1, FS_Interval
  <2>2. \A b \in Nat : IsFiniteSet(1 .. b)
    BY FS_Interval
  <2>3. IsFiniteSet(1 .. 4)
    BY <2>2
  <2> QED BY <2>1, <2>3, FS_Product DEF places
<1>14. IsFiniteSet(new)
  <2>1. new \in SUBSET places
    BY <1>6
  <2> QED BY <1>13, <2>1, FS_Subset
<1>15. TimesOpened(f)' = Cardinality(new)
  BY DEF TimesOpened, new, Slots
<1>16. Cardinality(new) \in Nat
  BY <1>14, FS_CardinalityType
<1>17. loc.passes[here[1]][here[2]] = f <=> f = File
  BY <1>5, <1>7
<1>18. ASSUME pc \in {"pass", "crashed"}, pc' \notin {"pass", "crashed"}
       PROVE  Cardinality(new) = IF f = File THEN Cardinality(old) + 1 ELSE Cardinality(old)
  <2>1. CASE f = File
    <3>1. new = old \cup {here} /\ here \notin old
      BY <1>6, <1>7, <1>10, <1>11, <1>17, <1>18, <2>1
    <3> QED BY <1>12, <2>1, <3>1, FS_AddElement
  <2>2. CASE f # File
    <3>1. new = old
      BY <1>6, <1>10, <1>17, <2>2
    <3> QED BY <2>2, <3>1
  <2> QED BY <2>1, <2>2
<1>19. ASSUME pc \notin {"pass", "crashed"}, pc' \in {"pass", "crashed"}
       PROVE  Cardinality(old) = IF f = File THEN Cardinality(new) + 1 ELSE Cardinality(new)
  <2>1. CASE f = File
    <3>1. old = new \cup {here} /\ here \notin new
      BY <1>6, <1>7, <1>10, <1>11, <1>17, <1>19, <2>1
    <3> QED BY <1>14, <2>1, <3>1, FS_AddElement
  <2>2. CASE f # File
    <3>1. new = old
      BY <1>6, <1>10, <1>17, <2>2
    <3> QED BY <2>2, <3>1
  <2> QED BY <2>1, <2>2
<1>20. ASSUME pc \in {"pass", "crashed"} <=> pc' \in {"pass", "crashed"}
       PROVE  new = old
  <2>1. here[2] <= after[here[1]] <=> here[2] <= before[here[1]]
    BY <1>11, <1>20
  <2> QED BY <1>6, <1>10, <2>1
<1> QED BY <1>12, <1>15, <1>16, <1>18, <1>19, <1>20

\* From one table to the next, nothing is opened.
LEMMA TimesBetween ==
  ASSUME Types, Types', print_info \/ CloseFile \/ EndOfProgram
  PROVE  \A f : TimesOpened(f)' = TimesOpened(f)
<1>1. /\ loc'.passes = loc.passes
      /\ loc.pass \in Nat \ {0} /\ loc.file \in Nat \ {0}
      /\ loc \in Locals
  BY OtherLocals DEF EndOfProgram, Types, LocalTypes, Locals
<1>2. CASE print_info
  <2>1. /\ loc'.pass = loc.pass + 1 /\ loc'.file = 1 /\ pc = "pass" /\ pc' = "pass"
        /\ loc.pass <= Len(loc.passes) /\ loc.file > Len(loc.passes[loc.pass])
    BY <1>2, OtherLocals DEF print_info, Printing
  <2>2. loc.file <= Len(loc.passes[loc.pass]) + 1
    BY <2>1 DEF Types, Place
  <2>3. Len(loc.passes[loc.pass]) \in Nat
    BY <1>1, <2>1, PassLengths
  <2>4. loc.file - 1 = Len(loc.passes[loc.pass])
    BY <1>1, <2>1, <2>2, <2>3
  <2>5. ASSUME NEW k \in 1 .. Len(loc.passes)
        PROVE  Opened(k)' = Opened(k)
    <3>1. k \in Nat
      OBVIOUS
    <3>2. CASE k < loc.pass
      BY <1>1, <2>1, <3>1, <3>2 DEF Opened
    <3>3. CASE k = loc.pass
      BY <1>1, <2>1, <2>4, <3>1, <3>3 DEF Opened
    <3>4. CASE loc.pass < k
      <4>1. k < loc'.pass => FALSE
        BY <1>1, <2>1, <3>1, <3>4
      <4>2. Opened(k) = 0
        BY <1>1, <3>1, <3>4 DEF Opened
      <4>3. loc'.pass < k \/ loc'.pass = k
        BY <1>1, <2>1, <3>1, <3>4
      <4>4. Opened(k)' = 0
        BY <1>1, <2>1, <3>1, <4>1, <4>3 DEF Opened
      <4> QED BY <4>2, <4>4
    <3> QED BY <1>1, <3>1, <3>2, <3>3, <3>4
  <2> QED BY <1>1, <2>5, SameOpened
<1>3. CASE CloseFile
  <2>1. /\ loc'.pass = loc.pass /\ loc'.file = loc.file + 1 /\ pc = "close" /\ pc' = "pass"
    BY <1>3, OtherLocals DEF CloseFile, Goto
  <2>2. loc'.file - 1 = loc.file
    BY <1>1, <2>1
  <2>3. ASSUME NEW k \in 1 .. Len(loc.passes)
        PROVE  Opened(k)' = Opened(k)
    BY <1>1, <2>1, <2>2 DEF Opened
  <2> QED BY <1>1, <2>3, SameOpened
<1>4. CASE EndOfProgram
  <2>1. loc' = loc /\ loc.pass > Len(loc.passes) /\ pc' = "done"
    BY <1>4 DEF EndOfProgram, Goto
  <2>2. Len(loc.passes) \in Nat
    BY <1>1, PassLengths
  <2>3. ASSUME NEW k \in 1 .. Len(loc.passes)
        PROVE  Opened(k)' = Opened(k)
    <3>1. k < loc.pass
      BY <1>1, <2>1, <2>2
    <3> QED BY <2>1, <3>1 DEF Opened
  <2> QED BY <1>1, <2>3, SameOpened
<1> QED BY <1>2, <1>3, <1>4

\* Where a table is being read, and where it goes on being read.
LEMMA TimesWithin ==
  ASSUME Types, Types', SamePlace, pc \in Reading, pc' \in Reading \cup {"lost"}
  PROVE  \A f : TimesOpened(f)' = TimesOpened(f)
<1>1. loc.pass <= Len(loc.passes) /\ loc.file <= Len(loc.passes[loc.pass])
  BY DEF Types, Place
<1>2. pc \notin {"pass", "crashed"} /\ pc' \notin {"pass", "crashed"}
  BY DEF Reading, Scanning
<1> QED BY <1>1, <1>2, OneSlot

\* When nothing is opened and no row is added.
LEMMA CountedBeside ==
  ASSUME Types, Counted, conn_house' = conn_house,
         \A f : TimesOpened(f)' = TimesOpened(f),
         \A sock \in {0} \cup Inodes : Pending(sock)' => Pending(sock) /\ File' = File
  PROVE  Counted'
<1>1. ASSUME NEW f \in Files, NEW sock \in {0} \cup Inodes
      PROVE  /\ RowsOf(f, sock)' <= TimesOpened(f)'
             /\ f = File' /\ Pending(sock)' => RowsOf(f, sock)' < TimesOpened(f)'
  <2>1. RowsOf(f, sock)' = RowsOf(f, sock)
    BY DEF RowsOf
  <2>2. TimesOpened(f)' = TimesOpened(f)
    OBVIOUS
  <2> QED BY <2>1, <2>2 DEF Counted
<1> QED BY <1>1 DEF Counted

LEMMA CountedInit == Init => Counted
<1> SUFFICES ASSUME Init PROVE Counted
  OBVIOUS
<1>1. Types /\ pc = "pass" /\ conn_house = <<>>
  BY TypesInit DEF Init
<1>2. ASSUME NEW f, NEW sock
      PROVE  RowsOf(f, sock) <= TimesOpened(f)
  <2>1. RowSet(f, sock) = {}
    BY <1>1 DEF RowSet
  <2>2. RowsOf(f, sock) = 0
    BY <1>1, <2>1, RowsFinite, FS_EmptySet
  <2>3. TimesOpened(f) \in Nat
    BY <1>1, SlotsFinite
  <2> QED BY <2>2, <2>3
<1> QED BY <1>1, <1>2 DEF Counted, Pending, Scanning

LEMMA CountedOpenFile ==
  ASSUME Types, Types', Counted, OpenFile PROVE Counted'
<1>1. /\ pc = "pass" /\ pc' \in {"head", "crashed"} /\ conn_house' = conn_house
      /\ loc.pass <= Len(loc.passes) /\ loc.file <= Len(loc.passes[loc.pass])
  BY DEF OpenFile, Goto
<1>2. SamePlace /\ File' = File
  BY OtherLocals, SameFile
<1>3. ASSUME NEW f \in Files, NEW sock \in {0} \cup Inodes
      PROVE  /\ RowsOf(f, sock)' <= TimesOpened(f)'
             /\ f = File' /\ Pending(sock)' => RowsOf(f, sock)' < TimesOpened(f)'
  <2>1. RowsOf(f, sock)' = RowsOf(f, sock)
    BY <1>1 DEF RowsOf
  <2>2. RowsOf(f, sock) \in Nat /\ TimesOpened(f) \in Nat /\ RowsOf(f, sock) <= TimesOpened(f)
    BY RowsFinite, SlotsFinite DEF Counted
  <2>3. CASE pc' = "head"
    <3>1. TimesOpened(f)' = IF f = File THEN TimesOpened(f) + 1 ELSE TimesOpened(f)
      BY <1>1, <1>2, <2>3, OneSlot
    <3> QED BY <1>2, <2>1, <2>2, <3>1
  <2>4. CASE pc' = "crashed"
    <3>1. TimesOpened(f)' = TimesOpened(f)
      BY <1>1, <1>2, <2>4, OneSlot
    <3>2. ~Pending(sock)'
      BY <2>4 DEF Pending, Scanning
    <3> QED BY <2>1, <2>2, <3>1, <3>2
  <2> QED BY <1>1, <2>3, <2>4
<1> QED BY <1>3 DEF Counted

LEMMA CountedCrash ==
  ASSUME Types, Types', Counted, ReadCmdline, pc' = "crashed" PROVE Counted'
<1>1. pc = "pid" /\ conn_house' = conn_house /\ loc' = loc
  BY DEF ReadCmdline
<1>2. SamePlace /\ loc.pass <= Len(loc.passes) /\ loc.file <= Len(loc.passes[loc.pass])
  BY <1>1 DEF SamePlace, Types, Place, Reading, Scanning
<1>3. ASSUME NEW f \in Files, NEW sock \in {0} \cup Inodes
      PROVE  /\ RowsOf(f, sock)' <= TimesOpened(f)'
             /\ ~Pending(sock)'
  <2>1. RowsOf(f, sock)' = RowsOf(f, sock)
    BY <1>1 DEF RowsOf
  <2>2. /\ RowsOf(f, sock) \in Nat /\ TimesOpened(f) \in Nat /\ TimesOpened(f)' \in Nat
        /\ RowsOf(f, sock) <= TimesOpened(f)
        /\ f = File => RowsOf(f, sock) < TimesOpened(f)
    <3>1. Pending(sock)
      BY <1>1 DEF Pending, Scanning
    <3>2. RowsOf(f, sock) \in Nat /\ TimesOpened(f) \in Nat
      BY RowsFinite, SlotsFinite
    <3>3. TimesOpened(f)' \in Nat
      BY <1>1, <1>2, OneSlot
    <3> QED BY <3>1, <3>2, <3>3 DEF Counted
  <2>3. TimesOpened(f) = IF f = File THEN TimesOpened(f)' + 1 ELSE TimesOpened(f)'
    BY <1>1, <1>2, OneSlot
  <2>4. ~Pending(sock)'
    BY DEF Pending, Scanning
  <2> QED BY <2>1, <2>2, <2>3, <2>4
<1> QED BY <1>3 DEF Counted

LEMMA CountedInfoParser ==
  ASSUME Types, Types', Counted, info_parser PROVE Counted'
<1>1. /\ pc = "parse" /\ pc' \in {"close", "next"} /\ loc' = loc
  BY DEF info_parser, Goto
<1>2. \A f : TimesOpened(f)' = TimesOpened(f)
  <2>1. SamePlace
    BY <1>1 DEF SamePlace
  <2> QED BY <1>1, <2>1, TimesWithin DEF Reading
<1>3. File' = File
  BY <1>1 DEF File
<1>4. ASSUME NEW f \in Files, NEW sock \in {0} \cup Inodes
      PROVE  /\ RowsOf(f, sock)' <= TimesOpened(f)'
             /\ f = File' /\ Pending(sock)' => RowsOf(f, sock)' < TimesOpened(f)'
  <2>1. RowsOf(f, sock)' = IF f = File /\ sock = loc.line.sock
                           THEN RowsOf(f, sock) + 1 ELSE RowsOf(f, sock)
    BY OneRowMore
  <2>2. TimesOpened(f)' = TimesOpened(f)
    BY <1>2
  <2>3. /\ RowsOf(f, sock) \in Nat /\ TimesOpened(f) \in Nat
        /\ RowsOf(f, sock) <= TimesOpened(f)
        /\ f = File /\ Pending(sock) => RowsOf(f, sock) < TimesOpened(f)
    BY RowsFinite, SlotsFinite DEF Counted
  <2>4. loc.line.sock \in Nat /\ sock \in Nat
    <3>1. {0} \cup Inodes \subseteq Nat
      BY NatInodes
    <3> QED BY <3>1, LineIs
  <2>5. Pending(sock) <=> loc.line.sock <= sock
    BY <1>1 DEF Pending, Scanning
  <2>6. Pending(sock)' => loc.line.sock < sock
    BY <1>1 DEF Pending, Scanning
  <2>7. CASE f = File /\ sock = loc.line.sock
    <3>1. Pending(sock) /\ ~Pending(sock)'
      BY <2>4, <2>5, <2>6, <2>7
    <3> QED BY <2>1, <2>2, <2>3, <2>7, <3>1
  <2>8. CASE ~(f = File /\ sock = loc.line.sock)
    <3>1. Pending(sock)' => Pending(sock)
      BY <2>4, <2>5, <2>6
    <3> QED BY <1>3, <2>1, <2>2, <2>3, <2>8, <3>1
  <2> QED BY <2>7, <2>8
<1> QED BY <1>4 DEF Counted

LEMMA CountedReading ==
  ASSUME Types, Types', Ordered, Counted, ReadHead \/ ReadFirst \/ ReadNext PROVE Counted'
<1>1. /\ pc \in Reading /\ pc' \in Reading /\ conn_house' = conn_house
  BY DEF ReadHead, ReadFirst, ReadNext, Goto, Reading, Scanning
<1>2. SamePlace
  BY GetlineIs, ReadHeadIs DEF ReadFirst, ReadNext
<1>3. \A f : TimesOpened(f)' = TimesOpened(f)
  BY <1>1, <1>2, TimesWithin
<1>4. File' = File
  BY <1>2, SameFile
<1>5. ASSUME NEW sock \in {0} \cup Inodes, Pending(sock)'
      PROVE  Pending(sock)
  <2>1. CASE ReadHead \/ ReadFirst
    BY <2>1 DEF ReadHead, ReadFirst, Pending
  <2>2. CASE ReadNext
    <3>1. pc = "next" /\ Getline /\ Filled # {} /\ pc' = "parse"
      BY <1>5, <2>2 DEF ReadNext, Goto, Pending, Scanning
    <3>2. loc.line.sock < loc'.line.sock
      BY <3>1, GetlineOrder DEF Ordered, Reading
    <3>3. loc'.line.sock <= sock
      BY <1>5, <3>1 DEF Pending, Scanning
    <3>4. loc.line.sock \in Nat /\ loc'.line.sock \in Nat /\ sock \in Nat
      <4>1. {0} \cup Inodes \subseteq Nat
        BY NatInodes
      <4>2. loc.line.sock \in Nat
        BY LineIs
      <4>3. loc'.line.sock \in {0} \cup Inodes
        BY DEF Types, LocalTypes, Locals, Lines
      <4> QED BY <4>1, <4>2, <4>3
    <3> QED BY <3>1, <3>2, <3>3, <3>4 DEF Pending
  <2> QED BY <2>1, <2>2
<1> QED BY <1>1, <1>3, <1>4, <1>5, CountedBeside

LEMMA CountedScanning ==
  ASSUME Types, Types', Counted, pc' # "crashed",
         \/ pid_factory \/ EndOfScan \/ ReadCmdline \/ ListFds \/ EndOfFds
         \/ ReadLink /\ pc' \in {"link", "lost"}
  PROVE  Counted'
<1>1. /\ pc \in Scanning /\ pc' \in Scanning \cup {"parse", "lost"}
      /\ conn_house' = conn_house /\ loc' = loc
  BY DEF pid_factory, EndOfScan, ReadCmdline, ListFds, EndOfFds, ReadLink, Goto, Scanning
<1>2. SamePlace /\ File' = File
  BY <1>1 DEF SamePlace, File
<1>3. \A f : TimesOpened(f)' = TimesOpened(f)
  BY <1>1, <1>2, TimesWithin DEF Reading
<1>4. \A sock : Pending(sock)
  BY <1>1 DEF Pending
<1> QED BY <1>1, <1>2, <1>3, <1>4, CountedBeside

LEMMA CountedNext == Base /\ Ordered /\ Counted /\ [Next]_vars => Counted'
<1> SUFFICES ASSUME Base, Ordered, Counted, [Next]_vars PROVE Counted'
  OBVIOUS
<1>1. Types
  BY DEF Base
<1>2. Types'
  BY BaseNext DEF Base
<1>3. CASE World \/ UNCHANGED vars
  <2>1. pc' = pc /\ loc' = loc /\ conn_house' = conn_house
    BY <1>3 DEF World, vars
  <2>2. \A f : TimesOpened(f)' = TimesOpened(f)
    <3>1. \A k \in 1 .. Len(loc.passes) : Opened(k)' = Opened(k)
      BY <2>1 DEF Opened
    <3> QED BY <1>1, <1>2, <2>1, <3>1, SameOpened
  <2>3. \A sock : Pending(sock)' => Pending(sock)
    BY <2>1 DEF Pending
  <2>4. File' = File
    BY <2>1 DEF File
  <2> QED BY <1>1, <2>1, <2>2, <2>3, <2>4, CountedBeside
<1>4. CASE print_info \/ CloseFile \/ EndOfProgram
  <2>1. \A f : TimesOpened(f)' = TimesOpened(f)
    BY <1>1, <1>2, <1>4, TimesBetween
  <2>2. pc' \in {"pass", "done"} /\ conn_house' = conn_house
    BY <1>4 DEF print_info, Printing, CloseFile, EndOfProgram, Goto
  <2>3. \A sock : ~Pending(sock)'
    BY <2>2 DEF Pending, Scanning
  <2> QED BY <1>1, <2>1, <2>2, <2>3, CountedBeside
<1>5. CASE OpenFile
  BY <1>1, <1>2, <1>5, CountedOpenFile
<1>6. CASE ReadHead \/ ReadFirst \/ ReadNext
  BY <1>1, <1>2, <1>6, CountedReading
<1>7. CASE info_parser
  BY <1>1, <1>2, <1>7, CountedInfoParser
<1>8. CASE ReadCmdline /\ pc' = "crashed"
  BY <1>1, <1>2, <1>8, CountedCrash
<1>9. CASE ReadLink
  <2>1. pc' \in {"link", "lost"}
    BY <1>1, <1>9, ReadLinkIs DEF Base, Underway, ReadLink
  <2> QED BY <1>1, <1>2, <1>9, <2>1, CountedScanning
<1>10. CASE /\ pid_factory \/ EndOfScan \/ ReadCmdline \/ ListFds \/ EndOfFds
            /\ pc' # "crashed"
  BY <1>1, <1>2, <1>10, CountedScanning
<1>11. pid_factory \/ EndOfScan \/ ListFds \/ EndOfFds => pc' # "crashed"
  BY DEF pid_factory, EndOfScan, ListFds, EndOfFds, Goto
<1> QED BY <1>3, <1>4, <1>5, <1>6, <1>7, <1>8, <1>9, <1>10, <1>11 DEF Next, Program

\* No reading of a table gives a socket two rows, nor two rows that are no
\* socket, however lines and sockets change between two reads of the kernel.
THEOREM NoRowTwice == Spec => []RowsPerRead
<1>1. Init => Counted
  BY CountedInit
<1>2. Base /\ Ordered /\ Counted /\ [Next]_vars => Counted'
  BY CountedNext
<1>3. Counted => RowsPerRead
  BY DEF Counted, RowsPerRead
<1> QED BY <1>1, <1>2, <1>3, BaseHolds, OrderedHolds, PTL DEF Spec

-----------------------------------------------------------------------------
(* What holds still: sockets nobody opened or gave up.                      *)

Still == {i \in Inodes \ stirred : held[i] # {}}
First(i) == Min(held[i])

\* Whoever ever had such a socket has it, and was there before anyone that
\* is still to be started.
StillHeld ==
  /\ lingering \subseteq stirred
  /\ \A i \in Still :
       /\ \A p \in held[i] : life[p] = "run" /\ i \in SocketsOf(p)
       /\ \A q \in Pids : life[q] = "none" => First(i) < q

\* A step leaves it so: a new holder is a process that was not there before.
StillStays ==
  \A i \in Still' :
    /\ i \in Still /\ First(i)' = First(i)
    /\ \A p \in held[i]' : p \in held[i] \/ life[p] = "none"
    /\ \A p \in held[i] : \A f \in 1 .. MaxFd : fds[p][f] = i => fds'[p][f] = i

LEMMA FirstIs ==
  ASSUME WorldInv, NEW i \in Inodes, held[i] # {}
  PROVE  First(i) \in held[i] /\ First(i) \in Pids /\ \A p \in held[i] : First(i) <= p
<1>1. held[i] \subseteq Pids
  BY DEF WorldInv, WorldTypes
<1>2. held[i] \subseteq Nat
  BY <1>1, NatPids
<1> QED BY <1>1, <1>2, MinIs DEF First

\* The sockets that hold still are those that are open.
LEMMA StillIsOpen ==
  ASSUME WorldInv, StillHeld
  PROVE  Still = Open \ stirred
<1>1. \A i \in Still : i \in Open \ stirred
  BY DEF StillHeld, Still, Open, WorldInv, WorldTypes
<1>2. ASSUME NEW i \in Open \ stirred
      PROVE  i \in Still
  <2>1. PICK p \in Pids : i \in SocketsOf(p)
    BY DEF Open
  <2>2. PICK f \in 1 .. MaxFd : fds[p][f] = i /\ i # 0
    BY <2>1 DEF SocketsOf
  <2>3. p \in held[i] /\ i \in Inodes
    BY <2>1, <2>2, SocketsAre DEF WorldInv, HoldersKnown
  <2> QED BY <2>3 DEF Still
<1> QED BY <1>1, <1>2

LEMMA StillHeldInit == Init => StillHeld
<1> SUFFICES ASSUME Init PROVE StillHeld
  OBVIOUS
<1>1. /\ lingering = {}
      /\ held = [i \in Inodes |-> {p \in Pids : i \in SocketsOf(p)}]
      /\ life \in [Pids -> {"run", "zombie", "none"}]
      /\ \A p \in Pids :
           /\ life[p] # "run" => SocketsOf(p) = {}
           /\ life[p] = "none" => \A q \in Pids : q > p => life[q] = "none"
  BY DEF Init
<1>2. ASSUME NEW i \in Still
      PROVE  /\ \A p \in held[i] : life[p] = "run" /\ i \in SocketsOf(p)
             /\ \A q \in Pids : life[q] = "none" => First(i) < q
  <2>1. \A p \in held[i] : p \in Pids /\ life[p] = "run" /\ i \in SocketsOf(p)
    BY <1>1 DEF Still
  <2>2. First(i) \in held[i] /\ First(i) \in Pids
    BY FirstIs, WorldInit DEF Still
  <2>3. ASSUME NEW q \in Pids, life[q] = "none"
        PROVE  First(i) < q
    <3> DEFINE first == First(i)
    <3>1. first \in Nat /\ q \in Nat
      BY <2>2, NatPids
    <3>2. first # q /\ ~(first > q)
      BY <1>1, <2>1, <2>2, <2>3
    <3> HIDE DEF first
    <3> QED BY <3>1, <3>2 DEF first
  <2> QED BY <2>1, <2>3
<1> QED BY <1>1, <1>2 DEF StillHeld

\* Where nobody new holds the sockets that hold still.
LEMMA StillBeside ==
  ASSUME StillHeld, Still' \subseteq Still, lingering' \subseteq stirred',
         \A i \in Still' :
           /\ held[i]' = held[i]
           /\ \A p \in held[i] :
                /\ life'[p] = "run" /\ i \in SocketsOf(p)'
                /\ \A f \in 1 .. MaxFd : fds[p][f] = i => fds'[p][f] = i,
         \A q \in Pids : life[q]' = "none" => life[q] = "none"
  PROVE  StillHeld' /\ StillStays
<1>1. \A i \in Still' : i \in Still /\ First(i)' = First(i)
  BY DEF First
<1>2. StillStays
  BY <1>1 DEF StillStays
<1>3. StillHeld'
  BY <1>1 DEF StillHeld
<1> QED BY <1>2, <1>3

LEMMA SameStill ==
  ASSUME StillHeld, UNCHANGED world PROVE StillHeld' /\ StillStays /\ Still' = Still
<1>1. Still' = Still /\ \A i : First(i)' = First(i)
  BY DEF world, Still, First
<1> QED BY <1>1 DEF world, StillHeld, StillStays, SocketsOf, First

LEMMA StillOpenSocket ==
  ASSUME WorldInv, StillHeld, NEW p \in Pids, OpenSocket(p) PROVE StillHeld' /\ StillStays
<1>1. PICK f \in 1 .. MaxFd, i \in Inodes :
        /\ fds[p][f] = 0
        /\ held[i] = {}
        /\ fds' = [fds EXCEPT ![p][f] = i]
        /\ held' = [held EXCEPT ![i] = {p}]
        /\ stirred' = stirred \cup {i}
        /\ life' = life /\ lingering' = lingering
  BY DEF OpenSocket, Stir
<1> USE DEF WorldInv, WorldTypes
<1>2. \A j \in Still' : j # i /\ held[j]' = held[j] /\ j \in Still
  BY <1>1 DEF Still
<1>3. lingering' \subseteq stirred'
  BY <1>1 DEF StillHeld
<1>4. ASSUME NEW j \in Still', NEW q \in held[j]
      PROVE  /\ life'[q] = "run" /\ j \in SocketsOf(q)'
             /\ \A g \in 1 .. MaxFd : fds[q][g] = j => fds'[q][g] = j
  <2>1. j \in Still /\ j \in Inodes /\ q \in Pids /\ j # 0
    BY <1>2, NatInodes DEF Still
  <2>2. life[q] = "run" /\ j \in SocketsOf(q)
    BY <2>1 DEF StillHeld
  <2>3. \A g \in 1 .. MaxFd : fds[q][g] = j => fds'[q][g] = j
    BY <1>1, <2>1
  <2>4. PICK g \in 1 .. MaxFd : fds[q][g] = j
    BY <2>2 DEF SocketsOf
  <2>5. fds'[q][g] = j
    BY <2>3, <2>4
  <2>6. j \in SocketsOf(q)'
    BY <2>1, <2>5 DEF SocketsOf
  <2> QED BY <1>1, <2>2, <2>3, <2>6
<1> QED BY <1>1, <1>2, <1>3, <1>4, StillBeside

LEMMA StillCloseSocket ==
  ASSUME WorldInv, StillHeld, NEW p \in Pids, CloseSocket(p) PROVE StillHeld' /\ StillStays
<1>1. PICK f \in 1 .. MaxFd :
        /\ fds[p][f] # 0
        /\ fds' = [fds EXCEPT ![p][f] = 0]
        /\ Leave({fds[p][f]} \ UNION {SocketsOf(q) : q \in Pids \ {p}})
        /\ stirred' = stirred \cup {fds[p][f]}
        /\ life' = life /\ held' = held
  BY DEF CloseSocket, Stir
<1> USE DEF WorldInv, WorldTypes
<1>2. \A j \in Still' : j # fds[p][f] /\ held[j]' = held[j] /\ j \in Still
  BY <1>1 DEF Still
<1>3. lingering' \subseteq stirred'
  BY <1>1 DEF StillHeld, Leave
<1>4. ASSUME NEW j \in Still', NEW q \in held[j]
      PROVE  /\ life'[q] = "run" /\ j \in SocketsOf(q)'
             /\ \A g \in 1 .. MaxFd : fds[q][g] = j => fds'[q][g] = j
  <2>1. j \in Still /\ j \in Inodes /\ q \in Pids /\ j # 0
    BY <1>2, NatInodes DEF Still
  <2>2. life[q] = "run" /\ j \in SocketsOf(q)
    BY <2>1 DEF StillHeld
  <2>3. \A g \in 1 .. MaxFd : fds[q][g] = j => fds'[q][g] = j
    BY <1>1, <1>2, <2>1
  <2>4. PICK g \in 1 .. MaxFd : fds[q][g] = j
    BY <2>2 DEF SocketsOf
  <2>5. fds'[q][g] = j
    BY <2>3, <2>4
  <2>6. j \in SocketsOf(q)'
    BY <2>1, <2>5 DEF SocketsOf
  <2> QED BY <1>1, <2>2, <2>3, <2>6
<1> QED BY <1>1, <1>2, <1>3, <1>4, StillBeside

LEMMA StillForkProcess ==
  ASSUME WorldInv, StillHeld, NEW p \in Pids, ForkProcess(p) PROVE StillHeld' /\ StillStays
<1>1. PICK q \in Pids :
        /\ life[q] = "none"
        /\ life' = [life EXCEPT ![q] = "run"]
        /\ fds' = [fds EXCEPT ![q] = fds[p]]
        /\ held' = [i \in Inodes |-> held[i] \cup (IF i \in SocketsOf(p) THEN {q} ELSE {})]
        /\ stirred' = stirred /\ lingering' = lingering /\ life[p] = "run"
  BY DEF ForkProcess
<1> USE DEF WorldInv, WorldTypes
<1>2. p # q /\ fds'[q] = fds[p] /\ \A r \in Pids : r # q => fds'[r] = fds[r]
  BY <1>1
<1>3. \A j : /\ SocketsOf(q)' = SocketsOf(p)
             /\ \A r \in Pids : r # q => SocketsOf(r)' = SocketsOf(r)
  BY <1>2 DEF SocketsOf
<1>4. ASSUME NEW j \in Still'
      PROVE  j \in Still /\ j \in Inodes
  <2>1. j \in Inodes \ stirred /\ held'[j] # {}
    BY <1>1, <1>4 DEF Still
  <2>2. CASE j \in SocketsOf(p)
    <3>1. PICK f \in 1 .. MaxFd : fds[p][f] = j /\ j # 0
      BY <2>2 DEF SocketsOf
    <3>2. p \in held[j]
      BY <3>1 DEF HoldersKnown
    <3> QED BY <2>1, <3>2 DEF Still
  <2>3. CASE j \notin SocketsOf(p)
    BY <1>1, <2>1, <2>3 DEF Still
  <2> QED BY <2>1, <2>2, <2>3
<1>5. ASSUME NEW j \in Still'
      PROVE  First(j)' = First(j)
  <2>1. j \in Still /\ j \in Inodes
    BY <1>4
  <2> DEFINE first == First(j)
  <2>2. first \in held[j] /\ first \in Pids /\ \A r \in held[j] : first <= r
    BY <2>1, FirstIs DEF Still
  <2>3. first < q
    BY <1>1, <2>1 DEF StillHeld
  <2>4. held[j] \subseteq Pids /\ held'[j] \in {held[j], held[j] \cup {q}}
    BY <1>1, <2>1
  <2>5. WorldInv'
    BY WorldForkProcess
  <2>6. held'[j] # {}
    BY DEF Still
  <2>7. First(j)' = Min(held'[j])
    BY DEF First
  <2> HIDE DEF first
  <2>8. held'[j] \subseteq Pids
    BY <2>4
  <2>9. held'[j] \subseteq Nat
    BY <2>8, NatPids
  <2> DEFINE least == Min(held'[j])
  <2>10. least \in held'[j] /\ \A r \in held'[j] : least <= r
    BY <2>6, <2>9, MinIs
  <2> HIDE DEF least
  <2>11. first \in held'[j] /\ first \in Nat /\ least \in Nat /\ q \in Nat
    BY <2>2, <2>4, <2>9, <2>10, NatPids
  <2>12. least <= first
    BY <2>10, <2>11
  <2>13. first <= least
    BY <2>2, <2>3, <2>4, <2>10, <2>11
  <2>14. least = first
    BY <2>11, <2>12, <2>13
  <2> QED BY <2>7, <2>14 DEF least, first
<1>6. ASSUME NEW j \in Still'
      PROVE  \A r \in held'[j] : /\ r \in held[j] \/ life[r] = "none"
                                 /\ life'[r] = "run" /\ j \in SocketsOf(r)'
  <2>1. j \in Still /\ j \in Inodes
    BY <1>4
  <2>2. \A r \in held[j] : life[r] = "run" /\ j \in SocketsOf(r) /\ r \in Pids
    BY <2>1 DEF StillHeld
  <2>3. ASSUME NEW r \in held'[j]
        PROVE  /\ r \in held[j] \/ life[r] = "none"
               /\ life'[r] = "run" /\ j \in SocketsOf(r)'
    <3>1. CASE r \in held[j]
      BY <1>1, <1>3, <2>2, <3>1
    <3>2. CASE r \notin held[j]
      <4>1. r = q /\ j \in SocketsOf(p)
        BY <1>1, <2>1, <2>3, <3>2
      <4> QED BY <1>1, <1>3, <4>1
    <3> QED BY <3>1, <3>2
  <2> QED BY <2>3
<1>7. ASSUME NEW j \in Still', NEW r \in held[j], NEW f \in 1 .. MaxFd, fds[r][f] = j
      PROVE  fds'[r][f] = j
  <2>1. life[r] = "run" /\ r \in Pids
    BY <1>4 DEF StillHeld
  <2> QED BY <1>1, <1>2, <1>7, <2>1
<1>8. StillStays
  BY <1>4, <1>5, <1>6, <1>7 DEF StillStays
<1>9. \A j \in Still' : \A r \in Pids : life'[r] = "none" => First(j)' < r
  <2>1. \A r \in Pids : life'[r] = "none" => life[r] = "none"
    BY <1>1
  <2> QED BY <1>4, <1>5, <2>1 DEF StillHeld
<1>10. StillHeld'
  BY <1>1, <1>6, <1>9 DEF StillHeld
<1> QED BY <1>8, <1>10

LEMMA StillExit ==
  ASSUME WorldInv, StillHeld, NEW p \in Pids, Exit(p) \/ Wait(p) \/ ExitFiles(p)
  PROVE  StillHeld' /\ StillStays
<1> USE DEF WorldInv, WorldTypes
<1>1. PICK l \in {"exiting", "zombie", "gone"} : life' = [life EXCEPT ![p] = l]
  BY DEF Exit, Wait, ExitFiles
<1>2. held' = held /\ stirred \subseteq stirred'
  BY DEF Exit, Wait, ExitFiles, Stir
<1>3. \A j \in Still' : j \in Still /\ j \in Inodes /\ j \notin stirred' /\ held[j]' = held[j]
  BY <1>2 DEF Still
<1>4. ASSUME NEW j \in Still'
      PROVE  p \notin held[j]
  <2>1. CASE Exit(p)
    <3>1. stirred' = stirred \cup SocketsOf(p)
      BY <2>1 DEF Exit, Stir
    <3> QED BY <1>3, <3>1 DEF StillHeld
  <2>2. CASE Wait(p) \/ ExitFiles(p)
    <3>1. life[p] # "run"
      BY <2>2 DEF Wait, ExitFiles
    <3> QED BY <1>3, <3>1 DEF StillHeld
  <2> QED BY <2>1, <2>2
<1>5. \A q \in Pids : q # p => fds'[q] = fds[q]
  BY DEF Exit, Wait, ExitFiles
<1>6. lingering' \subseteq stirred'
  <2>1. CASE Exit(p) \/ Wait(p)
    BY <1>2, <2>1 DEF Exit, Wait, StillHeld
  <2>2. CASE ExitFiles(p)
    <3>1. /\ life[p] = "exiting" /\ stirred' = stirred
          /\ Leave(SocketsOf(p) \ UNION {SocketsOf(q) : q \in Pids \ {p}})
      BY <2>2 DEF ExitFiles
    <3>2. ASSUME NEW i \in SocketsOf(p)
          PROVE  i \in stirred
      <4>1. PICK f \in 1 .. MaxFd : fds[p][f] = i /\ i # 0
        BY DEF SocketsOf
      <4>2. i \in Inodes /\ p \in held[i]
        BY <4>1 DEF HoldersKnown
      <4> QED BY <3>1, <4>2 DEF StillHeld, Still
    <3> QED BY <3>1, <3>2 DEF StillHeld, Leave
  <2> QED BY <2>1, <2>2
<1>7. ASSUME NEW j \in Still', NEW q \in held[j]
      PROVE  /\ life'[q] = "run" /\ j \in SocketsOf(q)'
             /\ \A f \in 1 .. MaxFd : fds[q][f] = j => fds'[q][f] = j
  <2>1. q # p /\ q \in Pids /\ j \in Still
    BY <1>3, <1>4
  <2>2. life[q] = "run" /\ j \in SocketsOf(q)
    BY <2>1 DEF StillHeld
  <2>3. SocketsOf(q)' = SocketsOf(q)
    BY <1>5, <2>1 DEF SocketsOf
  <2> QED BY <1>1, <1>5, <2>1, <2>2, <2>3
<1>8. \A q \in Pids : life[q]' = "none" => life[q] = "none"
  BY <1>1
<1> QED BY <1>3, <1>6, <1>7, <1>8, StillBeside

LEMMA StillNext == ASSUME Base, StillHeld, [Next]_vars PROVE StillHeld' /\ StillStays
<1>1. WorldInv
  BY DEF Base, Types
<1>2. CASE World
  BY <1>1, <1>2, StillOpenSocket, StillCloseSocket, StillForkProcess, StillExit DEF World
<1>3. CASE ~World
  BY <1>3, ProgramOnlyLooks, SameStill DEF Next, vars
<1> QED BY <1>2, <1>3

LEMMA StillHolds == Spec => []StillHeld
<1>1. Base /\ StillHeld /\ [Next]_vars => StillHeld'
  BY StillNext
<1> QED BY <1>1, StillHeldInit, BaseHolds, PTL DEF Spec

-----------------------------------------------------------------------------
(* Every socket that holds still has its row.                               *)

\* The kernel, or the buffer, has the row of i still to give.
Ahead(i) == i > loc.pos \/ \E row \in loc.buf : row.sock = i

Owed(i) ==
  /\ Family[i] = File
  /\ \/ pc \in {"head", "first", "next"} /\ Ahead(i)
     \/ pc \in Scanning \cup {"parse"} /\ (loc.line.sock = i \/ Ahead(i))

\* The end of a table is met behind the last row that holds still.
StartAndEnd ==
  /\ pc = "head" => loc.pos = 0
  /\ pc \in {"head", "first", "next"} => ~loc.eof
  /\ pc \in Scanning \cup {"parse"} =>
       (loc.eof => \A i \in Still : Family[i] = File => ~Ahead(i))

AllRows ==
  pc # "lost" =>
    \A i \in Still : /\ TimesOpened(Family[i]) <= RowsOf(Family[i], i) + 1
                     /\ ~Owed(i) => TimesOpened(Family[i]) <= RowsOf(Family[i], i)

\* Such a row shows the inode.
InodesShown ==
  /\ \A row \in loc.buf : row.sock \in Still => row.inode = row.sock
  /\ loc.line.sock \in Still => loc.line.inode = loc.line.sock
  /\ \A k \in DOMAIN conn_house :
       conn_house[k].sock \in Still => conn_house[k].inode = conn_house[k].sock

\* Reading goes on behind the last row given, and gives at least one.
LEMMA RowsReach ==
  ASSUME Types, NEW room \in Nat, NEW i \in Open, Family[i] = File, i > loc.pos
  PROVE  /\ i <= Behind(Rows(room)) => \E row \in Rows(room) : row.sock = i
         /\ room # 0 => Rows(room) # {}
<1> DEFINE socks == {j \in Open \cup lingering : Family[j] = File /\ j > loc.pos}
           upto(j) == {k \in socks : k <= j}
           given == {j \in socks : Cardinality(upto(j)) <= room}
           of(j) == [sock |-> j, inode |-> IF j \in Open THEN j ELSE 0]
           end == Behind(Rows(room))
<1>1. Rows(room) = {of(j) : j \in given}
  BY DEF Rows
<1>2. socks \subseteq Inodes /\ i \in socks
  <2>1. Open \cup lingering \subseteq Inodes
    BY SocketsAre DEF Types, WorldInv, WorldTypes
  <2> QED BY <2>1
<1>3. socks \subseteq Nat /\ IsFiniteSet(socks)
  <2> HIDE DEF socks
  <2> QED BY <1>2, NatInodes, FS_Subset
<1>4. \A j : of(j).sock = j
  OBVIOUS
<1>5. \A j \in socks : IsFiniteSet(upto(j)) /\ Cardinality(upto(j)) \in Nat
  <2>1. \A j \in socks : upto(j) \in SUBSET socks
    OBVIOUS
  <2> HIDE DEF socks, upto
  <2> QED BY <1>3, <2>1, FS_Subset, FS_CardinalityType
<1>6. end = loc.pos \/ \E row \in Rows(room) : end = row.sock
  BY RowsAre, BehindIs
<1> HIDE DEF socks, of
<1>7. ASSUME i <= end
      PROVE  i \in given
  <2>1. end \in given
    <3>1. i \in Nat /\ loc.pos \in Nat /\ end # loc.pos
      <4>1. i \in Nat /\ loc.pos \in Nat /\ end \in Nat
        BY <1>2, <1>3, RowsAre, BehindIs DEF Types, LocalTypes, Locals
      <4> HIDE DEF end
      <4> QED BY <1>7, <4>1
    <3> QED BY <1>1, <1>4, <1>6, <3>1
  <2> HIDE DEF end
  <2>2. end \in socks /\ Cardinality(upto(end)) <= room
    BY <2>1
  <2>3. \A k \in socks : k <= i => k <= end
    BY <1>2, <1>3, <1>7, <2>2
  <2>4. upto(i) \subseteq upto(end)
    BY <2>3
  <2>5. IsFiniteSet(upto(end)) /\ Cardinality(upto(i)) \in Nat /\ Cardinality(upto(end)) \in Nat
    BY <1>2, <1>5, <2>2
  <2> DEFINE few == upto(i)
             many == upto(end)
  <2>6. few \in SUBSET many /\ IsFiniteSet(many)
    BY <2>4, <2>5
  <2> HIDE DEF few, many
  <2>7. Cardinality(few) <= Cardinality(many)
    BY <2>6, FS_Subset
  <2>8. Cardinality(upto(i)) <= room
    BY <2>2, <2>5, <2>7 DEF few, many
  <2> QED BY <1>2, <2>8
<1>8. ASSUME room # 0
      PROVE  \E j \in given : TRUE
  <2>1. PICK m \in socks : \A k \in socks : m <= k
    BY <1>2, <1>3, LeastExists
  <2>2. upto(m) = {m}
    <3>1. \A k \in socks : k <= m => k = m
      BY <1>3, <2>1
    <3>2. m <= m
      BY <1>3
    <3> QED BY <3>1, <3>2
  <2>3. Cardinality({m}) = 1
    BY FS_Singleton
  <2>4. 1 <= room
    BY <1>8
  <2> QED BY <2>2, <2>3, <2>4
<1>9. ASSUME i <= end
      PROVE  \E row \in Rows(room) : row.sock = i
  BY <1>1, <1>4, <1>7, <1>9
<1>10. ASSUME room # 0
       PROVE  Rows(room) # {}
  BY <1>1, <1>8, <1>10
<1> QED BY <1>9, <1>10

LEMMA ChunkIs == Chunk \in Nat /\ Chunk # 0 /\ Chunk - 1 \in Nat
BY SizeAssumption

\* getline gives the row or leaves it where it is; it does not miss it.
LEMMA GetlineAhead ==
  ASSUME Types, InOrder, Getline, NEW i \in Open, Family[i] = File, Ahead(i)
  PROVE  Filled # {} /\ (loc'.line.sock = i \/ Ahead(i)')
<1> DEFINE end == Behind(Filled)
<1>1. Filled # {} => /\ loc'.line \in Filled /\ loc'.buf = Filled \ {loc'.line}
                     /\ loc'.pos = end
  <2>1. Filled # {} => loc' = [loc EXCEPT !.line = FirstOf(Filled),
                                 !.buf = Filled \ {FirstOf(Filled)}, !.pos = Behind(Filled)]
    BY DEF Getline
  <2>2. loc \in Locals
    BY DEF Types, LocalTypes
  <2>3. Filled # {} => loc'.pos = end
    BY <2>1, <2>2 DEF Locals
  <2> QED BY <2>3, GetlineIs
<1>2. i \in Nat /\ loc.pos \in Nat
  <2>1. Open \subseteq Inodes
    BY SocketsAre DEF Types, WorldInv
  <2> QED BY <2>1, NatInodes DEF Types, LocalTypes, Locals
<1>3. ASSUME NEW row \in Filled, row.sock = i
      PROVE  Filled # {} /\ (loc'.line.sock = i \/ Ahead(i)')
  BY <1>1, <1>3 DEF Ahead
<1>4. end \in Nat
  BY FilledIs, BehindIs
<1>5. CASE loc.buf # {}
  <2>1. Filled = loc.buf
    BY <1>5, FilledIs
  <2>2. CASE i > loc.pos
    <3>1. loc.pos <= end /\ (end = loc.pos \/ \E row \in Filled : end = row.sock)
      BY FilledIs, BehindIs
    <3>2. \A row \in Filled : row.sock <= loc.pos
      BY <2>1 DEF InOrder
    <3> HIDE DEF end
    <3>3. i > end
      BY <1>2, <1>4, <2>2, <3>1, <3>2
    <3> QED BY <1>1, <1>5, <2>1, <3>3 DEF Ahead
  <2>3. CASE \E row \in loc.buf : row.sock = i
    BY <1>3, <2>1, <2>3
  <2> QED BY <2>2, <2>3 DEF Ahead
<1>6. CASE loc.buf = {}
  <2>1. Filled = Rows(Chunk) /\ i > loc.pos
    BY <1>6, FilledIs DEF Ahead
  <2>2. Filled # {} /\ (i <= end => \E row \in Filled : row.sock = i)
    BY <2>1, RowsReach, ChunkIs
  <2>3. i <= end \/ i > end
    <3> HIDE DEF end
    <3> QED BY <1>2, <1>4
  <2>4. CASE i <= end
    BY <1>3, <2>2, <2>4
  <2>5. CASE i > end
    BY <1>1, <2>2, <2>5 DEF Ahead
  <2> QED BY <2>3, <2>4, <2>5
<1> QED BY <1>5, <1>6

LEMMA ReadHeadAhead ==
  ASSUME Types, ReadHead, NEW i \in Open, Family[i] = File, i > loc.pos
  PROVE  Ahead(i)'
<1> DEFINE end == Behind(Rows(Chunk - 1))
<1>1. loc'.buf = Rows(Chunk - 1) /\ loc'.pos = end
  BY DEF ReadHead, Types, LocalTypes, Locals
<1>2. i <= end => \E row \in Rows(Chunk - 1) : row.sock = i
  BY RowsReach, ChunkIs
<1>3. i \in Nat /\ end \in Nat
  <2>1. Open \subseteq Inodes
    BY SocketsAre DEF Types, WorldInv
  <2>2. end \in Nat
    BY RowsAre, BehindIs
  <2> QED BY <2>1, <2>2, NatInodes
<1> HIDE DEF end
<1>4. i <= end \/ i > end
  BY <1>3
<1> QED BY <1>1, <1>2, <1>4 DEF Ahead

LEMMA StillIs ==
  ASSUME Types, StillHeld, NEW i \in Still
  PROVE  i \in Inodes /\ i \in Open /\ i \notin lingering /\ i \in Nat \ {0}
         /\ Family[i] \in Files
<1>1. WorldInv
  BY DEF Types
<1>2. i \in Open /\ i \notin lingering
  BY <1>1, StillIsOpen DEF StillHeld
<1>3. i \in Inodes
  BY DEF Still
<1> QED BY <1>2, <1>3, NatInodes, SocketAssumption

LEMMA StartAndEndInit == Init => StartAndEnd /\ InodesShown /\ AllRows
<1> SUFFICES ASSUME Init PROVE StartAndEnd /\ InodesShown /\ AllRows
  OBVIOUS
<1>1. /\ pc = "pass" /\ conn_house = <<>> /\ loc.buf = {} /\ loc.line = HeadLine
      /\ loc.pass = 1 /\ loc.file = 1
  BY DEF Init
<1>2. StartAndEnd
  BY <1>1 DEF StartAndEnd, Scanning
<1>3. InodesShown
  BY <1>1, HeadIsLine, NatInodes DEF InodesShown, Still
<1>4. Types
  BY TypesInit
<1>5. ASSUME NEW f
      PROVE  TimesOpened(f) = 0
  <2>1. ASSUME NEW k \in 1 .. Len(loc.passes)
        PROVE  Opened(k) = 0
    <3>1. k \in Nat /\ (k = 1 \/ 1 < k)
      OBVIOUS
    <3>2. 1 - 1 = 0
      OBVIOUS
    <3> QED BY <1>1, <1>4, <3>1, <3>2, OpenedIs
  <2>2. ASSUME NEW slot \in Slots(f)
        PROVE  FALSE
    <3>1. slot[1] \in 1 .. Len(loc.passes) /\ slot[2] \in 1 .. 4 /\ slot[2] <= Opened(slot[1])
      BY DEF Slots
    <3> QED BY <2>1, <3>1
  <2>3. Slots(f) = {}
    BY <2>2
  <2> QED BY <1>4, <2>3, SlotsFinite, FS_EmptySet
<1>6. \A f, sock : RowsOf(f, sock) \in Nat
  BY <1>4, RowsFinite
<1>7. \A n \in Nat : 0 <= n /\ 0 <= n + 1
  OBVIOUS
<1> QED BY <1>2, <1>3, <1>5, <1>6, <1>7 DEF AllRows

\* Where nothing moves in the tables.
LEMMA SameAhead ==
  ASSUME StillStays, StartAndEnd, loc' = loc,
         \/ pc' = pc
         \/ pc \in Scanning /\ pc' \in Scanning \cup {"parse", "crashed", "lost"}
  PROVE  StartAndEnd'
<1>1. File' = File /\ \A i : Ahead(i)' = Ahead(i)
  BY DEF File, Ahead
<1>2. \A i \in Still' : i \in Still
  BY DEF StillStays
<1> QED BY <1>1, <1>2 DEF StartAndEnd, Scanning

LEMMA StartAndEndNext ==
  ASSUME Base, Ordered, StillHeld, StillStays, StartAndEnd, [Next]_vars
  PROVE  StartAndEnd'
<1>1. Types
  BY DEF Base
<1>2. CASE World \/ UNCHANGED vars
  BY <1>2, SameAhead DEF World, vars
<1>3. CASE pid_factory \/ EndOfScan \/ ReadCmdline \/ ListFds \/ EndOfFds \/ ReadLink
  <2>1. CASE ReadLink
    <3>1. pc = "link" /\ loc' = loc /\ pc' \in {"link", "lost"}
      BY <1>1, <2>1, ReadLinkIs DEF Base, Underway, ReadLink
    <3> QED BY <3>1, SameAhead DEF Scanning
  <2>2. CASE ~ReadLink
    BY <1>3, <2>2, SameAhead
       DEF pid_factory, EndOfScan, ReadCmdline, ListFds, EndOfFds, Goto, Scanning
  <2> QED BY <2>1, <2>2
<1>4. CASE OpenFile
  <2>1. loc'.pos = 0 /\ loc'.eof = FALSE /\ pc' \in {"head", "crashed"}
    BY <1>1, <1>4 DEF OpenFile, Goto, Types, LocalTypes, Locals
  <2> QED BY <2>1 DEF StartAndEnd, Scanning
<1>5. CASE print_info \/ CloseFile \/ EndOfProgram
  <2>1. pc' \in {"pass", "done"}
    BY <1>5 DEF print_info, Printing, CloseFile, EndOfProgram, Goto
  <2> QED BY <2>1 DEF StartAndEnd, Scanning
<1>6. CASE ReadHead
  <2>1. pc' = "first" /\ ~loc'.eof
    BY <1>1, <1>6, ReadHeadIs DEF ReadHead, Goto, StartAndEnd
  <2> QED BY <2>1 DEF StartAndEnd, Scanning
<1>7. CASE ReadFirst \/ ReadNext
  <2>1. /\ Getline /\ InOrder /\ ~loc.eof /\ loc.eof \in BOOLEAN
        /\ pc' \in {"scan", "parse", "close"} /\ (Still' = Still)
    <3>1. UNCHANGED world
      BY <1>7 DEF ReadFirst, ReadNext
    <3>2. Still' = Still
      BY <3>1 DEF Still, world
    <3>3. Getline /\ pc' \in {"scan", "parse", "close"} /\ pc \in {"first", "next"}
      BY <1>7 DEF ReadFirst, ReadNext, Goto
    <3> QED BY <1>1, <3>2, <3>3 DEF StartAndEnd, Ordered, Reading, Types, LocalTypes, Locals
  <2>2. CASE Filled = {}
    <3>1. SamePlace /\ loc' = [loc EXCEPT !.eof = TRUE]
      BY <1>1, <2>1, <2>2, GetlineIs
    <3>2. \A i \in Still : Family[i] = File => ~Ahead(i)
      BY <1>1, <2>1, <2>2, GetlineAhead, StillIs
    <3>3. File' = File /\ \A i : Ahead(i)' = Ahead(i)
      BY <1>1, <3>1, SameFile DEF Ahead, Types, LocalTypes, Locals
    <3> QED BY <2>1, <3>2, <3>3 DEF StartAndEnd, Scanning
  <2>3. CASE Filled # {}
    <3>1. loc'.eof = loc.eof
      BY <1>1, <2>1, <2>3, GetlineIs
    <3> QED BY <2>1, <3>1 DEF StartAndEnd, Scanning
  <2> QED BY <2>2, <2>3
<1>8. CASE info_parser
  <2>1. loc' = loc /\ pc' = (IF loc.eof THEN "close" ELSE "next")
    BY <1>8 DEF info_parser, Goto
  <2> QED BY <2>1 DEF StartAndEnd, Scanning
<1> QED BY <1>2, <1>3, <1>4, <1>5, <1>6, <1>7, <1>8 DEF Next, Program

\* An open socket's row has its inode.
LEMMA RowsShow ==
  ASSUME Types, StillHeld, NEW room
  PROVE  \A row \in Rows(room) : row.sock \in Still => row.inode = row.sock
<1> DEFINE of(i) == [sock |-> i, inode |-> IF i \in Open THEN i ELSE 0]
<1>1. \A row \in Rows(room) : \E i : row = of(i)
  BY DEF Rows
<1>2. ASSUME NEW i, of(i).sock \in Still
      PROVE  of(i).inode = of(i).sock
  <2>1. i \in Open
    BY <1>2, StillIs
  <2> QED BY <2>1
<1> HIDE DEF of
<1> QED BY <1>1, <1>2

LEMMA InodesNext ==
  ASSUME Base, StillHeld, StillStays, InodesShown, [Next]_vars PROVE InodesShown'
<1>1. Types
  BY DEF Base
<1>2. \A i \in Still' : i \in Still
  BY DEF StillStays
<1>3. /\ \A row \in loc'.buf : row.sock \in Still => row.inode = row.sock
      /\ loc'.line.sock \in Still => loc'.line.inode = loc'.line.sock
  <2>1. CASE ReadHead
    <3>1. loc'.line.sock = 0 /\ loc'.buf = Rows(Chunk - 1)
      BY <1>1, <2>1, ReadHeadIs, HeadIsLine
    <3>2. 0 \notin Still
      BY <1>1, StillIs
    <3> QED BY <1>1, <3>1, <3>2, RowsShow
  <2>2. CASE ReadFirst \/ ReadNext
    <3>1. Getline
      BY <2>2 DEF ReadFirst, ReadNext
    <3>2. \A row \in Filled : row.sock \in Still => row.inode = row.sock
      <4>1. Filled = loc.buf \/ Filled = Rows(Chunk)
        BY <1>1, FilledIs
      <4>2. CASE Filled = loc.buf
        BY <4>2 DEF InodesShown
      <4>3. CASE Filled = Rows(Chunk)
        BY <1>1, <4>3, RowsShow
      <4> QED BY <4>1, <4>2, <4>3
    <3>3. CASE Filled = {}
      <4>1. loc'.line = loc.line /\ loc'.buf = loc.buf
        BY <1>1, <3>1, <3>3, GetlineIs DEF Types, LocalTypes, Locals
      <4> QED BY <4>1 DEF InodesShown
    <3>4. CASE Filled # {}
      <4>1. loc'.line \in Filled /\ loc'.buf \subseteq Filled
        BY <1>1, <3>1, <3>4, GetlineIs
      <4> QED BY <3>2, <4>1
    <3> QED BY <3>3, <3>4
  <2>3. CASE OpenFile
    <3>1. loc'.line = loc.line /\ loc'.buf = {}
      BY <1>1, <2>3 DEF OpenFile, Types, LocalTypes, Locals
    <3> QED BY <3>1 DEF InodesShown
  <2>4. CASE print_info \/ CloseFile
    <3>1. loc'.line = loc.line /\ loc'.buf = loc.buf
      BY <1>1, <2>4 DEF print_info, CloseFile, Types, LocalTypes, Locals
    <3> QED BY <3>1 DEF InodesShown
  <2>5. CASE loc' = loc
    BY <2>5 DEF InodesShown
  <2>6. CASE \/ World \/ UNCHANGED vars \/ EndOfProgram \/ info_parser \/ pid_factory
             \/ EndOfScan \/ ReadCmdline \/ ListFds \/ EndOfFds \/ ReadLink
    BY <2>5, <2>6 DEF World, vars, EndOfProgram, info_parser, pid_factory, EndOfScan,
       ReadCmdline, ListFds, EndOfFds, ReadLink
  <2> QED BY <2>1, <2>2, <2>3, <2>4, <2>6 DEF Next, Program
<1>4. \A k \in DOMAIN conn_house' :
        conn_house'[k].sock \in Still => conn_house'[k].inode = conn_house'[k].sock
  <2>1. CASE info_parser
    <3>1. NewRow.sock \in Still => NewRow.inode = NewRow.sock
      BY DEF NewRow, InodesShown
    <3> QED BY <1>1, <2>1, <3>1, RowAdded DEF InodesShown
  <2>2. CASE ~info_parser
    BY <2>2, OnlyParserWrites DEF InodesShown
  <2> QED BY <2>1, <2>2
<1> QED BY <1>2, <1>3, <1>4 DEF InodesShown

\* When nothing is opened and no row is added.
LEMMA AllRowsBeside ==
  ASSUME StillStays, AllRows, pc # "lost", conn_house' = conn_house,
         \A f : TimesOpened(f)' = TimesOpened(f),
         \A i \in Still' : i \in Still /\ Owed(i) => Owed(i)'
  PROVE  AllRows'
<1>1. ASSUME NEW i \in Still'
      PROVE  /\ TimesOpened(Family[i])' <= RowsOf(Family[i], i)' + 1
             /\ ~Owed(i)' => TimesOpened(Family[i])' <= RowsOf(Family[i], i)'
  <2>1. i \in Still
    BY DEF StillStays
  <2>2. PICK f : f = Family[i]
    OBVIOUS
  <2>3. RowsOf(f, i)' = RowsOf(f, i) /\ TimesOpened(f)' = TimesOpened(f)
    BY DEF RowsOf
  <2>4. /\ TimesOpened(f) <= RowsOf(f, i) + 1
        /\ ~Owed(i) => TimesOpened(f) <= RowsOf(f, i)
    BY <2>1, <2>2 DEF AllRows
  <2>5. /\ TimesOpened(f)' <= RowsOf(f, i)' + 1
        /\ ~Owed(i)' => TimesOpened(f)' <= RowsOf(f, i)'
    BY <2>1, <2>3, <2>4
  <2> QED BY <2>2, <2>5
<1> QED BY <1>1 DEF AllRows

LEMMA AllRowsOpenFile ==
  ASSUME Types, Types', StillHeld, StillStays, AllRows, OpenFile PROVE AllRows'
<1>1. /\ pc = "pass" /\ pc' \in {"head", "crashed"} /\ conn_house' = conn_house
      /\ loc.pass <= Len(loc.passes) /\ loc.file <= Len(loc.passes[loc.pass])
      /\ loc'.pos = 0
  BY DEF OpenFile, Goto, Types, LocalTypes, Locals
<1>2. SamePlace /\ File' = File
  BY OtherLocals, SameFile
<1>3. ASSUME NEW i \in Still', NEW f, f = Family[i]
      PROVE  /\ TimesOpened(f)' <= RowsOf(f, i)' + 1
             /\ ~Owed(i)' => TimesOpened(f)' <= RowsOf(f, i)'
  <2>1. i \in Still /\ i \in Nat \ {0}
    BY StillIs DEF StillStays
  <2>2. RowsOf(f, i)' = RowsOf(f, i)
    BY <1>1 DEF RowsOf
  <2>3. /\ RowsOf(f, i) \in Nat /\ TimesOpened(f) \in Nat
        /\ TimesOpened(f) <= RowsOf(f, i)
    BY <1>1, <1>3, <2>1, RowsFinite, SlotsFinite DEF AllRows, Owed, Scanning
  <2>4. CASE pc' = "head"
    <3>1. TimesOpened(f)' = IF f = File THEN TimesOpened(f) + 1 ELSE TimesOpened(f)
      BY <1>1, <1>2, <2>4, OneSlot
    <3>2. f = File => Owed(i)'
      BY <1>1, <1>2, <1>3, <2>1, <2>4 DEF Owed, Ahead
    <3> QED BY <2>2, <2>3, <3>1, <3>2
  <2>5. CASE pc' = "crashed"
    <3>1. TimesOpened(f)' = TimesOpened(f)
      BY <1>1, <1>2, <2>5, OneSlot
    <3> QED BY <2>2, <2>3, <3>1
  <2> QED BY <1>1, <2>4, <2>5
<1> QED BY <1>3 DEF AllRows

LEMMA AllRowsCrash ==
  ASSUME Types, Types', StillStays, AllRows, ReadCmdline, pc' = "crashed" PROVE AllRows'
<1>1. pc = "pid" /\ conn_house' = conn_house /\ loc' = loc
  BY DEF ReadCmdline
<1>2. SamePlace /\ loc.pass <= Len(loc.passes) /\ loc.file <= Len(loc.passes[loc.pass])
  BY <1>1 DEF SamePlace, Types, Place, Reading, Scanning
<1>3. ASSUME NEW i \in Still', NEW f, f = Family[i]
      PROVE  /\ TimesOpened(f)' <= RowsOf(f, i)' + 1
             /\ TimesOpened(f)' <= RowsOf(f, i)'
  <2>1. RowsOf(f, i)' = RowsOf(f, i) /\ i \in Still
    BY <1>1 DEF RowsOf, StillStays
  <2>2. TimesOpened(f)' \in Nat
    BY <1>1, <1>2, OneSlot
  <2>3. /\ RowsOf(f, i) \in Nat /\ TimesOpened(f) \in Nat
        /\ TimesOpened(f) <= RowsOf(f, i) + 1
        /\ f # File => TimesOpened(f) <= RowsOf(f, i)
    BY <1>1, <1>3, <2>1, RowsFinite, SlotsFinite DEF AllRows, Owed
  <2>4. TimesOpened(f) = IF f = File THEN TimesOpened(f)' + 1 ELSE TimesOpened(f)'
    BY <1>1, <1>2, OneSlot
  <2> QED BY <2>1, <2>2, <2>3, <2>4
<1> QED BY <1>3 DEF AllRows

LEMMA AllRowsInfoParser ==
  ASSUME Types, Types', StillHeld, StillStays, StartAndEnd, AllRows, info_parser
  PROVE  AllRows'
<1>1. /\ pc = "parse" /\ pc' = (IF loc.eof THEN "close" ELSE "next") /\ loc' = loc
  BY DEF info_parser, Goto
<1>2. \A f : TimesOpened(f)' = TimesOpened(f)
  <2>1. SamePlace
    BY <1>1 DEF SamePlace
  <2> QED BY <1>1, <2>1, TimesWithin DEF Reading
<1>3. File' = File /\ \A i : Ahead(i)' = Ahead(i)
  BY <1>1 DEF File, Ahead
<1>4. ASSUME NEW i \in Still', NEW f, f = Family[i]
      PROVE  /\ TimesOpened(f)' <= RowsOf(f, i)' + 1
             /\ ~Owed(i)' => TimesOpened(f)' <= RowsOf(f, i)'
  <2>1. RowsOf(f, i)' = IF f = File /\ i = loc.line.sock
                        THEN RowsOf(f, i) + 1 ELSE RowsOf(f, i)
    BY OneRowMore
  <2>2. TimesOpened(f)' = TimesOpened(f) /\ i \in Still
    BY <1>2 DEF StillStays
  <2>3. /\ RowsOf(f, i) \in Nat /\ TimesOpened(f) \in Nat
        /\ TimesOpened(f) <= RowsOf(f, i) + 1
        /\ ~Owed(i) => TimesOpened(f) <= RowsOf(f, i)
    BY <1>1, <1>4, <2>2, RowsFinite, SlotsFinite DEF AllRows
  <2>4. CASE f = File /\ i = loc.line.sock
    BY <2>1, <2>2, <2>3, <2>4
  <2>5. CASE ~(f = File /\ i = loc.line.sock)
    <3>1. Owed(i) => f = File /\ Ahead(i)
      BY <1>1, <1>4, <2>5 DEF Owed
    <3>2. Owed(i) => ~loc.eof
      BY <1>1, <1>4, <2>2, <3>1 DEF StartAndEnd
    <3>3. Owed(i) => Owed(i)'
      BY <1>1, <1>3, <1>4, <3>1, <3>2 DEF Owed
    <3> QED BY <2>1, <2>2, <2>3, <2>5, <3>3
  <2> QED BY <2>4, <2>5
<1> QED BY <1>4 DEF AllRows

LEMMA AllRowsReading ==
  ASSUME Types, Types', Ordered, StillHeld, StillStays, StartAndEnd, AllRows,
         ReadHead \/ ReadFirst \/ ReadNext
  PROVE  AllRows'
<1>1. /\ pc \in Reading /\ pc' \in Reading /\ conn_house' = conn_house
  BY DEF ReadHead, ReadFirst, ReadNext, Goto, Reading, Scanning
<1>2. SamePlace
  BY GetlineIs, ReadHeadIs DEF ReadFirst, ReadNext
<1>3. \A f : TimesOpened(f)' = TimesOpened(f)
  BY <1>1, <1>2, TimesWithin
<1>4. File' = File
  BY <1>2, SameFile
<1>5. ASSUME NEW i \in Still', i \in Still, Owed(i)
      PROVE  Owed(i)'
  <2>1. i \in Open /\ i \in Nat \ {0} /\ Family[i] = File
    BY <1>5, StillIs DEF Owed
  <2>2. CASE ReadHead
    <3>1. pc = "head" /\ pc' = "first" /\ loc.pos = 0
      BY <2>2 DEF ReadHead, Goto, StartAndEnd
    <3>2. i > loc.pos
      BY <2>1, <3>1
    <3> QED BY <1>4, <2>1, <2>2, <3>1, <3>2, ReadHeadAhead DEF Owed
  <2>3. CASE ReadFirst \/ ReadNext
    <3>1. Getline /\ pc \in {"first", "next"}
      BY <2>3 DEF ReadFirst, ReadNext
    <3>2. InOrder /\ Ahead(i)
      BY <1>5, <3>1 DEF Owed, Ordered, Reading, Scanning
    <3>3. Filled # {} /\ (loc'.line.sock = i \/ Ahead(i)')
      BY <2>1, <3>1, <3>2, GetlineAhead
    <3>4. pc' \in Scanning \cup {"parse"}
      BY <2>3, <3>3 DEF ReadFirst, ReadNext, Goto, Scanning
    <3> QED BY <1>4, <2>1, <3>3, <3>4 DEF Owed
  <2> QED BY <2>2, <2>3
<1>6. pc # "lost"
  BY <1>1 DEF Reading, Scanning
<1> QED BY <1>1, <1>3, <1>5, <1>6, AllRowsBeside

LEMMA AllRowsScanning ==
  ASSUME Types, Types', StillStays, AllRows, pc' # "crashed",
         \/ pid_factory \/ EndOfScan \/ ReadCmdline \/ ListFds \/ EndOfFds
         \/ ReadLink /\ pc' \in {"link", "lost"}
  PROVE  AllRows'
<1>1. /\ pc \in Scanning /\ pc' \in Scanning \cup {"parse", "lost"}
      /\ conn_house' = conn_house /\ loc' = loc
  BY DEF pid_factory, EndOfScan, ReadCmdline, ListFds, EndOfFds, ReadLink, Goto, Scanning
<1>2. SamePlace /\ File' = File /\ \A i : Ahead(i)' = Ahead(i)
  BY <1>1 DEF SamePlace, File, Ahead
<1>3. \A f : TimesOpened(f)' = TimesOpened(f)
  BY <1>1, <1>2, TimesWithin DEF Reading
<1>4. CASE pc' = "lost"
  BY <1>4 DEF AllRows
<1>5. CASE pc' # "lost"
  <2>1. pc' \in Scanning \cup {"parse"} /\ pc # "lost"
    BY <1>1, <1>5 DEF Scanning
  <2>2. \A i : Owed(i) => Owed(i)'
    BY <1>1, <1>2, <2>1 DEF Owed, Scanning
  <2> QED BY <1>1, <1>3, <2>1, <2>2, AllRowsBeside
<1> QED BY <1>4, <1>5

LEMMA AllRowsNext ==
  ASSUME Base, Ordered, StillHeld, StillStays, StartAndEnd, AllRows, [Next]_vars
  PROVE  AllRows'
<1>1. Types
  BY DEF Base
<1>2. Types'
  BY BaseNext DEF Base
<1>3. CASE World \/ UNCHANGED vars
  <2>1. pc' = pc /\ loc' = loc /\ conn_house' = conn_house
    BY <1>3 DEF World, vars
  <2>2. \A f : TimesOpened(f)' = TimesOpened(f)
    <3>1. \A k \in 1 .. Len(loc.passes) : Opened(k)' = Opened(k)
      BY <2>1 DEF Opened
    <3> QED BY <1>1, <1>2, <2>1, <3>1, SameOpened
  <2>3. \A i : Owed(i) => Owed(i)'
    BY <2>1 DEF Owed, Ahead, File
  <2>4. CASE pc = "lost"
    BY <2>1, <2>4 DEF AllRows
  <2>5. CASE pc # "lost"
    BY <2>1, <2>2, <2>3, <2>5, AllRowsBeside
  <2> QED BY <2>4, <2>5
<1>4. CASE print_info \/ CloseFile \/ EndOfProgram
  <2>1. \A f : TimesOpened(f)' = TimesOpened(f)
    BY <1>1, <1>2, <1>4, TimesBetween
  <2>2. pc \in {"pass", "close"} /\ conn_house' = conn_house
    BY <1>4 DEF print_info, Printing, CloseFile, EndOfProgram
  <2>3. \A i : ~Owed(i)
    BY <2>2 DEF Owed, Scanning
  <2> QED BY <1>1, <2>1, <2>2, <2>3, AllRowsBeside
<1>5. CASE OpenFile
  BY <1>1, <1>2, <1>5, AllRowsOpenFile
<1>6. CASE ReadHead \/ ReadFirst \/ ReadNext
  BY <1>1, <1>2, <1>6, AllRowsReading
<1>7. CASE info_parser
  BY <1>1, <1>2, <1>7, AllRowsInfoParser
<1>8. CASE ReadCmdline /\ pc' = "crashed"
  BY <1>1, <1>2, <1>8, AllRowsCrash
<1>9. CASE ReadLink
  <2>1. pc' \in {"link", "lost"}
    BY <1>1, <1>9, ReadLinkIs DEF Base, Underway, ReadLink
  <2> QED BY <1>1, <1>2, <1>9, <2>1, AllRowsScanning
<1>10. CASE /\ pid_factory \/ EndOfScan \/ ReadCmdline \/ ListFds \/ EndOfFds
            /\ pc' # "crashed"
  BY <1>1, <1>2, <1>10, AllRowsScanning
<1>11. pid_factory \/ EndOfScan \/ ListFds \/ EndOfFds => pc' # "crashed"
  BY DEF pid_factory, EndOfScan, ListFds, EndOfFds, Goto
<1> QED BY <1>3, <1>4, <1>5, <1>6, <1>7, <1>8, <1>9, <1>10, <1>11 DEF Next, Program

-----------------------------------------------------------------------------
(* And in its row, an owner.                                                *)

Entered(p, i) ==
  \E k \in DOMAIN pid_house : /\ pid_house[k].pid = p
                              /\ \E j \in DOMAIN pid_house[k].inodes :
                                   pid_house[k].inodes[j] = i

\* Who is looked at by the scan and has the socket i.
Seen(i) == {p \in held[i] \ Foreign : p = First(i) \/ Met(p)}

EntriesStarted == \A k \in DOMAIN pid_house : life[pid_house[k].pid] # "none"

\* Rows are parsed after the scan.
ScanFirst ==
  /\ pc \in {"parse", "next"} => scan.done
  /\ ~scan.done => conn_house = <<>>
  /\ scan.done => scan.todo = {}

\* Whoever has a socket from the start is scanned.
FirstMet ==
  scan.done \/ pc \in {"pid", "fds", "link"} =>
    \A i \in Still : First(i) \in scan.todo \/ Met(First(i))

\* The sockets of whom the user may look at are in its entry, or are going to be.
SocketsFound ==
  pc # "lost" =>
    \A i \in Still : \A p \in held[i] \ Foreign :
      Met(p) => \/ Entered(p, i)
                \/ pc = "fds" /\ p = Looking
                \/ pc = "link" /\ p = Looking /\ \E f \in scan.fds : fds[p][f] = i

RowsOwned ==
  \A k \in DOMAIN conn_house :
    conn_house[k].sock \in Still /\ Seen(conn_house[k].sock) # {} => conn_house[k].owner # 0

LEMMA StillHolder ==
  ASSUME Types, StillHeld, NEW i \in Still, NEW p \in held[i]
  PROVE  /\ p \in Pids /\ life[p] = "run" /\ ~Ended(p) /\ Exists(p)
         /\ \E f \in 1 .. MaxFd : fds[p][f] = i
<1>1. p \in Pids
  BY DEF Types, WorldInv, WorldTypes, Still
<1>2. life[p] = "run" /\ i \in SocketsOf(p)
  BY DEF StillHeld
<1> QED BY <1>1, <1>2 DEF SocketsOf, Ended, Exists

\* While a holder is looked at, the last entry is its own.
LEMMA LookedAtLast ==
  ASSUME Types, StillHeld, ScanInv, pc \in {"fds", "link"}, NEW i \in Still, Looking \in held[i]
  PROVE  /\ pid_house # <<>> /\ Len(pid_house) \in DOMAIN pid_house
         /\ pid_house[Len(pid_house)].pid = Looking /\ Met(Looking)
<1>1. ~Ended(Looking)
  BY StillHolder
<1>2. pid_house # <<>> /\ pid_house[Len(pid_house)].pid = Looking
  BY <1>1 DEF ScanInv, EntryHasRoom
<1>3. Len(pid_house) \in DOMAIN pid_house
  <2>1. pid_house \in Seq(Houses)
    BY DEF Types, ListTypes
  <2> QED BY <1>2, <2>1, EmptySeq, LenProperties
<1> QED BY <1>2, <1>3 DEF Met

LEMMA EntriesStartedNext ==
  ASSUME Base, EntriesStarted, [Next]_vars PROVE EntriesStarted'
<1>1. Types /\ Onward
  BY StepGoesOn DEF Base
<1>2. \A k \in DOMAIN pid_house : life'[pid_house[k].pid] # "none"
  <2>1. \A p \in Pids : life[p] # "none" => life'[p] # "none"
    BY <1>1 DEF Onward
  <2>2. \A k \in DOMAIN pid_house : pid_house[k].pid \in Pids
    BY <1>1, HousesAre
  <2> QED BY <2>1, <2>2 DEF EntriesStarted
<1>3. CASE pid_house' = pid_house
  BY <1>2, <1>3 DEF EntriesStarted
<1>4. CASE ReadCmdline /\ pid_house' # pid_house
  <2>1. /\ scan.todo # {} /\ pid_house' = Append(pid_house, [pid |-> Looking, inodes |-> <<>>])
        /\ life[Looking] = "run" /\ life' = life
    BY <1>4 DEF ReadCmdline, world
  <2>2. Looking \in Pids
    BY <1>1, <2>1, LookingIs
  <2>3. /\ DOMAIN pid_house' = DOMAIN pid_house \cup {Len(pid_house')}
        /\ \A k \in DOMAIN pid_house : pid_house'[k] = pid_house[k]
        /\ pid_house'[Len(pid_house')].pid = Looking
    BY <1>1, <2>1, <2>2, HouseAdded
  <2> QED BY <1>2, <2>1, <2>3 DEF EntriesStarted
<1>5. CASE ReadLink /\ pid_house' # pid_house
  <2>1. PICK inode \in Inodes :
          /\ pid_house # <<>>
          /\ pid_house' = [pid_house EXCEPT ![Len(pid_house)].inodes = Append(@, inode)]
    BY <1>1, <1>5, ReadLinkIs DEF Base, Underway, ReadLink
  <2>2. DOMAIN pid_house' = DOMAIN pid_house
        /\ \A k \in DOMAIN pid_house : pid_house'[k].pid = pid_house[k].pid
    BY <1>1, <2>1, HouseGrown
  <2> QED BY <1>2, <2>2 DEF EntriesStarted
<1> QED BY <1>3, <1>4, <1>5, OnlyScanWrites

LEMMA ScanFirstNext ==
  ASSUME Base, ScanInv, ScanFirst, [Next]_vars PROVE ScanFirst'
<1>1. Types /\ scan \in Scans
  BY DEF Base, Types, LocalTypes
<1>2. CASE World \/ UNCHANGED vars
  BY <1>2 DEF World, vars, ScanFirst
<1>3. CASE OpenFile \/ print_info \/ EndOfProgram \/ ReadHead \/ CloseFile
  <2>1. /\ scan' = scan /\ conn_house' = conn_house
        /\ pc' \in {"head", "crashed", "pass", "done", "first"}
    BY <1>3 DEF OpenFile, print_info, Printing, EndOfProgram, ReadHead, CloseFile, Goto
  <2> QED BY <2>1 DEF ScanFirst
<1>4. CASE ReadFirst \/ ReadNext \/ info_parser
  BY <1>4 DEF ReadFirst, ReadNext, info_parser, Goto, ScanFirst
<1>5. CASE pid_factory \/ ListFds \/ EndOfFds
  <2>1. /\ pc \in Scanning /\ pc' \in Scanning /\ conn_house' = conn_house
        /\ scan'.done = scan.done
    BY <1>1, <1>5 DEF pid_factory, ListFds, EndOfFds, Goto, Scanning, Scans
  <2>2. ~scan.done
    BY <2>1 DEF ScanInv, ListOrdered
  <2> QED BY <2>1, <2>2 DEF ScanFirst, Scanning
<1>6. CASE EndOfScan
  <2>1. scan'.done /\ scan'.todo = {} /\ conn_house' = conn_house
    BY <1>1, <1>6 DEF EndOfScan, Scans
  <2> QED BY <2>1 DEF ScanFirst
<1>7. CASE ReadCmdline
  <2>1. scan' = scan /\ conn_house' = conn_house /\ pc' \in {"fds", "crashed"}
    BY <1>7 DEF ReadCmdline, Goto
  <2> QED BY <2>1 DEF ScanFirst
<1>8. CASE ReadLink
  <2>1. /\ pc = "link" /\ pc' \in {"link", "lost"} /\ conn_house' = conn_house
        /\ scan'.done = scan.done
    BY <1>1, <1>8, ReadLinkIs DEF Base, Underway, ReadLink, Scans
  <2>2. ~scan.done
    BY <2>1 DEF ScanInv, ListOrdered, Scanning
  <2> QED BY <2>1, <2>2 DEF ScanFirst
<1> QED BY <1>2, <1>3, <1>4, <1>5, <1>6, <1>7, <1>8 DEF Next, Program

\* Where the list stands, nobody is met who was not.
LEMMA SameMet ==
  ASSUME pid_house' = pid_house
  PROVE  \A p, i : Met(p)' = Met(p) /\ Entered(p, i)' = Entered(p, i)
BY DEF Met, Entered

\* A new entry.
LEMMA OneMet ==
  ASSUME Types, NEW q \in Pids,
         pid_house' = Append(pid_house, [pid |-> q, inodes |-> <<>>])
  PROVE  \A p, i : /\ Met(p)' <=> Met(p) \/ p = q
                   /\ Entered(p, i) => Entered(p, i)'
<1>1. /\ DOMAIN pid_house' = DOMAIN pid_house \cup {Len(pid_house')}
      /\ \A k \in DOMAIN pid_house : pid_house'[k] = pid_house[k]
      /\ pid_house'[Len(pid_house')].pid = q
  BY HouseAdded
<1> QED BY <1>1 DEF Met, Entered

\* One socket more for the last.
LEMMA OneEntered ==
  ASSUME Types, pid_house # <<>>, NEW inode \in Inodes,
         pid_house' = [pid_house EXCEPT ![Len(pid_house)].inodes = Append(@, inode)]
  PROVE  /\ \A p, i : Met(p)' = Met(p) /\ (Entered(p, i) => Entered(p, i)')
         /\ \A p : p = pid_house[Len(pid_house)].pid => Entered(p, inode)'
<1> DEFINE last == Len(pid_house)
           old == pid_house[last].inodes
           new == pid_house'[last].inodes
<1>1. /\ DOMAIN pid_house' = DOMAIN pid_house
      /\ \A k \in DOMAIN pid_house : pid_house'[k].pid = pid_house[k].pid
      /\ \A k \in DOMAIN pid_house : k # last => pid_house'[k].inodes = pid_house[k].inodes
      /\ last \in DOMAIN pid_house
  BY HouseGrown
<1>2. old \in Seq(Inodes) /\ DOMAIN old = 1 .. Len(old)
  BY <1>1, HousesAre
<1>3. new = Append(old, inode)
  <2>1. pid_house[last] \in Houses
    BY <1>1, HousesAre
  <2> DEFINE house == [pid_house[last] EXCEPT !.inodes = Append(@, inode)]
  <2>2. house.inodes = Append(old, inode)
    BY <2>1 DEF Houses
  <2>3. pid_house' = [pid_house EXCEPT ![last] = house]
    OBVIOUS
  <2> HIDE DEF house
  <2>4. pid_house'[last] = house
    BY <1>1, <2>3
  <2> QED BY <2>2, <2>4
<1> HIDE DEF old, new
<1>4. /\ \A j \in 1 .. Len(old) : new[j] = old[j]
      /\ new[Len(old) + 1] = inode /\ DOMAIN new = 1 .. Len(old) + 1
      /\ Len(old) \in Nat
  <2>1. /\ new \in Seq(Inodes) /\ Len(new) = Len(old) + 1
        /\ \A j \in 1 .. Len(old) : new[j] = old[j]
        /\ new[Len(old) + 1] = inode
    BY <1>2, <1>3, AppendProperties
  <2> QED BY <1>2, <2>1, LenProperties
<1>5. \A j \in DOMAIN old : j \in DOMAIN new /\ new[j] = old[j]
  BY <1>2, <1>4
<1>6. \E j \in DOMAIN new : new[j] = inode
  BY <1>4
<1>7. \A p : Met(p)' = Met(p)
  BY <1>1 DEF Met
<1>8. ASSUME NEW p, NEW i, Entered(p, i)
      PROVE  Entered(p, i)'
  <2>1. PICK k \in DOMAIN pid_house :
          /\ pid_house[k].pid = p
          /\ \E j \in DOMAIN pid_house[k].inodes : pid_house[k].inodes[j] = i
    BY <1>8 DEF Entered
  <2>2. \E j \in DOMAIN pid_house'[k].inodes : pid_house'[k].inodes[j] = i
    <3>1. CASE k = last
      BY <1>5, <2>1, <3>1 DEF old, new
    <3>2. CASE k # last
      BY <1>1, <2>1, <3>2
    <3> QED BY <3>1, <3>2
  <2> QED BY <1>1, <2>1, <2>2 DEF Entered
<1>9. \A p : p = pid_house[last].pid => Entered(p, inode)'
  BY <1>1, <1>6 DEF Entered, new
<1> QED BY <1>7, <1>8, <1>9

LEMMA FirstMetBeside ==
  ASSUME StillStays, FirstMet,
         scan'.done \/ pc' \in {"pid", "fds", "link"} =>
           scan.done \/ pc \in {"pid", "fds", "link"},
         \A i \in Still : \A p : p = First(i) /\ p \in scan.todo => p \in scan'.todo \/ Met(p)',
         \A p : Met(p) => Met(p)'
  PROVE  FirstMet'
<1> SUFFICES ASSUME scan'.done \/ pc' \in {"pid", "fds", "link"}, NEW i \in Still'
             PROVE  First(i)' \in scan'.todo \/ Met(First(i))'
  BY DEF FirstMet
<1>1. PICK p : p = First(i)
  OBVIOUS
<1>2. i \in Still /\ First(i)' = p
  BY <1>1 DEF StillStays
<1>3. p \in scan.todo \/ Met(p)
  BY <1>1, <1>2 DEF FirstMet
<1>4. p \in scan'.todo \/ Met(p)'
  BY <1>1, <1>2, <1>3
<1> QED BY <1>2, <1>4 DEF Met

LEMMA FirstMetNext ==
  ASSUME Base, StillHeld, StillStays, ScanInv, FirstMet, [Next]_vars PROVE FirstMet'
<1>1. Types /\ scan \in Scans
  BY DEF Base, Types, LocalTypes
<1>2. CASE /\ scan' = scan /\ pid_house' = pid_house
           /\ pc' \in {"pid", "fds", "link"} => pc \in {"pid", "fds", "link"}
  BY <1>2, SameMet, FirstMetBeside
<1>3. CASE \/ World \/ UNCHANGED vars \/ OpenFile \/ print_info \/ EndOfProgram \/ ReadHead
           \/ ReadFirst \/ ReadNext \/ CloseFile \/ info_parser
  <2>1. /\ scan' = scan /\ pid_house' = pid_house
        /\ \/ pc' = pc
           \/ pc' \in {"head", "crashed", "pass", "done", "first", "scan", "parse", "close",
                      "next"}
    BY <1>3 DEF World, vars, OpenFile, print_info, EndOfProgram, ReadHead,
       ReadFirst, ReadNext, CloseFile, info_parser, Goto
  <2> QED BY <1>2, <2>1
<1>4. CASE pid_factory
  <2>1. scan'.todo = {p \in Pids : Exists(p)}
    BY <1>1, <1>4 DEF pid_factory, Scans
  <2>2. ASSUME NEW i \in Still'
        PROVE  First(i)' \in scan'.todo
    <3>1. i \in Still /\ First(i)' = First(i)
      BY DEF StillStays
    <3>2. First(i) \in held[i]
      BY <1>1, <3>1, FirstIs DEF Types, Still
    <3>3. First(i) \in Pids /\ Exists(First(i))
      BY <1>1, <3>1, <3>2, StillHolder
    <3> QED BY <2>1, <3>1, <3>3
  <2> QED BY <2>2 DEF FirstMet
<1>5. CASE EndOfScan
  <2>1. /\ pc = "pid" /\ scan'.todo = scan.todo /\ pid_house' = pid_house
    BY <1>1, <1>5 DEF EndOfScan, Scans
  <2> QED BY <2>1, SameMet, FirstMetBeside
<1>6. CASE ReadCmdline
  <2>1. pc = "pid" /\ scan' = scan /\ scan.todo # {}
    BY <1>6 DEF ReadCmdline
  <2>2. \/ pid_house' = pid_house
        \/ pid_house' = Append(pid_house, [pid |-> Looking, inodes |-> <<>>])
    BY <1>6 DEF ReadCmdline
  <2>3. \A p : Met(p) => Met(p)'
    BY <1>1, <2>1, <2>2, LookingIs, SameMet, OneMet
  <2> QED BY <2>1, <2>3, FirstMetBeside
<1>7. CASE ListFds \/ EndOfFds
  <2>1. /\ pc \in {"fds", "link"} /\ pid_house' = pid_house
        /\ scan'.todo = scan.todo \/ scan'.todo = scan.todo \ {Looking}
    BY <1>1, <1>7 DEF ListFds, EndOfFds, Scans
  <2>2. ASSUME NEW i \in Still, NEW p, p = First(i), p \in scan.todo
        PROVE  p \in scan'.todo \/ Met(p)'
    <3>1. CASE p # Looking
      BY <2>1, <2>2, <3>1
    <3>2. CASE p = Looking
      <4>1. p \in held[i]
        BY <1>1, <2>2, FirstIs DEF Types, Still
      <4>2. Met(p)
        BY <1>1, <2>1, <3>2, <4>1, LookedAtLast
      <4> QED BY <2>1, <4>2, SameMet
    <3> QED BY <3>1, <3>2
  <2> QED BY <2>1, <2>2, SameMet, FirstMetBeside
<1>8. CASE ReadLink
  <2>1. PICK f \in scan.fds :
          /\ pc = "link" /\ scan' = [scan EXCEPT !.fds = @ \ {f}]
          /\ \/ pid_house' = pid_house
             \/ /\ pid_house # <<>> /\ fds[Looking][f] \in Inodes
                /\ pid_house' = [pid_house EXCEPT ![Len(pid_house)].inodes
                                                    = Append(@, fds[Looking][f])]
    BY <1>1, <1>8, ReadLinkIs DEF Base, Underway, ReadLink
  <2>2. scan'.todo = scan.todo
    BY <1>1, <2>1 DEF Scans
  <2>3. \A p : Met(p) => Met(p)'
    BY <1>1, <2>1, SameMet, OneEntered
  <2> QED BY <2>1, <2>2, <2>3, FirstMetBeside
<1> QED BY <1>3, <1>4, <1>5, <1>6, <1>7, <1>8 DEF Next, Program

\* Where nothing is looked at: what is met has been entered.
LEMMA FoundStands ==
  ASSUME SocketsFound, pc \notin {"fds", "link", "lost"}, UNCHANGED <<world, pid_house>>
  PROVE  SocketsFound'
<1>1. Still' = Still /\ held' = held
  BY DEF world, Still
<1>2. \A p, i : Met(p)' = Met(p) /\ Entered(p, i)' = Entered(p, i)
  BY SameMet
<1>3. \A i \in Still : \A p \in held[i] \ Foreign : Met(p) => Entered(p, i)
  BY DEF SocketsFound
<1>4. \A i \in Still' : \A p \in held'[i] \ Foreign : Met(p)' => Entered(p, i)'
  BY <1>1, <1>2, <1>3
<1> QED BY <1>4 DEF SocketsFound

LEMMA FoundWorld ==
  ASSUME Types, StillStays, EntriesStarted, SocketsFound, UNCHANGED <<pc, scan, pid_house>>
  PROVE  SocketsFound'
<1> SUFFICES ASSUME pc # "lost", NEW i \in Still', NEW p \in held'[i] \ Foreign, Met(p)'
             PROVE  \/ Entered(p, i)'
                    \/ pc' = "fds" /\ p = Looking'
                    \/ pc' = "link" /\ p = Looking' /\ \E f \in scan'.fds : fds'[p][f] = i
  BY DEF SocketsFound
<1>1. Met(p) /\ Entered(p, i)' = Entered(p, i) /\ Looking' = Looking
  BY SameMet DEF Looking
<1>2. life[p] # "none"
  BY <1>1 DEF Met, EntriesStarted
<1>3. i \in Still /\ p \in held[i]
  BY <1>2 DEF StillStays
<1>4. \/ Entered(p, i)
      \/ pc = "fds" /\ p = Looking
      \/ pc = "link" /\ p = Looking /\ \E f \in scan.fds : fds[p][f] = i
  BY <1>1, <1>3 DEF SocketsFound
<1>5. \A f \in scan.fds : f \in 1 .. MaxFd
  BY DEF Types, LocalTypes, Scans
<1>6. \A f \in scan.fds : fds[p][f] = i => fds'[p][f] = i
  BY <1>3, <1>5 DEF StillStays
<1> QED BY <1>1, <1>4, <1>6

LEMMA FoundReadCmdline ==
  ASSUME Types, StillHeld, SocketsFound, ReadCmdline PROVE SocketsFound'
<1>1. /\ pc = "pid" /\ scan.todo # {} /\ UNCHANGED <<world, scan>>
      /\ pc' = IF Exists(Looking) THEN "fds" ELSE "crashed"
      /\ \/ pid_house' = pid_house
         \/ pid_house' = Append(pid_house, [pid |-> Looking, inodes |-> <<>>])
  BY DEF ReadCmdline, Goto
<1>2. Still' = Still /\ held' = held /\ Looking' = Looking
  BY <1>1 DEF world, Still, Looking
<1>3. Looking \in Pids
  BY <1>1, LookingIs
<1>4. \A p, i : /\ Met(p)' => Met(p) \/ p = Looking
                /\ Entered(p, i) => Entered(p, i)'
  BY <1>1, <1>3, SameMet, OneMet
<1>5. ASSUME NEW i \in Still, NEW p \in held[i] \ Foreign, Met(p)'
      PROVE  Entered(p, i)' \/ (pc' = "fds" /\ p = Looking)
  <2>1. CASE p = Looking
    <3>1. Exists(p)
      BY StillHolder
    <3> QED BY <1>1, <2>1, <3>1
  <2>2. CASE p # Looking
    <3>1. Met(p)
      BY <1>4, <1>5, <2>2
    <3>2. Entered(p, i)
      BY <1>1, <3>1 DEF SocketsFound
    <3> QED BY <1>4, <3>2
  <2> QED BY <2>1, <2>2
<1> QED BY <1>2, <1>5 DEF SocketsFound

LEMMA FoundListFds ==
  ASSUME Types, StillHeld, SocketsFound, ListFds PROVE SocketsFound'
<1>1. /\ pc = "fds" /\ UNCHANGED <<world, pid_house>> /\ scan \in Scans
      /\ Exists(Looking) /\ Looking \notin Foreign =>
           /\ scan' = [scan EXCEPT !.fds = {f \in 1 .. MaxFd : fds[Looking][f] # 0}]
           /\ pc' = "link"
  BY DEF ListFds, Goto, Types, LocalTypes
<1>2. Still' = Still /\ held' = held /\ fds' = fds
  BY <1>1 DEF world, Still
<1>3. \A p, i : Met(p)' = Met(p) /\ Entered(p, i)' = Entered(p, i)
  BY <1>1, SameMet
<1>4. ASSUME NEW i \in Still, NEW p \in held[i] \ Foreign, Met(p), ~Entered(p, i)
      PROVE  pc' = "link" /\ p = Looking' /\ \E f \in scan'.fds : fds[p][f] = i
  <2>1. p = Looking
    BY <1>1, <1>4 DEF SocketsFound
  <2>2. Exists(p) /\ \E f \in 1 .. MaxFd : fds[p][f] = i
    BY StillHolder
  <2>3. /\ scan' = [scan EXCEPT !.fds = {f \in 1 .. MaxFd : fds[p][f] # 0}]
        /\ pc' = "link"
    BY <1>1, <2>1, <2>2
  <2>4. scan'.fds = {f \in 1 .. MaxFd : fds[p][f] # 0} /\ scan'.todo = scan.todo
    BY <1>1, <2>3 DEF Scans
  <2>5. i # 0
    BY StillIs
  <2> QED BY <2>1, <2>2, <2>3, <2>4, <2>5 DEF Looking
<1> QED BY <1>2, <1>3, <1>4 DEF SocketsFound

LEMMA FoundEndOfFds ==
  ASSUME SocketsFound, EndOfFds PROVE SocketsFound'
<1>1. pc = "link" /\ UNCHANGED <<world, pid_house>> /\ scan.fds = {}
  BY DEF EndOfFds
<1>2. Still' = Still /\ held' = held
  BY <1>1 DEF world, Still
<1>3. \A p, i : Met(p)' = Met(p) /\ Entered(p, i)' = Entered(p, i)
  BY <1>1, SameMet
<1>4. \A i \in Still : \A p \in held[i] \ Foreign : Met(p) => Entered(p, i)
  BY <1>1 DEF SocketsFound
<1>5. \A i \in Still' : \A p \in held'[i] \ Foreign : Met(p)' => Entered(p, i)'
  BY <1>2, <1>3, <1>4
<1> QED BY <1>5 DEF SocketsFound

LEMMA FoundReadLink ==
  ASSUME Base, StillHeld, ScanInv, SocketsFound, ReadLink PROVE SocketsFound'
<1>1. Types /\ scan.todo # {} /\ scan \in Scans
  BY DEF Base, Underway, ReadLink, Types, LocalTypes
<1>2. PICK f \in scan.fds :
        /\ pc = "link" /\ UNCHANGED world
        /\ scan' = [scan EXCEPT !.fds = @ \ {f}]
        /\ \/ pc' = pc /\ pid_house' = pid_house /\ fds[Looking][f] = 0
           \/ pc' = "lost"
           \/ /\ pc' = pc /\ pid_house # <<>> /\ fds[Looking][f] \in Inodes
              /\ pid_house' = [pid_house EXCEPT ![Len(pid_house)].inodes
                                                  = Append(@, fds[Looking][f])]
  <2> DEFINE f == Min(scan.fds)
  <2>1. scan.fds \subseteq 1 .. MaxFd /\ scan.fds # {}
    BY <1>1 DEF Scans, ReadLink
  <2>2. f \in scan.fds
    <3>1. scan.fds \subseteq Nat
      BY <2>1
    <3> QED BY <2>1, <3>1, MinIs
  <2>3. Looking \in Pids
    BY <1>1, LookingIs
  <2>4. fds[Looking][f] \in {0} \cup Inodes
    BY <1>1, <2>1, <2>2, <2>3 DEF Types, WorldInv, WorldTypes
  <2>5. /\ pc = "link" /\ UNCHANGED world
        /\ scan' = [scan EXCEPT !.fds = @ \ {f}]
        /\ IF fds[Looking][f] = 0 THEN pc' = pc /\ pid_house' = pid_house
           ELSE store_inode(fds[Looking][f])
    BY DEF ReadLink
  <2> HIDE DEF f
  <2>6. CASE fds[Looking][f] = 0
    BY <2>2, <2>5, <2>6
  <2>7. CASE fds[Looking][f] # 0
    BY <2>2, <2>4, <2>5, <2>7 DEF store_inode, Goto
  <2> QED BY <2>6, <2>7
<1>3. Still' = Still /\ held' = held /\ fds' = fds
  BY <1>2 DEF world, Still
<1>4. scan'.fds = scan.fds \ {f} /\ Looking' = Looking
  <2>1. scan'.fds = scan.fds \ {f} /\ scan'.todo = scan.todo
    BY <1>1, <1>2 DEF Scans
  <2> QED BY <2>1 DEF Looking
<1>5. CASE pc' = "lost"
  BY <1>5 DEF SocketsFound
<1>6. ASSUME pc' # "lost", NEW i \in Still, NEW p \in held[i] \ Foreign, Met(p)'
      PROVE  Entered(p, i)' \/ (p = Looking /\ \E g \in scan'.fds : fds[p][g] = i)
  <2>1. Met(p) /\ (Entered(p, i) => Entered(p, i)')
    BY <1>1, <1>2, <1>6, SameMet, OneEntered
  <2>2. CASE Entered(p, i)
    BY <2>1, <2>2
  <2>3. CASE ~Entered(p, i)
    <3>1. p = Looking
      BY <1>2, <2>1, <2>3 DEF SocketsFound
    <3>2. PICK g \in scan.fds : fds[p][g] = i
      BY <1>2, <2>1, <2>3 DEF SocketsFound
    <3>3. CASE g # f
      BY <1>4, <3>1, <3>2, <3>3
    <3>4. CASE g = f
      <4>1. fds[Looking][f] = i /\ i # 0
        BY <1>1, <3>1, <3>2, <3>4, StillIs
      <4>2. /\ pid_house # <<>> /\ i \in Inodes
            /\ pid_house' = [pid_house EXCEPT ![Len(pid_house)].inodes = Append(@, i)]
        BY <1>2, <1>6, <4>1
      <4>3. p = pid_house[Len(pid_house)].pid
        BY <1>1, <1>2, <3>1, LookedAtLast
      <4>4. Entered(p, i)'
        BY <1>1, <4>2, <4>3, OneEntered
      <4> QED BY <4>4
    <3> QED BY <3>3, <3>4
  <2> QED BY <2>2, <2>3
<1>7. CASE pc' # "lost"
  <2>1. pc' = "link"
    BY <1>2, <1>7
  <2> QED BY <1>3, <1>4, <1>6, <1>7, <2>1 DEF SocketsFound
<1> QED BY <1>5, <1>7

LEMMA FoundNext ==
  ASSUME Base, StillHeld, StillStays, ScanInv, EntriesStarted, SocketsFound, [Next]_vars
  PROVE  SocketsFound'
<1>1. Types
  BY DEF Base
<1>2. CASE World \/ UNCHANGED vars
  BY <1>1, <1>2, FoundWorld DEF World, vars
<1>3. CASE \/ OpenFile \/ print_info \/ EndOfProgram \/ ReadHead \/ ReadFirst \/ ReadNext
           \/ CloseFile \/ info_parser \/ pid_factory \/ EndOfScan
  BY <1>3, FoundStands DEF OpenFile, print_info, Printing, EndOfProgram, ReadHead, ReadFirst,
     ReadNext, CloseFile, info_parser, pid_factory, EndOfScan
<1> QED BY <1>1, <1>2, <1>3, FoundReadCmdline, FoundListFds, FoundEndOfFds, FoundReadLink
        DEF Next, Program

LEMMA OwnerNamed ==
  ASSUME Types, NEW p, NEW i, Entered(p, i)
  PROVE  get_connection_owner(i) # 0
<1> DEFINE owners == Owners(i)
<1>1. owners # {} /\ owners \subseteq DOMAIN pid_house
  BY DEF Owners, Entered
<1>2. owners \subseteq Nat
  BY <1>1, HousesAre
<1>3. get_connection_owner(i) = pid_house[Min(owners)].pid
  BY <1>1 DEF get_connection_owner
<1> HIDE DEF owners
<1>4. Min(owners) \in DOMAIN pid_house
  BY <1>1, <1>2, MinIs
<1>5. get_connection_owner(i) \in Pids
  BY <1>3, <1>4, HousesAre
<1> QED BY <1>5, NatPids

LEMMA RowsOwnedNext ==
  ASSUME Base, StillHeld, StillStays, ScanInv, InodesShown, EntriesStarted, ScanFirst, FirstMet,
         SocketsFound, RowsOwned, [Next]_vars
  PROVE  RowsOwned'
<1>1. Types
  BY DEF Base
<1>2. ASSUME pid_house' = pid_house, NEW i \in Still', NEW p \in Seen(i)'
      PROVE  i \in Still /\ p \in Seen(i)
  <2>1. i \in Still /\ First(i)' = First(i) /\ (Met(p)' <=> Met(p))
    BY <1>2, SameMet DEF StillStays
  <2>2. p \in held'[i] \ Foreign /\ (p = First(i) \/ Met(p))
    BY <2>1 DEF Seen
  <2>3. p \in held[i]
    <3>1. CASE p = First(i)
      BY <1>1, <2>1, <3>1, FirstIs DEF Types, Still
    <3>2. CASE Met(p)
      <4>1. life[p] # "none"
        BY <3>2 DEF Met, EntriesStarted
      <4> QED BY <2>1, <2>2, <4>1 DEF StillStays
    <3> QED BY <2>2, <3>1, <3>2
  <2> QED BY <2>1, <2>2, <2>3 DEF Seen
<1>3. CASE conn_house' = conn_house /\ pid_house' = pid_house
  <2>1. ASSUME NEW k \in DOMAIN conn_house, NEW i, i = conn_house[k].sock, i \in Still',
               Seen(i)' # {}
        PROVE  conn_house[k].owner # 0
    <3>1. i \in Still /\ Seen(i) # {}
      BY <1>2, <1>3, <2>1
    <3> QED BY <2>1, <3>1 DEF RowsOwned
  <2>2. ASSUME NEW k \in DOMAIN conn_house, conn_house[k].sock \in Still',
               Seen(conn_house[k].sock)' # {}
        PROVE  conn_house[k].owner # 0
    <3>1. PICK i : i = conn_house[k].sock
      OBVIOUS
    <3>2. Seen(i)' # {}
      BY <1>3, <2>2, <3>1 DEF Seen, Met, First
    <3> QED BY <2>1, <2>2, <3>1, <3>2
  <2> QED BY <1>3, <2>2 DEF RowsOwned
<1>4. CASE ReadCmdline \/ ReadLink
  <2>1. conn_house' = conn_house /\ pc \in Scanning
    BY <1>4 DEF ReadCmdline, ReadLink, Scanning
  <2>2. conn_house = <<>>
    BY <2>1 DEF ScanInv, ListOrdered, ScanFirst
  <2> QED BY <2>1, <2>2 DEF RowsOwned
<1>5. CASE info_parser
  <2>1. pc = "parse" /\ UNCHANGED <<world, pid_house>>
    BY <1>5 DEF info_parser
  <2>2. ASSUME NEW i, i = NewRow.sock, i \in Still, Seen(i) # {}
        PROVE  NewRow.owner # 0
    <3>1. PICK p \in held[i] \ Foreign : p = First(i) \/ Met(p)
      BY <2>2 DEF Seen
    <3>2. Met(p)
      BY <2>1, <2>2, <3>1 DEF FirstMet, ScanFirst
    <3>3. Entered(p, i)
      BY <2>1, <2>2, <3>1, <3>2 DEF SocketsFound
    <3>4. NewRow.owner = get_connection_owner(i)
      BY <2>2 DEF NewRow, InodesShown
    <3> QED BY <1>1, <3>3, <3>4, OwnerNamed
  <2>3. ASSUME NEW k \in DOMAIN conn_house', NEW i, i = conn_house'[k].sock, i \in Still',
               Seen(i)' # {}
        PROVE  conn_house'[k].owner # 0
    <3>1. i \in Still /\ Seen(i) # {}
      BY <1>2, <2>1, <2>3
    <3>2. CASE k \in DOMAIN conn_house
      <4>1. conn_house'[k] = conn_house[k]
        BY <1>1, <1>5, <3>2, RowAdded
      <4> QED BY <2>3, <3>1, <3>2, <4>1 DEF RowsOwned
    <3>3. CASE k \notin DOMAIN conn_house
      <4>1. conn_house'[k] = NewRow
        BY <1>1, <1>5, <3>3, RowAdded
      <4> QED BY <2>2, <2>3, <3>1, <4>1
    <3> QED BY <3>2, <3>3
  <2>4. ASSUME NEW k \in DOMAIN conn_house', conn_house'[k].sock \in Still',
               Seen(conn_house[k].sock)' # {}
        PROVE  conn_house'[k].owner # 0
    <3>1. PICK i : i = conn_house'[k].sock
      OBVIOUS
    <3>2. Seen(i)' # {}
      BY <2>4, <3>1 DEF Seen, Met, First
    <3> QED BY <2>3, <2>4, <3>1, <3>2
  <2> QED BY <2>4 DEF RowsOwned
<1>6. CASE ~(ReadCmdline \/ ReadLink \/ info_parser)
  BY <1>3, <1>6, OnlyScanWrites, OnlyParserWrites
<1> QED BY <1>4, <1>5, <1>6

\* What the program does with what holds still.
QuietInv ==
  /\ StillHeld /\ StartAndEnd /\ AllRows /\ InodesShown
  /\ EntriesStarted /\ ScanFirst /\ FirstMet /\ SocketsFound /\ RowsOwned

LEMMA QuietInit == Init => QuietInv
<1> SUFFICES ASSUME Init PROVE QuietInv
  OBVIOUS
<1>1. /\ pc = "pass" /\ scan = NoScan /\ pid_house = <<>> /\ conn_house = <<>>
  BY DEF Init
<1>2. EntriesStarted /\ ScanFirst /\ FirstMet /\ SocketsFound /\ RowsOwned
  BY <1>1 DEF EntriesStarted, ScanFirst, FirstMet, SocketsFound, RowsOwned, NoScan, Met
<1> QED BY <1>2, StillHeldInit, StartAndEndInit DEF QuietInv

LEMMA QuietNext ==
  Base /\ Ordered /\ ScanInv /\ QuietInv /\ [Next]_vars => QuietInv'
<1> SUFFICES ASSUME Base, Ordered, ScanInv, QuietInv, [Next]_vars PROVE QuietInv'
  OBVIOUS
<1> USE DEF QuietInv
<1>1. StillHeld' /\ StillStays
  BY StillNext
<1>2. StartAndEnd' /\ AllRows' /\ InodesShown'
  BY <1>1, StartAndEndNext, AllRowsNext, InodesNext
<1>3. EntriesStarted' /\ ScanFirst' /\ FirstMet' /\ SocketsFound'
  BY <1>1, EntriesStartedNext, ScanFirstNext, FirstMetNext, FoundNext
<1>4. RowsOwned'
  BY <1>1, RowsOwnedNext
<1> QED BY <1>1, <1>2, <1>3, <1>4

LEMMA QuietHolds == Spec => []QuietInv
BY QuietInit, QuietNext, BaseHolds, OrderedHolds, ScanInvHolds, PTL DEF Spec

\* Whatever goes on beside it, a socket that holds still has one row for each
\* time its table is read, and the row names a process that held it if the scan
\* met one that the user may look at.
THEOREM QuietSocketsAreListed == Spec => []QuietSocketsListed
<1>1. Base /\ ScanInv /\ QuietInv /\ RowsPerRead => QuietSocketsListed
  <2> SUFFICES ASSUME Base, ScanInv, QuietInv, RowsPerRead, Printing, NEW i \in Open \ stirred
               PROVE  /\ RowsOf(Family[i], i) = TimesOpened(Family[i])
                      /\ (\E p \in held[i] \ Foreign : p = Min(held[i]) \/ Met(p)) =>
                           \A k \in DOMAIN conn_house :
                             conn_house[k].sock = i => conn_house[k].owner \in held[i]
    BY DEF QuietSocketsListed
  <2>1. Types /\ WorldInv /\ pc = "pass"
    BY DEF Base, Types, Printing
  <2>2. i \in Still /\ i \in Inodes /\ Family[i] \in Files
    BY <2>1, StillIsOpen, StillIs DEF QuietInv
  <2>3. RowsOf(Family[i], i) = TimesOpened(Family[i])
    <3>1. PICK f \in Files : f = Family[i]
      BY <2>2
    <3>2. ~Owed(i)
      BY <2>1 DEF Owed, Scanning
    <3>3. TimesOpened(f) <= RowsOf(f, i) /\ RowsOf(f, i) <= TimesOpened(f)
      BY <2>1, <2>2, <3>1, <3>2 DEF QuietInv, AllRows, RowsPerRead
    <3>4. TimesOpened(f) \in Nat /\ RowsOf(f, i) \in Nat
      BY <2>1, SlotsFinite, RowsFinite
    <3>5. RowsOf(f, i) = TimesOpened(f)
      BY <3>3, <3>4
    <3> QED BY <3>1, <3>5
  <2>4. ASSUME NEW p \in held[i] \ Foreign, p = Min(held[i]) \/ Met(p),
               NEW k \in DOMAIN conn_house, conn_house[k].sock = i
        PROVE  conn_house[k].owner \in held[i]
    <3>1. Seen(i) # {}
      BY <2>4 DEF Seen, First
    <3>2. conn_house[k].owner # 0 /\ conn_house[k].inode = i
      BY <2>2, <2>4, <3>1 DEF QuietInv, RowsOwned, InodesShown
    <3>3. Creditable(conn_house[k].owner, i)
      BY <3>2 DEF ScanInv, RowsCreditable
    <3>4. \A q \in held[i] : ~Ended(q)
      BY <2>1, <2>2, StillHolder DEF QuietInv
    <3> QED BY <3>3, <3>4 DEF Creditable
  <2> QED BY <2>3, <2>4
<1> QED BY <1>1, BaseHolds, ScanInvHolds, QuietHolds, NoRowTwice, PTL
=============================================================================
