------------------------ MODULE SocksSession_proofs ------------------------
(***************************************************************************)
(* Proofs about a session of the SOCKS server, for every request, resolver, *)
(* rule file and amount of data: what is asked for is understood, what is   *)
(* connected is permitted, every address is answered, an ACCEPT is true,    *)
(* and each direction of the relay is a stream.                             *)
(***************************************************************************)
EXTENDS SocksSession, FiniteSetTheorems, WellFoundedInduction, SequenceTheorems, TLAPS

-----------------------------------------------------------------------------
\* The request, byte by byte.

\* A set of naturals with an element has a least one.
LEMMA LeastNat ==
  ASSUME NEW T \in SUBSET Nat, T # {}
  PROVE  \E n \in T : \A m \in T : n <= m
<1>1. IsWellFoundedOn(OpToRel(<, Nat), Nat)
  BY NatLessThanWellFounded
<1>2. \A m, n \in Nat : <<m, n>> \in OpToRel(<, Nat) <=> m < n
  BY DEF OpToRel
<1>3. PICK R : IsWellFoundedOn(R, Nat) /\ \A m \in Nat : \A n \in Nat : <<m, n>> \in R <=> m < n
  BY <1>1, <1>2, Zenon
<1>4. T \subseteq Nat
  OBVIOUS
<1>5. \E n \in T : \A m \in T : ~(<<m, n>> \in R)
  <2>1. IsWellFoundedOn(R, Nat)
    BY <1>3, Zenon
  <2>2. ASSUME NEW U, U \subseteq Nat, U # {}
        PROVE  \E x \in U : \A y \in U : ~(<<y, x>> \in R)
    BY ONLY <2>1, <2>2, WFMin, Zenon
  <2> QED BY <1>4, <2>2, Zenon
<1>6. PICK n \in T : \A m \in T : ~(<<m, n>> \in R)
  BY <1>5
<1>7. ASSUME NEW m \in T PROVE n <= m
  <2>1. m \in Nat /\ n \in Nat
    OBVIOUS
  <2>2. ~(m < n)
    BY <1>3, <1>6, <2>1, Zenon
  <2> QED BY <2>1, <2>2
<1> QED BY <1>7

LEMMA FunIsSeq ==
  ASSUME NEW S, NEW n \in Nat, NEW f \in [1..n -> S]
  PROVE  f \in Seq(S) /\ Len(f) = n
<1>1. f \in Seq(S)
  BY SeqDef
<1>2. DOMAIN f = 1..Len(f) /\ Len(f) \in Nat /\ DOMAIN f = 1..n
  BY <1>1, LenProperties
<1>3. Len(f) = n
  BY <1>2
<1> QED BY <1>1, <1>3

Register == [1..4 -> Byte]

LEMMA AtIs ==
  ASSUME NEW bytes \in Seq(Byte), NEW i \in Nat
  PROVE  At(bytes, i) \in Byte
<1>1. CASE i < Len(bytes)
  <2>1. i + 1 \in 1..Len(bytes)
    BY <1>1
  <2> QED BY <1>1, <2>1, ElementOfSeq DEF At
<1>2. CASE ~(i < Len(bytes))
  BY <1>2 DEF At, Byte
<1> QED BY <1>1, <1>2

\* The register loses its first byte.
LEMMA ShiftIs ==
  ASSUME NEW r \in Register, NEW b \in Byte
  PROVE  /\ Shift(r, b) \in Register
         /\ Shift(r, b)[1] = r[2] /\ Shift(r, b)[2] = r[3] /\ Shift(r, b)[3] = r[4]
         /\ Shift(r, b)[4] = b
<1> DEFINE t == Tail(r)
           u == Append(t, b)
<1>1. r \in Seq(Byte) /\ Len(r) = 4
  BY FunIsSeq DEF Register
<1>2. t \in Seq(Byte) /\ Len(t) = Len(r) - 1 /\ \A i \in 1..Len(t) : t[i] = r[i + 1]
  <2>1. r # <<>>
    BY <1>1
  <2> QED BY <1>1, <2>1, HeadTailProperties, Zenon
<1> HIDE DEF t
<1>3. /\ u \in Seq(Byte) /\ Len(u) = Len(t) + 1
      /\ (\A i \in 1..Len(t) : u[i] = t[i]) /\ u[Len(t) + 1] = b
  BY <1>2
<1>4. u = Shift(r, b)
  BY DEF Shift, t
<1> HIDE DEF u
<1>5. Len(u) = 4 /\ u[1] = r[2] /\ u[2] = r[3] /\ u[3] = r[4] /\ u[4] = b
  BY <1>1, <1>2, <1>3
<1>6. u \in [1..4 -> Byte]
  BY <1>3, <1>5, LenProperties
<1> QED BY <1>4, <1>5, <1>6 DEF Register

\* Whatever was in the register, after four shifts it holds the four bytes.
LEMMA AddressIs ==
  ASSUME NEW g \in Register, NEW bytes \in Seq(Byte)
  PROVE  /\ Address(g, bytes) \in Register
         /\ \A i \in 1..4 : Address(g, bytes)[i] = At(bytes, i + 3)
<1> DEFINE a == Shift(g, At(bytes, 4))
           b == Shift(a, At(bytes, 5))
           c == Shift(b, At(bytes, 6))
           d == Shift(c, At(bytes, 7))
<1>0. At(bytes, 4) \in Byte /\ At(bytes, 5) \in Byte /\ At(bytes, 6) \in Byte /\ At(bytes, 7) \in Byte
  BY AtIs
<1>1. a \in Register /\ a[4] = At(bytes, 4)
  BY <1>0, ShiftIs
<1> HIDE DEF a
<1>2. b \in Register /\ b[3] = At(bytes, 4) /\ b[4] = At(bytes, 5)
  BY <1>0, <1>1, ShiftIs
<1> HIDE DEF b
<1>3. c \in Register /\ c[2] = At(bytes, 4) /\ c[3] = At(bytes, 5) /\ c[4] = At(bytes, 6)
  BY <1>0, <1>2, ShiftIs
<1> HIDE DEF c
<1>4. /\ d \in Register /\ d[1] = At(bytes, 4) /\ d[2] = At(bytes, 5) /\ d[3] = At(bytes, 6)
      /\ d[4] = At(bytes, 7)
  BY <1>0, <1>3, ShiftIs
<1>5. d = Address(g, bytes)
  BY DEF a, b, c, Address
<1> HIDE DEF d
<1>6. \A i \in 1..4 : d[i] = At(bytes, i + 3)
  <2>1. \A i \in 1..4 : i = 1 \/ i = 2 \/ i = 3 \/ i = 4
    OBVIOUS
  <2> QED BY <1>4, <2>1
<1> QED BY <1>4, <1>5, <1>6

\* What Text looks for.
Ends(bytes, i) == {j \in i..Len(bytes) : j = Len(bytes) \/ bytes[j + 1] = 0}

LEMMA TextIs ==
  ASSUME NEW bytes \in Seq(Byte), NEW i \in Nat, i < Len(bytes)
  PROVE  \E e \in Ends(bytes, i) :
           /\ \A k \in Ends(bytes, i) : e <= k
           /\ Text(bytes, i) = SubSeq(bytes, i + 1, e)
<1> DEFINE e == CHOOSE j \in Ends(bytes, i) : \A k \in Ends(bytes, i) : j <= k
<1>1. Ends(bytes, i) \in SUBSET Nat
  BY DEF Ends
<1>2. Len(bytes) \in Ends(bytes, i)
  BY DEF Ends
<1>3. \E n \in Ends(bytes, i) : \A m \in Ends(bytes, i) : n <= m
  BY <1>1, <1>2, LeastNat
<1>4. e \in Ends(bytes, i) /\ \A k \in Ends(bytes, i) : e <= k
  BY <1>3
<1>5. Text(bytes, i) = SubSeq(bytes, i + 1, e)
  <2>1. ~(i >= Len(bytes))
    OBVIOUS
  <2> QED BY <2>1, Zenon DEF Text, Ends
<1> QED BY <1>4, <1>5

LEMMA TextType ==
  ASSUME NEW bytes \in Seq(Byte), NEW i \in Nat
  PROVE  Text(bytes, i) \in Seq(Byte)
<1>1. CASE i >= Len(bytes)
  BY <1>1 DEF Text
<1>2. CASE ~(i >= Len(bytes))
  <2>1. PICK e \in Ends(bytes, i) : Text(bytes, i) = SubSeq(bytes, i + 1, e)
    BY <1>2, TextIs
  <2>2. e \in i..Len(bytes)
    BY DEF Ends
  <2> QED BY <2>1, <2>2
<1> QED BY <1>1, <1>2

RequestType ==
  [command : {"CONNECT", "BIND", "UNKNOWN"}, port : PortNumber, address : Register,
   isSocks4a : BOOLEAN, domain : Seq(Byte)]

LEMMA PortIs == \A n : n \in PortNumber <=> (n \in Int /\ 0 <= n /\ n <= MaxPort)
<1>1. MaxPort \in Int
  BY DEF MaxPort
<1> QED BY <1>1 DEF PortNumber

LEMMA ParseType ==
  ASSUME NEW g \in Register, NEW bytes \in Seq(Byte)
  PROVE  Parse(g, bytes) \in RequestType
<1>1. Command(At(bytes, 1)) \in {"CONNECT", "BIND", "UNKNOWN"}
  BY DEF Command
<1>2. Port(bytes) \in PortNumber
  <2>1. At(bytes, 2) \in Byte /\ At(bytes, 3) \in Byte
    BY AtIs
  <2>2. \A b \in Byte : b \in Int /\ 0 <= b /\ b <= 255
    BY DEF Byte
  <2>3. Port(bytes) \in Int /\ 0 <= Port(bytes) /\ Port(bytes) <= MaxPort
    BY <2>1, <2>2 DEF Port, MaxPort
  <2> QED BY ONLY <2>3, PortIs
<1>3. Address(g, bytes) \in Register
  BY AddressIs
<1>4. IsSocks4a(Address(g, bytes), bytes) \in BOOLEAN
  BY DEF IsSocks4a
<1>5. Text(bytes, DomainAt) \in Seq(Byte) /\ <<>> \in Seq(Byte)
  BY TextType DEF DomainAt
<1> QED BY <1>1, <1>2, <1>3, <1>4, <1>5, Zenon DEF Parse, RequestType

WantType ==
  [command : Byte, port : PortNumber, address : [1..4 -> Byte],
   userId : Seq(Byte \ {0}), domain : Seq(Byte \ {0})]

Ending(w) == w.userId \o <<0>> \o (IF w.domain = <<>> THEN <<>> ELSE w.domain \o <<0>>)

LEMMA EncodeIs ==
  ASSUME NEW w \in WantType
  PROVE  /\ Len(Encode(w)) = 3
         /\ Encode(w)[1] = <<4, w.command, w.port \div 256, w.port % 256>>
         /\ Encode(w)[2] = w.address
         /\ Encode(w)[3] = Ending(w)
         /\ \A i \in 1..3 : Encode(w)[i] \in Seq(Byte)
<1>1. w.port \div 256 \in Byte /\ w.port % 256 \in Byte /\ 4 \in Byte /\ w.command \in Byte
  <2>1. w.port \in PortNumber
    BY DEF WantType
  <2>2. w.command \in Byte
    BY DEF WantType
  <2>3. w.port \in Int /\ 0 <= w.port /\ w.port <= MaxPort
    BY ONLY <2>1, PortIs
  <2>4. \A n \in Int : (0 <= n /\ n <= 255) => n \in Byte
    BY DEF Byte
  <2>5. /\ w.port \div 256 \in Int /\ 0 <= w.port \div 256 /\ w.port \div 256 <= 255
        /\ w.port % 256 \in Int /\ 0 <= w.port % 256 /\ w.port % 256 <= 255
    BY <2>3 DEF MaxPort
  <2> QED BY <2>2, <2>4, <2>5
<1>2. <<4, w.command, w.port \div 256, w.port % 256>> \in Seq(Byte)
  BY <1>1
<1>3. w.address \in Seq(Byte)
  <2>1. w.address \in [1..4 -> Byte]
    BY Zenon DEF WantType
  <2> QED BY <2>1, FunIsSeq
<1>4. Ending(w) \in Seq(Byte)
  <2>1. w.userId \in Seq(Byte) /\ w.domain \in Seq(Byte) /\ <<0>> \in Seq(Byte) /\ <<>> \in Seq(Byte)
    <3>1. w.userId \in Seq(Byte \ {0}) /\ w.domain \in Seq(Byte \ {0})
      BY Zenon DEF WantType
    <3>2. Byte \ {0} \subseteq Byte /\ 0 \in Byte
      BY DEF Byte
    <3>3. w.userId \in Seq(Byte) /\ w.domain \in Seq(Byte)
      BY <3>1, <3>2, SeqMonotonic
    <3> QED BY <3>2, <3>3
  <2> QED BY <2>1 DEF Ending
<1>5. Encode(w) = <<<<4, w.command, w.port \div 256, w.port % 256>>, w.address, Ending(w)>>
  BY Zenon DEF Encode, Ending
<1> HIDE DEF Ending
<1>6. Len(Encode(w)) = 3 /\ Encode(w)[1] = <<4, w.command, w.port \div 256, w.port % 256>>
      /\ Encode(w)[2] = w.address /\ Encode(w)[3] = Ending(w)
  BY <1>5
<1>7. \A i \in 1..3 : i = 1 \/ i = 2 \/ i = 3
  OBVIOUS
<1> QED BY <1>2, <1>3, <1>4, <1>6, <1>7

\* The bytes of a request that has come whole.
Whole(w) == Encode(w)[1] \o Encode(w)[2] \o Encode(w)[3]

LEMMA ThreeParts ==
  ASSUME NEW S, NEW a \in Seq(S), NEW b \in Seq(S), NEW c \in Seq(S)
  PROVE  /\ a \o b \o c \in Seq(S)
         /\ Len(a \o b \o c) = Len(a) + Len(b) + Len(c)
         /\ \A i \in 1..Len(a) : (a \o b \o c)[i] = a[i]
         /\ \A i \in 1..Len(b) : (a \o b \o c)[Len(a) + i] = b[i]
         /\ \A i \in 1..Len(c) : (a \o b \o c)[Len(a) + Len(b) + i] = c[i]
OBVIOUS

LEMMA WholeIs ==
  ASSUME NEW w \in WantType
  PROVE  /\ Whole(w) \in Seq(Byte) /\ Ending(w) \in Seq(Byte)
         /\ Len(Whole(w)) = 8 + Len(Ending(w))
         /\ Whole(w)[2] = w.command
         /\ Whole(w)[3] = w.port \div 256 /\ Whole(w)[4] = w.port % 256
         /\ \A i \in 1..4 : Whole(w)[i + 4] = w.address[i]
         /\ \A i \in 1..Len(Ending(w)) : Whole(w)[i + 8] = Ending(w)[i]
<1> DEFINE a == Encode(w)[1]
           b == Encode(w)[2]
           c == Encode(w)[3]
           s == Whole(w)
<1>1. /\ a \in Seq(Byte) /\ b \in Seq(Byte) /\ c \in Seq(Byte)
      /\ a = <<4, w.command, w.port \div 256, w.port % 256>> /\ b = w.address /\ c = Ending(w)
  BY EncodeIs
<1>2. Len(a) = 4 /\ a[2] = w.command /\ a[3] = w.port \div 256 /\ a[4] = w.port % 256
  BY <1>1
<1>3. Len(b) = 4
  <2>1. w.address \in [1..4 -> Byte]
    BY DEF WantType
  <2> QED BY <1>1, <2>1, FunIsSeq
<1>e. s = a \o b \o c
  BY DEF Whole
<1> HIDE DEF a, b, c, s
<1>4. /\ s \in Seq(Byte) /\ Len(s) = Len(a) + Len(b) + Len(c)
      /\ \A i \in 1..Len(a) : s[i] = a[i]
      /\ \A i \in 1..Len(b) : s[Len(a) + i] = b[i]
      /\ \A i \in 1..Len(c) : s[Len(a) + Len(b) + i] = c[i]
  <2>1. a \in Seq(Byte) /\ b \in Seq(Byte) /\ c \in Seq(Byte)
    BY <1>1
  <2>2. /\ a \o b \o c \in Seq(Byte) /\ Len(a \o b \o c) = Len(a) + Len(b) + Len(c)
        /\ \A i \in 1..Len(a) : (a \o b \o c)[i] = a[i]
        /\ \A i \in 1..Len(b) : (a \o b \o c)[Len(a) + i] = b[i]
        /\ \A i \in 1..Len(c) : (a \o b \o c)[Len(a) + Len(b) + i] = c[i]
    BY ONLY <2>1, ThreeParts
  <2> QED BY ONLY <2>2, <1>e
<1>5. \A i \in 1..4 : s[i + 4] = b[i]
  BY <1>2, <1>3, <1>4
<1>6. \A i \in 1..Len(c) : s[i + 8] = c[i]
  BY <1>1, <1>2, <1>3, <1>4
<1>7. s[2] = a[2] /\ s[3] = a[3] /\ s[4] = a[4] /\ Len(s) = 8 + Len(c)
  BY <1>1, <1>2, <1>3, <1>4
<1>8. /\ s \in Seq(Byte) /\ c \in Seq(Byte) /\ Len(s) = 8 + Len(c) /\ s[2] = w.command
      /\ s[3] = w.port \div 256 /\ s[4] = w.port % 256
      /\ \A i \in 1..4 : s[i + 4] = w.address[i]
      /\ \A i \in 1..Len(c) : s[i + 8] = c[i]
  BY <1>1, <1>2, <1>4, <1>5, <1>6, <1>7
<1> QED BY <1>1, <1>8 DEF s

\* A host name that follows an empty user id is found.
LEMMA NameIsFound ==
  ASSUME NEW w \in WantType, w.userId = <<>>, w.domain # <<>>
  PROVE  /\ Len(Whole(w)) > 10
         /\ Text(Whole(w), DomainAt) = w.domain
<1> DEFINE s == Whole(w)
           d == w.domain
           n == Len(w.domain)
           t == Ending(w)
<1>1. d \in Seq(Byte \ {0}) /\ d \in Seq(Byte) /\ n \in Nat /\ n > 0
  <2>1. d \in Seq(Byte \ {0})
    BY DEF WantType
  <2>2. d \in Seq(Byte)
    BY <2>1, SeqMonotonic
  <2> QED BY <2>1, <2>2
<1>2. \A i \in 1..n : d[i] \in Byte /\ d[i] # 0
  BY <1>1, ElementOfSeq
<1>3. t = <<>> \o <<0>> \o (d \o <<0>>)
  BY DEF Ending
<1>4. 0 \in Byte
  BY DEF Byte
<1>5. /\ t \in Seq(Byte) /\ Len(t) = n + 2 /\ t[1] = 0 /\ t[n + 2] = 0
      /\ \A i \in 1..n : t[i + 1] = d[i]
  <2>1. d \o <<0>> \in Seq(Byte) /\ Len(d \o <<0>>) = n + 1 /\ (d \o <<0>>)[n + 1] = 0
        /\ \A i \in 1..n : (d \o <<0>>)[i] = d[i]
    BY <1>1, <1>4
  <2> DEFINE e == d \o <<0>>
  <2> HIDE DEF e
  <2>2. e \in Seq(Byte) /\ Len(e) = n + 1 /\ e[n + 1] = 0 /\ \A i \in 1..n : e[i] = d[i]
    BY <2>1 DEF e
  <2>3. t = <<0>> \o e
    BY <1>3, <2>2, <1>4 DEF e
  <2> HIDE DEF t, d
  <2>4. n + 1 \in 1..Len(e) /\ \A i \in 1..n : i \in 1..Len(e)
    BY <1>1, <2>2
  <2> QED BY <1>1, <1>4, <2>2, <2>3, <2>4
<1>6. s \in Seq(Byte) /\ Len(s) = 8 + Len(t) /\ \A i \in 1..Len(t) : s[i + 8] = t[i]
  BY WholeIs
<1> HIDE DEF s, t, d
<1>7. Len(s) = n + 10 /\ s[n + 10] = 0 /\ \A i \in 1..n : s[i + 9] = d[i]
  <2>1. \A i \in 1..n : i + 1 \in 1..Len(t) /\ (i + 1) + 8 = i + 9
    BY <1>1, <1>5
  <2>2. n + 2 \in 1..Len(t) /\ (n + 2) + 8 = n + 10
    BY <1>1, <1>5
  <2>3. \A i \in 1..n : s[(i + 1) + 8] = t[i + 1]
    BY <1>6, <2>1
  <2>4. s[(n + 2) + 8] = t[n + 2]
    BY <1>6, <2>2
  <2>5. \A i \in 1..n : s[i + 9] = d[i]
    BY <1>5, <2>1, <2>3
  <2> QED BY <1>1, <1>5, <1>6, <2>2, <2>4, <2>5
<1>8. PICK e \in Ends(s, 9) : /\ \A k \in Ends(s, 9) : e <= k
                             /\ Text(s, 9) = SubSeq(s, 10, e)
  <2>1. 9 \in Nat /\ 9 < Len(s) /\ 9 + 1 = 10
    BY <1>1, <1>7
  <2>2. \E e \in Ends(s, 9) : /\ \A k \in Ends(s, 9) : e <= k
                             /\ Text(s, 9) = SubSeq(s, 9 + 1, e)
    BY <1>6, <2>1, TextIs
  <2> QED BY <2>1, <2>2
<1>9. n + 9 \in Ends(s, 9)
  BY <1>1, <1>7 DEF Ends
<1>10. e \in 9..(n + 9)
  BY <1>1, <1>7, <1>8, <1>9 DEF Ends
<1>11. e = n + 9
  <2> SUFFICES ASSUME e < n + 9 PROVE FALSE
    BY <1>1, <1>10
  <2>1. e - 8 \in 1..n /\ (e - 8) + 9 = e + 1
    BY <1>1, <1>10
  <2>2. s[(e - 8) + 9] = d[e - 8]
    BY <1>7, <2>1
  <2>3. s[e + 1] # 0
    BY <1>2, <2>1, <2>2
  <2>4. e # Len(s)
    BY <1>1, <1>7, <1>10
  <2> QED BY <1>8, <2>3, <2>4 DEF Ends
<1>12. /\ SubSeq(s, 10, n + 9) \in Seq(Byte) /\ Len(SubSeq(s, 10, n + 9)) = n
       /\ \A i \in 1..n : SubSeq(s, 10, n + 9)[i] = s[i + 9]
  <2> DEFINE u == SubSeq(s, 10, n + 9)
  <2>1. \A i \in 10..(n + 9) : s[i] \in Byte
    BY <1>1, <1>6, <1>7, ElementOfSeq
  <2>2. /\ u \in Seq(Byte)
        /\ Len(u) = IF 10 <= n + 9 THEN (n + 9) - 10 + 1 ELSE 0
        /\ \A i \in 1..((n + 9) - 10 + 1) : u[i] = s[10 + i - 1]
    BY <1>1, <2>1, SubSeqProperties
  <2> HIDE DEF u
  <2>3. Len(u) = n /\ (n + 9) - 10 + 1 = n /\ \A i \in 1..n : 10 + i - 1 = i + 9
    BY <1>1, <2>2
  <2>4. u \in Seq(Byte) /\ Len(u) = n /\ \A i \in 1..n : u[i] = s[i + 9]
    BY <2>2, <2>3
  <2> QED BY <2>4 DEF u
<1>13. SubSeq(s, 10, n + 9) = d
  <2> DEFINE u == SubSeq(s, 10, n + 9)
  <2>1. u \in Seq(Byte) /\ Len(u) = Len(d) /\ \A i \in 1..Len(u) : u[i] = d[i]
    BY <1>7, <1>12 DEF d
  <2> HIDE DEF u
  <2>2. u = d
    BY <1>1, <2>1, SeqEqual
  <2> QED BY <2>2 DEF u
<1>14. Len(s) > 10 /\ Text(s, DomainAt) = d
  <2>1. Len(s) > 10
    BY <1>1, <1>7
  <2>2. Text(s, 9) = SubSeq(s, 10, e)
    BY <1>8
  <2>3. Text(s, 9) = d
    BY <2>2, <1>11, <1>13, Zenon
  <2> QED BY <2>1, <2>3, Zenon DEF DomainAt
<1> QED BY <1>14 DEF s, d

Answered(w) ==
  [command |-> Command(w.command), port |-> w.port, address |-> w.address,
   isSocks4a |-> w.domain # <<>>, domain |-> w.domain]

\* A request that has come whole is understood, whatever its bytes and whatever was in
\* address_ before; the exceptions are those of RequestIsUnderstood.
LEMMA ParsesWhole ==
  ASSUME NEW w \in Wants, NEW g \in Register,
         w.userId = <<>> \/ (w.domain = <<>> /\ Head(w.address) # 0)
  PROVE  Parse(g, Whole(w)) = Answered(w)
<1> DEFINE s == Whole(w)
           is4a == IsSocks4a(Address(g, s), s)
<1>0. w \in WantType
  BY SocksWantAssumption DEF WantType
<1>1. /\ s \in Seq(Byte) /\ Len(s) = 8 + Len(Ending(w)) /\ Ending(w) \in Seq(Byte)
      /\ s[2] = w.command /\ s[3] = w.port \div 256 /\ s[4] = w.port % 256
      /\ \A i \in 1..4 : s[i + 4] = w.address[i]
  BY <1>0, WholeIs
<1>2. \A i \in 1..7 : At(s, i) = s[i + 1]
  <2> HIDE DEF s
  <2> QED BY <1>1 DEF At
<1>3. Address(g, s) = w.address
  <2>1. Address(g, s) \in Register /\ \A i \in 1..4 : Address(g, s)[i] = At(s, i + 3)
    BY <1>1, AddressIs
  <2>2. \A i \in 1..4 : i + 3 \in 1..7 /\ At(s, i + 3) = s[i + 4]
    BY <1>2
  <2>3. \A i \in 1..4 : Address(g, s)[i] = w.address[i]
    BY <1>1, <2>1, <2>2
  <2>4. w.address \in [1..4 -> Byte]
    BY <1>0 DEF WantType
  <2> HIDE DEF s
  <2> QED BY <2>1, <2>3, <2>4 DEF Register
<1>4. Command(At(s, 1)) = Command(w.command)
  BY <1>1, <1>2
<1>5. Port(s) = w.port
  <2>1. At(s, 2) = w.port \div 256 /\ At(s, 3) = w.port % 256
    BY <1>1, <1>2
  <2>2. w.port \in PortNumber
    BY <1>0 DEF WantType
  <2>3. \A n \in PortNumber : n \in Nat
    BY PortIs
  <2>4. Port(s) = 256 * (w.port \div 256) + (w.port % 256)
    BY <2>1 DEF Port
  <2> QED BY <2>2, <2>3, <2>4
<1>6. is4a <=> (w.domain # <<>>)
  <2>1. Head(w.address) = w.address[1]
    <3>1. w.address \in [1..4 -> Byte]
      BY <1>0 DEF WantType
    <3> DEFINE a == w.address
    <3> HIDE DEF a
    <3>2. a \in Seq(Byte) /\ Len(a) = 4
      <4>1. a \in [1..4 -> Byte] /\ 4 \in Nat
        BY <3>1 DEF a
      <4> QED BY <4>1, FunIsSeq, Zenon
    <3>3. Head(a) = a[1]
      BY <3>2
    <3> QED BY <3>3 DEF a
  <2>2. CASE w.domain = <<>> /\ Head(w.address) # 0
    BY <1>3, <2>1, <2>2 DEF IsSocks4a
  <2>3. CASE w.domain = <<>> /\ w.userId = <<>>
    <3>1. Ending(w) = <<>> \o <<0>> \o <<>>
      BY <2>3 DEF Ending
    <3>2. Len(Ending(w)) = 1
      BY <3>1
    <3>3. ~(10 < Len(s))
      BY <1>1, <3>2
    <3> QED BY <2>3, <3>3 DEF IsSocks4a
  <2>4. CASE w.domain # <<>>
    <3>1. 10 < Len(s)
      BY <1>0, <2>4, NameIsFound, <1>1
    <3>2. w.address[1] = 0 /\ w.address[2] = 0 /\ w.address[3] = 0 /\ w.address[4] # 0
      BY <2>4, SocksNameAssumption
    <3> QED BY <1>3, <2>4, <3>1, <3>2 DEF IsSocks4a
  <2> QED BY <2>2, <2>3, <2>4
<1>7. (IF is4a THEN Text(s, DomainAt) ELSE <<>>) = w.domain
  BY <1>0, <1>6, NameIsFound
<1>8. Parse(g, s) = [command |-> Command(At(s, 1)), port |-> Port(s), address |-> Address(g, s),
         isSocks4a |-> is4a, domain |-> IF is4a THEN Text(s, DomainAt) ELSE <<>>]
  BY DEF Parse
<1>9. is4a \in BOOLEAN /\ (w.domain # <<>>) \in BOOLEAN
  BY DEF IsSocks4a
<1>10. is4a = (w.domain # <<>>)
  BY <1>6, <1>9
<1> HIDE DEF s, is4a
<1>11. Parse(g, s) = Answered(w)
  BY <1>3, <1>4, <1>5, <1>7, <1>8, <1>10, Zenon DEF Answered
<1> QED BY <1>11 DEF s

-----------------------------------------------------------------------------
\* The types.

HistoryType ==
  history \in [read : Nat, swallowed : BOOLEAN, torn : SUBSET Side,
               answers : Seq({"ACCEPT", "REJECT"}), skipped : BOOLEAN]

\* What a relay is to write is in the buffer.
FilledInv ==
  \A x \in Side, i \in Chain :
    chain[x][i].st = "write" => chain[x][i].len \in 1..Len(buf[x])

\* Nothing is known of a request that has not been read.
UnreadInv == pc = "request" => history.read = 0

TypeInv == TypeOK /\ HistoryType /\ FilledInv /\ UnreadInv

LEMMA UnitIs ==
  /\ \A n \in Nat : Unit(n) \in Units
  /\ \A a \in {"ACCEPT", "REJECT", "garbage"} : Reply(a) \in Units
BY DEF Unit, Reply, Units

LEMMA SideIs ==
  /\ "client" \in Side /\ "server" \in Side /\ \A x \in Side : x = "client" \/ x = "server"
  /\ \A x \in Side : Other[x] \in Side /\ Other[x] # x /\ Other[Other[x]] = x
BY DEF Side, Other

\* The request that is read is that of the client, in one, two or three pieces.
LEMMA BroughtIs ==
  ASSUME want \in Wants, NEW n \in 1..3
  PROVE  /\ Brought(n) \in Seq(Byte) /\ Len(packet) = 3
         /\ n = 3 => Brought(n) = Whole(want)
<1>1. want \in WantType
  BY SocksWantAssumption DEF WantType
<1>2. packet[1] \in Seq(Byte) /\ packet[2] \in Seq(Byte) /\ packet[3] \in Seq(Byte) /\ Len(packet) = 3
  BY <1>1, EncodeIs DEF packet
<1>3. Brought(n) \in Seq(Byte)
  BY <1>2 DEF Brought
<1>4. ASSUME n = 3 PROVE Brought(n) = Whole(want)
  <2>1. n > 1 /\ n > 2
    BY <1>4
  <2> QED BY <2>1, Zenon DEF Brought, Whole, packet
<1> QED BY <1>2, <1>3, <1>4

\* The client is told something, or the reply waits, or is not sent.
LEMMA ReplyIs ==
  ASSUME TypeInv, NEW a \in {"ACCEPT", "REJECT"}, DoReply(a)
  PROVE  /\ \/ UNCHANGED outq
            \/ /\ outq' = [outq EXCEPT !["client"] = Append(@, Reply(a))]
               /\ "client" \notin gone \cup shut
         /\ outq' \in [Side -> Seq(Units)] /\ \A x \in Side : Len(outq'[x]) <= Window
         /\ late' \in Nat
         /\ history' = [history EXCEPT !.answers = Append(@, a)] /\ HistoryType'
         /\ history'.answers = Append(history.answers, a) /\ history'.skipped = history.skipped
         /\ history'.read = history.read /\ history'.torn = history.torn
<1> DEFINE h == [history EXCEPT !.answers = Append(@, a)]
<1>1. Append(history.answers, a) \in Seq({"ACCEPT", "REJECT"})
  BY DEF TypeInv, HistoryType
<1>2. /\ h \in [read : Nat, swallowed : BOOLEAN, torn : SUBSET Side,
               answers : Seq({"ACCEPT", "REJECT"}), skipped : BOOLEAN]
      /\ h.answers = Append(history.answers, a) /\ h.skipped = history.skipped
      /\ h.read = history.read /\ h.torn = history.torn
  BY <1>1 DEF TypeInv, HistoryType
<1>3. history' = h
  BY DEF DoReply
<1>4. \/ UNCHANGED outq
      \/ /\ outq' = [outq EXCEPT !["client"] = Append(@, Reply(a))]
         /\ "client" \notin gone \cup shut /\ Len(outq["client"]) < Window
  BY DEF DoReply
<1>5. outq' \in [Side -> Seq(Units)] /\ \A x \in Side : Len(outq'[x]) <= Window
  <2>1. Append(outq["client"], Reply(a)) \in Seq(Units)
        /\ Len(Append(outq["client"], Reply(a))) = Len(outq["client"]) + 1
    BY UnitIs, SideIs DEF TypeInv, TypeOK
  <2>2. outq \in [Side -> Seq(Units)] /\ \A x \in Side : Len(outq[x]) <= Window
    BY DEF TypeInv, TypeOK
  <2>3. Window \in Nat /\ Len(outq["client"]) \in Nat
    BY <2>2, SideIs, SocksBoundAssumption
  <2>4. CASE UNCHANGED outq
    BY <2>2, <2>4
  <2>5. CASE /\ outq' = [outq EXCEPT !["client"] = Append(@, Reply(a))]
             /\ Len(outq["client"]) < Window
    <3> DEFINE v == Append(outq["client"], Reply(a))
    <3>1. v \in Seq(Units) /\ Len(v) <= Window
      BY <2>1, <2>3, <2>5
    <3>2. outq' = [outq EXCEPT !["client"] = v]
      BY <2>5
    <3> HIDE DEF v
    <3> QED BY <2>2, <3>1, <3>2
  <2> QED BY <1>4, <2>4, <2>5
<1>6. late' \in Nat
  BY DEF DoReply, TypeInv, TypeOK
<1> HIDE DEF h
<1>7. HistoryType'
  BY <1>2, <1>3 DEF HistoryType
<1> QED BY <1>2, <1>3, <1>4, <1>5, <1>6, <1>7 DEF h

RelayType == [st : {"off", "read", "write", "end"}, len : Nat]

LEMMA SetIs ==
  ASSUME TypeInv, NEW x \in Side, NEW i \in Chain, NEW st \in {"off", "read", "write", "end"},
         NEW n \in Nat, Set(x, i, st, n)
  PROVE  /\ chain' \in [Side -> [Chain -> RelayType]]
         /\ chain'[x][i].st = st /\ chain'[x][i].len = n
         /\ \A y \in Side, j \in Chain : (y # x \/ j # i) => chain'[y][j] = chain[y][j]
BY DEF TypeInv, TypeOK, Set, RelayType

LEMMA StartIs ==
  ASSUME TypeInv, StartRelay
  PROVE  \E i \in Chain :
           /\ i = 2 <=> chain["client"][1].st # "off"
           /\ chain' \in [Side -> [Chain -> RelayType]]
           /\ \A y \in Side : chain'[y][i].st = "read" /\ chain'[y][i].len = 0
           /\ \A y \in Side, j \in Chain : j # i => chain'[y][j] = chain[y][j]
<1> DEFINE i == IF chain["client"][1].st = "off" THEN 1 ELSE 2
<1>1. i \in Chain /\ (i = 2 <=> chain["client"][1].st # "off")
  BY DEF Chain
<1>2. chain' = [x \in Side |-> [chain[x] EXCEPT ![i] = [st |-> "read", len |-> 0]]]
  BY DEF StartRelay
<1> HIDE DEF i
<1> DEFINE r == [st |-> "read", len |-> 0]
<1>3. r \in RelayType /\ r.st = "read" /\ r.len = 0
  BY DEF RelayType
<1>4. chain \in [Side -> [Chain -> RelayType]]
  BY DEF TypeInv, TypeOK, RelayType
<1>5. chain' = [x \in Side |-> [chain[x] EXCEPT ![i] = r]]
  BY <1>2
<1> HIDE DEF r
<1>6. chain' \in [Side -> [Chain -> RelayType]]
  BY <1>1, <1>3, <1>4, <1>5
<1>7. \A y \in Side : chain'[y][i] = r
  BY <1>1, <1>4, <1>5
<1>8. \A y \in Side, j \in Chain : j # i => chain'[y][j] = chain[y][j]
  BY <1>1, <1>4, <1>5
<1> QED BY <1>1, <1>3, <1>6, <1>7, <1>8

LEMMA DropIs ==
  ASSUME NEW S, NEW s \in Seq(S), NEW k \in 0..Len(s)
  PROVE  /\ SubSeq(s, k + 1, Len(s)) \in Seq(S)
         /\ Len(SubSeq(s, k + 1, Len(s))) = Len(s) - k
         /\ \A i \in 1..(Len(s) - k) : SubSeq(s, k + 1, Len(s))[i] = s[k + i]
OBVIOUS

LEMMA TakeIs ==
  ASSUME NEW S, NEW s \in Seq(S), NEW k \in 0..Len(s)
  PROVE  /\ SubSeq(s, 1, k) \in Seq(S)
         /\ Len(SubSeq(s, 1, k)) = k
         /\ \A i \in 1..k : SubSeq(s, 1, k)[i] = s[i]
OBVIOUS

LEMMA JoinIs ==
  ASSUME NEW S, NEW s \in Seq(S), NEW t \in Seq(S)
  PROVE  /\ s \o t \in Seq(S)
         /\ Len(s \o t) = Len(s) + Len(t)
         /\ \A i \in 1..Len(s) : (s \o t)[i] = s[i]
         /\ \A i \in 1..Len(t) : (s \o t)[Len(s) + i] = t[i]
OBVIOUS

LEMMA AppendIs ==
  ASSUME NEW S, NEW s \in Seq(S), NEW e \in S
  PROVE  /\ Append(s, e) \in Seq(S)
         /\ Len(Append(s, e)) = Len(s) + 1
         /\ \A i \in 1..Len(s) : Append(s, e)[i] = s[i]
         /\ Append(s, e)[Len(s) + 1] = e
OBVIOUS

LEMMA TailIs ==
  ASSUME NEW S, NEW s \in Seq(S), s # <<>>
  PROVE  /\ Tail(s) \in Seq(S) /\ Head(s) \in S /\ Head(s) = s[1] /\ Len(s) > 0
         /\ Len(Tail(s)) = Len(s) - 1
         /\ \A i \in 1..(Len(s) - 1) : Tail(s)[i] = s[i + 1]
OBVIOUS

\* A read puts its chunk at the front of the buffer and leaves what is behind it.
LEMMA FillIs ==
  ASSUME NEW S, NEW old \in Seq(S), NEW chunk \in Seq(S)
  PROVE  /\ Fill(old, chunk) \in Seq(S)
         /\ Len(Fill(old, chunk)) >= Len(chunk) /\ Len(Fill(old, chunk)) >= Len(old)
         /\ \A i \in 1..Len(chunk) : Fill(old, chunk)[i] = chunk[i]
         /\ \A i \in 1..Len(Fill(old, chunk)) : i > Len(chunk) =>
              i \in 1..Len(old) /\ Fill(old, chunk)[i] = old[i]
<1>1. CASE Len(chunk) <= Len(old)
  <2> DEFINE r == SubSeq(old, Len(chunk) + 1, Len(old))
  <2>1. /\ r \in Seq(S) /\ Len(r) = Len(old) - Len(chunk)
        /\ \A i \in 1..(Len(old) - Len(chunk)) : r[i] = old[Len(chunk) + i]
    BY <1>1, DropIs
  <2>2. Fill(old, chunk) = chunk \o r
    BY DEF Fill
  <2> HIDE DEF r
  <2>3. /\ chunk \o r \in Seq(S) /\ Len(chunk \o r) = Len(chunk) + Len(r)
        /\ \A i \in 1..Len(chunk) : (chunk \o r)[i] = chunk[i]
        /\ \A i \in 1..Len(r) : (chunk \o r)[Len(chunk) + i] = r[i]
    BY <2>1, JoinIs
  <2>4. ASSUME NEW i \in 1..Len(chunk \o r), i > Len(chunk)
        PROVE  i \in 1..Len(old) /\ (chunk \o r)[i] = old[i]
    <3>1. i - Len(chunk) \in 1..Len(r) /\ i = Len(chunk) + (i - Len(chunk))
      BY <2>1, <2>3, <2>4
    <3> QED BY <1>1, <2>1, <2>3, <3>1
  <2> QED BY <1>1, <2>1, <2>2, <2>3, <2>4
<1>2. CASE Len(chunk) > Len(old)
  <2>1. SubSeq(old, Len(chunk) + 1, Len(old)) = <<>>
    BY <1>2
  <2>2. Fill(old, chunk) = chunk
    BY <2>1, ConcatEmptySeq DEF Fill
  <2> QED BY <1>2, <2>2
<1> QED BY <1>1, <1>2

\* Every number of a message says that it is data or a reply.
LEMMA SentIs ==
  ASSUME TypeInv
  PROVE  /\ Len(packet) = 3
         /\ \A x \in Side : SentBy(x) \in Nat
BY BroughtIs DEF TypeInv, TypeOK, SentBy

THEOREM TypeInit == Init => TypeInv
<1> SUFFICES ASSUME Init PROVE TypeInv
  OBVIOUS
<1>1. request \in [command : {"CONNECT", "BIND", "UNKNOWN"}, port : PortNumber,
                  address : [1..4 -> Byte], isSocks4a : BOOLEAN, domain : Seq(Byte)]
  <2>1. <<0, 0, 0, 0>> \in [1..4 -> Byte] /\ 0 \in PortNumber
    <3>1. 0 \in PortNumber
      BY PortIs DEF MaxPort
    <3> QED BY <3>1 DEF Byte
  <2> QED BY <2>1 DEF Init, NoRequest
<1>2. HistoryType
  BY DEF Init, HistoryType, NoHistory
<1>3. chain \in [Side -> [Chain -> RelayType]]
  BY DEF Init, Off, RelayType
<1>4. FilledInv
  BY DEF Init, FilledInv, Off
<1>5. UnreadInv
  BY DEF Init, UnreadInv, NoHistory
<1>6. /\ sent \in [Side -> Nat]
      /\ inq \in [Side -> Seq(Units)]
      /\ outq \in [Side -> Seq(Units)] /\ \A x \in Side : Len(outq[x]) <= Window
      /\ got \in [Side -> Seq(Units)] /\ buf \in [Side -> Seq(Units)]
  BY SocksBoundAssumption DEF Init
<1>7. /\ want \in Wants /\ pieces \in 0..3
      /\ rst \subseteq gone /\ gone \subseteq Side /\ shut \subseteq Side
      /\ pc \in {"request", "resolve", "run", "done"}
      /\ conn \in {"none", "connecting", "up", "failed", "cleared"}
      /\ waiting \in BOOLEAN
      /\ posted \in Seq({"ok", "error"})
      /\ accepts \in Nat /\ callers \in Nat /\ late \in Nat
  <2>1. /\ want \in Wants /\ pieces = 0 /\ rst = {} /\ gone = {} /\ shut = {}
        /\ pc = "request" /\ conn = "none" /\ waiting = FALSE /\ posted = <<>>
        /\ accepts = 0 /\ callers = 0 /\ late = 0
    BY DEF Init
  <2>2. <<>> \in Seq({"ok", "error"})
    OBVIOUS
  <2>3. posted \in Seq({"ok", "error"})
    BY ONLY <2>1, <2>2
  <2>4. rst \subseteq gone /\ gone \subseteq Side /\ shut \subseteq Side
    BY ONLY <2>1
  <2>5. waiting \in BOOLEAN
    BY ONLY <2>1
  <2>6. pieces \in 0..3 /\ accepts \in Nat /\ callers \in Nat /\ late \in Nat
    BY ONLY <2>1
  <2>7. /\ pc \in {"request", "resolve", "run", "done"}
        /\ conn \in {"none", "connecting", "up", "failed", "cleared"}
    BY ONLY <2>1
  <2> QED BY ONLY <2>1, <2>3, <2>4, <2>5, <2>6, <2>7, Zenon
<1> QED BY ONLY <1>1, <1>2, <1>3, <1>4, <1>5, <1>6, <1>7 DEF TypeInv, TypeOK, RelayType

\* What the peers and the network do.
LEMMA TypeOutside ==
  ASSUME TypeInv, SendPiece \/ HostAnswers \/ HostCalls \/ \E x \in Side : Peer(x)
  PROVE  TypeInv'
<1> USE DEF TypeInv, peers, connecting, relay
<1>1. CASE SendPiece
  <2>0. pieces \in 0..3 /\ Len(packet) = 3
    BY SentIs DEF TypeOK
  <2>1. pieces' \in 0..3 /\ pieces' \in Nat
    BY ONLY <1>1, <2>0 DEF SendPiece
  <2>2. Append(inq["client"], Unit(pieces')) \in Seq(Units)
    BY <2>1, UnitIs, SideIs DEF TypeOK
  <2>3. inq' \in [Side -> Seq(Units)]
    BY <1>1, <2>2 DEF SendPiece, TypeOK
  <2>4. TypeOK'
    BY <1>1, <2>1, <2>3 DEF SendPiece, TypeOK
  <2> QED BY <1>1, <2>4 DEF SendPiece, HistoryType, FilledInv, UnreadInv
<1>2. CASE HostAnswers
  BY <1>2 DEF HostAnswers, TypeOK, HistoryType, FilledInv, UnreadInv
<1>3. CASE HostCalls
  BY <1>3 DEF HostCalls, TypeOK, HistoryType, FilledInv, UnreadInv
<1>4. ASSUME NEW x \in Side, SendData(x) PROVE TypeInv'
  <2>0. sent \in [Side -> Nat] /\ sent[x] + 1 \in Nat /\ pieces \in Nat
    BY SMTT(20) DEF TypeOK
  <2>1. sent' \in [Side -> Nat] /\ sent'[x] \in Nat
    BY ONLY <1>4, <2>0 DEF SendData
  <2> DEFINE n == sent'[x] + pieces * (IF x = "client" THEN 1 ELSE 0)
  <2>2. n \in Nat
    BY ONLY <2>0, <2>1
  <2>3. inq' = [inq EXCEPT ![x] = Append(@, Unit(n))]
    BY <1>4 DEF SendData
  <2> HIDE DEF n
  <2>4. Append(inq[x], Unit(n)) \in Seq(Units)
    BY <2>2, UnitIs DEF TypeOK
  <2>5. inq' \in [Side -> Seq(Units)]
    BY <2>3, <2>4 DEF TypeOK
  <2>6. TypeOK'
    BY <1>4, <2>1, <2>5 DEF SendData, TypeOK
  <2> QED BY <1>4, <2>6 DEF SendData, HistoryType, FilledInv, UnreadInv
<1>5. ASSUME NEW x \in Side, PeerReads(x) PROVE TypeInv'
  <2>1. /\ Tail(outq[x]) \in Seq(Units) /\ Head(outq[x]) \in Units
        /\ Len(Tail(outq[x])) <= Len(outq[x])
    BY <1>5, TailIs DEF PeerReads, TypeOK
  <2>2. Append(got[x], Head(outq[x])) \in Seq(Units)
    BY <2>1 DEF TypeOK
  <2>3. Len(Tail(outq[x])) <= Window
    BY <2>1, SocksBoundAssumption DEF TypeOK
  <2>4. /\ got' \in [Side -> Seq(Units)] /\ outq' \in [Side -> Seq(Units)]
        /\ \A y \in Side : Len(outq'[y]) <= Window
    BY <1>5, <2>1, <2>2, <2>3 DEF PeerReads, TypeOK
  <2>5. TypeOK'
    BY <1>5, <2>4 DEF PeerReads, TypeOK
  <2> QED BY <1>5, <2>5 DEF PeerReads, HistoryType, FilledInv, UnreadInv
<1>6. ASSUME NEW x \in Side, PeerCloses(x) PROVE TypeInv'
  <2>1. /\ outq' \in [Side -> Seq(Units)] /\ inq' \in [Side -> Seq(Units)]
        /\ \A y \in Side : Len(outq'[y]) <= Window
    <3>1. /\ outq \in [Side -> Seq(Units)] /\ inq \in [Side -> Seq(Units)]
          /\ \A y \in Side : Len(outq[y]) <= Window
          /\ <<>> \in Seq(Units) /\ Len(<<>>) <= Window
      BY SMTT(20), SocksBoundAssumption DEF TypeOK
    <3> QED BY ONLY <1>6, <3>1 DEF PeerCloses
  <2>2. rst' \subseteq gone' /\ gone' \subseteq Side
    BY <1>6 DEF PeerCloses, TypeOK
  <2>3. TypeOK'
    BY <1>6, <2>1, <2>2 DEF PeerCloses, TypeOK
  <2> QED BY <1>6, <2>3 DEF PeerCloses, HistoryType, FilledInv, UnreadInv
<1> QED BY <1>1, <1>2, <1>3, <1>4, <1>5, <1>6 DEF Peer

\* A garbage register is one, and the request that is read is a request.
LEMMA ReadIs ==
  ASSUME TypeInv, ReadRequest
  PROVE  \E n \in 1..3, k \in 1..Len(inq["client"]), g \in Register :
           /\ request' = Parse(g, Brought(n))
           /\ request' \in RequestType
           /\ inq' = [inq EXCEPT !["client"] = SubSeq(@, k + 1, Len(@))]
           /\ inq' \in [Side -> Seq(Units)]
           /\ history' = [history EXCEPT !.read = n, !.swallowed = k > n]
           /\ HistoryType' /\ history'.read = n /\ history'.answers = history.answers
           /\ history'.torn = history.torn
<1>1. PICK k \in 1..Len(inq["client"]), g \in {<<0, 0, 0, 0>>, <<255, 255, 255, 255>>} :
        LET n == IF k < Len(packet) THEN k ELSE Len(packet)
        IN  /\ request' = Parse(g, Brought(n))
            /\ inq' = [inq EXCEPT !["client"] = SubSeq(@, k + 1, Len(@))]
            /\ history' = [history EXCEPT !.read = n, !.swallowed = k > n]
  BY DEF ReadRequest
<1> DEFINE n == IF k < Len(packet) THEN k ELSE Len(packet)
<1>2. n \in 1..3
  <2>1. Len(packet) = 3 /\ Len(inq["client"]) \in Nat
    BY SMTT(20), SentIs, SideIs DEF TypeInv, TypeOK
  <2> QED BY ONLY <1>1, <2>1
<1>3. /\ request' = Parse(g, Brought(n))
      /\ inq' = [inq EXCEPT !["client"] = SubSeq(@, k + 1, Len(@))]
      /\ history' = [history EXCEPT !.read = n, !.swallowed = k > n]
  BY <1>1
<1>4. g \in Register
  BY <1>1 DEF Register, Byte
<1> HIDE DEF n
<1>5. request' \in RequestType
  BY <1>2, <1>3, <1>4, BroughtIs, ParseType DEF TypeInv, TypeOK
<1>6. inq' \in [Side -> Seq(Units)]
  <2>1. SubSeq(inq["client"], k + 1, Len(inq["client"])) \in Seq(Units)
    <3>1. inq["client"] \in Seq(Units) /\ k \in 0..Len(inq["client"])
      BY <1>1, SideIs DEF TypeInv, TypeOK
    <3> QED BY ONLY <3>1, DropIs
  <2> QED BY <1>3, <2>1 DEF TypeInv, TypeOK
<1>7. /\ HistoryType' /\ history'.read = n /\ history'.answers = history.answers
      /\ history'.torn = history.torn
  <2>1. /\ history \in [read : Nat, swallowed : BOOLEAN, torn : SUBSET Side,
                        answers : Seq({"ACCEPT", "REJECT"}), skipped : BOOLEAN]
        /\ n \in Nat /\ (k > n) \in BOOLEAN
    BY <1>2 DEF TypeInv, HistoryType
  <2> DEFINE b == k > n
  <2>2. history' = [history EXCEPT !.read = n, !.swallowed = b]
    BY <1>3
  <2> HIDE DEF b
  <2>3. b \in BOOLEAN
    BY DEF b
  <2> QED BY ONLY <2>1, <2>2, <2>3 DEF HistoryType
<1> QED BY <1>1, <1>2, <1>3, <1>4, <1>5, <1>6, <1>7

LEMMA PostedIs ==
  ASSUME TypeInv, NEW e \in {"ok", "error"}
  PROVE  Append(posted, e) \in Seq({"ok", "error"})
BY DEF TypeInv, TypeOK

\* What each outcome of async_connect does.
LEMMA AsyncIs ==
  ASSUME TypeInv, NEW address, AsyncConnect(address)
  PROVE  /\ conn' \in {"none", "connecting", "up", "failed", "cleared"}
         /\ waiting' \in BOOLEAN /\ posted' \in Seq({"ok", "error"}) /\ HistoryType'
         /\ history'.answers = history.answers /\ history'.read = history.read
         /\ history'.torn = history.torn
         /\ \/ waiting' /\ posted' = posted /\ conn = "none"
            \/ (waiting' <=> waiting) /\ \E e \in {"ok", "error"} : posted' = Append(posted, e)
<1>1. /\ HistoryType' /\ history'.answers = history.answers /\ history'.read = history.read
      /\ history'.torn = history.torn
  BY DEF TypeInv, HistoryType, AsyncConnect
<1>2. conn' \in {"none", "connecting", "up", "failed", "cleared"}
  BY DEF AsyncConnect, TypeInv, TypeOK
<1>3. \/ waiting' /\ posted' = posted /\ conn = "none"
      \/ (waiting' = waiting) /\ \E e \in {"ok", "error"} : posted' = Append(posted, e)
  BY DEF AsyncConnect
<1>4. waiting \in BOOLEAN /\ posted \in Seq({"ok", "error"})
  BY DEF TypeInv, TypeOK
<1>5. posted' \in Seq({"ok", "error"}) /\ waiting' \in BOOLEAN
  BY <1>3, <1>4, PostedIs DEF AsyncConnect
<1> QED BY <1>1, <1>2, <1>3, <1>4, <1>5

\* What the handlers of the request and of the loop do.
LEMMA TypeRequest ==
  ASSUME TypeInv,
         \/ ReadRequest \/ NoRequestComes \/ DoResolve \/ SkipV6 \/ Connect \/ Bind \/ Refuse
         \/ LateReply \/ End
  PROVE  TypeInv'
<1> USE DEF TypeInv, peers, connecting, relay
<1>1. CASE ReadRequest
  <2>1. PICK n \in 1..3, k \in 1..Len(inq["client"]), g \in Register :
           /\ request' \in RequestType
           /\ inq' \in [Side -> Seq(Units)]
           /\ HistoryType'
    BY <1>1, ReadIs
  <2>2. TypeOK'
    BY <1>1, <2>1 DEF ReadRequest, TypeOK, RequestType, Register
  <2> QED BY <1>1, <2>1, <2>2 DEF ReadRequest, FilledInv, UnreadInv
<1>2. CASE NoRequestComes
  BY <1>2 DEF NoRequestComes, TypeOK, HistoryType, FilledInv, UnreadInv
<1>3. CASE DoResolve
  BY <1>3 DEF DoResolve, TypeOK, HistoryType, FilledInv, UnreadInv
<1>4. CASE SkipV6
  BY <1>4 DEF SkipV6, TypeOK, HistoryType, FilledInv, UnreadInv
<1>5. CASE Connect
  <2>1. /\ conn' \in {"none", "connecting", "up", "failed", "cleared"}
        /\ waiting' \in BOOLEAN /\ posted' \in Seq({"ok", "error"}) /\ HistoryType'
        /\ history'.read = history.read
    BY <1>5, AsyncIs DEF Connect
  <2>2. TypeOK'
    BY <1>5, <2>1 DEF Connect, TypeOK
  <2> QED BY <1>5, <2>1, <2>2 DEF Connect, FilledInv, UnreadInv
<1>6. CASE Bind
  <2>1. /\ outq' \in [Side -> Seq(Units)] /\ \A x \in Side : Len(outq'[x]) <= Window
        /\ late' \in Nat /\ HistoryType' /\ history'.read = history.read
    BY <1>6, ReplyIs DEF Bind
  <2>2. TypeOK'
    BY <1>6, <2>1 DEF Bind, TypeOK
  <2> QED BY <1>6, <2>1, <2>2 DEF Bind, FilledInv, UnreadInv
<1>7. CASE Refuse
  <2>1. /\ outq' \in [Side -> Seq(Units)] /\ \A x \in Side : Len(outq'[x]) <= Window
        /\ late' \in Nat /\ HistoryType' /\ history'.read = history.read
    BY <1>7, ReplyIs DEF Refuse
  <2>2. TypeOK'
    BY <1>7, <2>1 DEF Refuse, TypeOK
  <2> QED BY <1>7, <2>1, <2>2 DEF Refuse, FilledInv, UnreadInv
<1>8. CASE LateReply
  <2>1. outq' \in [Side -> Seq(Units)] /\ \A x \in Side : Len(outq'[x]) <= Window
    <3>1. /\ outq \in [Side -> Seq(Units)] /\ \A x \in Side : Len(outq[x]) <= Window
      BY DEF TypeOK
    <3>2. CASE UNCHANGED outq
      BY <3>1, <3>2
    <3>3. CASE /\ Len(outq["client"]) < Window
               /\ outq' = [outq EXCEPT !["client"] = Append(@, Reply("garbage"))]
      <4> DEFINE v == Append(outq["client"], Reply("garbage"))
      <4>1. v \in Seq(Units) /\ Len(v) = Len(outq["client"]) + 1 /\ Len(outq["client"]) \in Nat
        BY <3>1, UnitIs, SideIs
      <4>2. outq' = [outq EXCEPT !["client"] = v]
        BY <3>3
      <4> HIDE DEF v
      <4>3. Len(v) <= Window
        BY ONLY <3>3, <4>1, SocksBoundAssumption
      <4> QED BY ONLY <3>1, <4>1, <4>2, <4>3
    <3> QED BY <1>8, <3>2, <3>3 DEF LateReply
  <2>2. late' \in Nat
    BY <1>8 DEF LateReply, TypeOK
  <2>3. TypeOK'
    BY <1>8, <2>1, <2>2 DEF LateReply, TypeOK
  <2> QED BY <1>8, <2>3 DEF LateReply, HistoryType, FilledInv, UnreadInv
<1>9. CASE End
  BY <1>9 DEF End, TypeOK, HistoryType, FilledInv, UnreadInv
<1> QED BY <1>1, <1>2, <1>3, <1>4, <1>5, <1>6, <1>7, <1>8, <1>9

\* An outcome of a connect: a reply, and if it is a success a relay.
LEMMA AnswerIs ==
  ASSUME TypeInv, NEW ok \in BOOLEAN, Answer(ok)
  PROVE  /\ \E a \in {"ACCEPT", "REJECT"} : DoReply(a) /\ (a = "ACCEPT" <=> ok)
         /\ chain' \in [Side -> [Chain -> RelayType]]
         /\ \A x \in Side, j \in Chain : chain'[x][j] = chain[x][j] \/ chain'[x][j].st = "read"
         /\ ok \/ UNCHANGED chain
         /\ ok => StartRelay
<1>1. CASE ok
  <2>1. DoReply("ACCEPT") /\ StartRelay
    BY <1>1 DEF Answer
  <2> QED BY <1>1, <2>1, StartIs
<1>2. CASE ~ok
  BY <1>2 DEF Answer, TypeInv, TypeOK, RelayType
<1> QED BY <1>1, <1>2

LEMMA FilledKept ==
  ASSUME FilledInv, UNCHANGED buf,
         \A x \in Side, j \in Chain : chain'[x][j] = chain[x][j] \/ chain'[x][j].st # "write"
  PROVE  FilledInv'
BY DEF FilledInv

\* What the handlers of a connect and of an accept do.
LEMMA TypeAnswer ==
  ASSUME TypeInv, ConnectDone \/ ConnectPosted \/ AcceptDone
  PROVE  TypeInv'
<1> USE DEF TypeInv, peers, connecting, relay
<1>1. ASSUME NEW ok \in BOOLEAN, Connected(ok), waiting' \in BOOLEAN, posted' \in Seq({"ok", "error"})
      PROVE  TypeInv'
  <2>1. /\ chain' \in [Side -> [Chain -> RelayType]]
        /\ \A x \in Side, j \in Chain : chain'[x][j] = chain[x][j] \/ chain'[x][j].st = "read"
    BY <1>1, AnswerIs DEF Connected
  <2>2. PICK a \in {"ACCEPT", "REJECT"} : DoReply(a)
    BY <1>1, AnswerIs DEF Connected
  <2>3. /\ outq' \in [Side -> Seq(Units)] /\ \A x \in Side : Len(outq'[x]) <= Window
        /\ late' \in Nat /\ HistoryType' /\ history'.read = history.read
    BY <2>2, ReplyIs
  <2>4. TypeOK'
    BY <1>1, <2>1, <2>3 DEF Connected, TypeOK, RelayType
  <2>5. FilledInv'
    BY <1>1, <2>1, FilledKept DEF Connected
  <2> QED BY <1>1, <2>3, <2>4, <2>5 DEF Connected, UnreadInv
<1>2. CASE ConnectDone
  BY <1>1, <1>2 DEF ConnectDone, TypeOK
<1>3. CASE ConnectPosted
  <2>1. posted' \in Seq({"ok", "error"}) /\ waiting' \in BOOLEAN
    BY <1>3 DEF ConnectPosted, TypeOK
  <2> QED BY <1>1, <1>3, <2>1 DEF ConnectPosted
<1>4. CASE AcceptDone
  <2>1. /\ chain' \in [Side -> [Chain -> RelayType]]
        /\ \A x \in Side, j \in Chain : chain'[x][j] = chain[x][j] \/ chain'[x][j].st = "read"
    <3>1. CASE StartRelay
      BY <3>1, StartIs
    <3>2. CASE UNCHANGED chain
      BY <3>2 DEF TypeOK, RelayType
    <3> QED BY <1>4, <3>1, <3>2 DEF AcceptDone, Answer
  <2>2. PICK a \in {"ACCEPT", "REJECT"} : DoReply(a)
    BY <1>4 DEF AcceptDone, Answer
  <2>3. /\ outq' \in [Side -> Seq(Units)] /\ \A x \in Side : Len(outq'[x]) <= Window
        /\ late' \in Nat /\ HistoryType' /\ history'.read = history.read
    BY <2>2, ReplyIs
  <2>4. accepts' \in Nat /\ callers' \in Nat /\ conn' \in {"none", "connecting", "up", "failed", "cleared"}
    BY <1>4 DEF AcceptDone, TypeOK
  <2>5. TypeOK'
    BY <1>4, <2>1, <2>3, <2>4 DEF AcceptDone, TypeOK, RelayType
  <2>6. FilledInv'
    BY <1>4, <2>1, FilledKept DEF AcceptDone
  <2> QED BY <1>4, <2>3, <2>5, <2>6 DEF AcceptDone, UnreadInv
<1> QED BY <1>2, <1>3, <1>4

\* A chunk is moved from the socket to the front of the buffer.
LEMMA RelayReadsIs ==
  ASSUME TypeInv, NEW x \in Side, NEW i \in Chain, RelayReads(x, i)
  PROVE  \E k \in 1..Len(inq[x]) :
           /\ Set(x, i, "write", k)
           /\ inq' \in [Side -> Seq(Units)] /\ Len(inq'[x]) = Len(inq[x]) - k
           /\ \A j \in 1..Len(inq'[x]) : inq'[x][j] = inq[x][k + j]
           /\ \A y \in Side : y # x => inq'[y] = inq[y] /\ buf'[y] = buf[y]
           /\ buf' \in [Side -> Seq(Units)]
           /\ Len(buf'[x]) >= k /\ Len(buf'[x]) >= Len(buf[x])
           /\ \A j \in 1..k : buf'[x][j] = inq[x][j]
           /\ \A j \in 1..Len(buf'[x]) : j > k => j \in 1..Len(buf[x]) /\ buf'[x][j] = buf[x][j]
<1>1. PICK k \in 1..Len(inq[x]) :
        /\ inq' = [inq EXCEPT ![x] = SubSeq(@, k + 1, Len(@))]
        /\ buf' = [buf EXCEPT ![x] = Fill(@, SubSeq(inq[x], 1, k))]
        /\ Set(x, i, "write", k)
  BY DEF RelayReads
<1> DEFINE r == SubSeq(inq[x], k + 1, Len(inq[x]))
           c == SubSeq(inq[x], 1, k)
           b == Fill(buf[x], c)
<1>2. /\ inq \in [Side -> Seq(Units)] /\ buf \in [Side -> Seq(Units)]
      /\ inq[x] \in Seq(Units) /\ buf[x] \in Seq(Units)
  BY DEF TypeInv, TypeOK
<1>3. k \in 0..Len(inq[x]) /\ k \in Nat
  BY <1>1, <1>2
<1>4. /\ r \in Seq(Units) /\ Len(r) = Len(inq[x]) - k
      /\ \A j \in 1..(Len(inq[x]) - k) : r[j] = inq[x][k + j]
  BY ONLY <1>2, <1>3, DropIs
<1>5. c \in Seq(Units) /\ Len(c) = k /\ \A j \in 1..k : c[j] = inq[x][j]
  BY ONLY <1>2, <1>3, TakeIs
<1>6. inq' = [inq EXCEPT ![x] = r] /\ buf' = [buf EXCEPT ![x] = b]
  BY <1>1
<1> HIDE DEF r, c
<1>f. ASSUME NEW old \in Seq(Units), NEW d \in Seq(Units)
      PROVE  /\ Fill(old, d) \in Seq(Units) /\ Len(Fill(old, d)) >= Len(d) /\ Len(Fill(old, d)) >= Len(old)
             /\ \A j \in 1..Len(d) : Fill(old, d)[j] = d[j]
             /\ \A j \in 1..Len(Fill(old, d)) : j > Len(d) => j \in 1..Len(old) /\ Fill(old, d)[j] = old[j]
  BY ONLY <1>f, FillIs
<1>7. /\ b \in Seq(Units) /\ Len(b) >= Len(c) /\ Len(b) >= Len(buf[x])
      /\ \A j \in 1..Len(c) : b[j] = c[j]
      /\ \A j \in 1..Len(b) : j > Len(c) => j \in 1..Len(buf[x]) /\ b[j] = buf[x][j]
  BY <1>f, <1>2, <1>5, Zenon
<1> HIDE DEF b
<1>8. /\ inq' \in [Side -> Seq(Units)] /\ buf' \in [Side -> Seq(Units)]
      /\ inq'[x] = r /\ buf'[x] = b
      /\ \A y \in Side : y # x => inq'[y] = inq[y] /\ buf'[y] = buf[y]
  BY ONLY <1>2, <1>4, <1>6, <1>7
<1>9. /\ Len(inq'[x]) = Len(inq[x]) - k
      /\ \A j \in 1..Len(inq'[x]) : inq'[x][j] = inq[x][k + j]
  BY ONLY <1>4, <1>8
<1>10. /\ Len(buf'[x]) >= k /\ Len(buf'[x]) >= Len(buf[x])
       /\ \A j \in 1..k : buf'[x][j] = inq[x][j]
       /\ \A j \in 1..Len(buf'[x]) : j > k => j \in 1..Len(buf[x]) /\ buf'[x][j] = buf[x][j]
  BY ONLY <1>5, <1>7, <1>8
<1> QED BY ONLY <1>1, <1>8, <1>9, <1>10

\* As much of the chunk as there is space for goes to the other side.
LEMMA RelayWritesIs ==
  ASSUME TypeInv, NEW x \in Side, NEW i \in Chain, RelayWrites(x, i)
  PROVE  \E k \in 1..chain[x][i].len :
           /\ Set(x, i, "read", 0)
           /\ k <= Len(buf[x])
           /\ outq' \in [Side -> Seq(Units)] /\ \A y \in Side : Len(outq'[y]) <= Window
           /\ Len(outq'[Other[x]]) = Len(outq[Other[x]]) + k
           /\ \A j \in 1..Len(outq[Other[x]]) : outq'[Other[x]][j] = outq[Other[x]][j]
           /\ \A j \in 1..k : outq'[Other[x]][Len(outq[Other[x]]) + j] = buf[x][j]
           /\ outq'[x] = outq[x]
           /\ HistoryType' /\ history'.answers = history.answers /\ history'.read = history.read
           /\ history'.skipped = history.skipped
           /\ history'.torn = IF k < chain[x][i].len THEN history.torn \cup {x} ELSE history.torn
<1> DEFINE y == Other[x]
           n == chain[x][i].len
           k == IF n <= Space(y) THEN n ELSE Space(y)
           c == SubSeq(buf[x], 1, k)
           v == outq[y] \o c
<1>1. /\ chain[x][i].st = "write" /\ k > 0
      /\ outq' = [outq EXCEPT ![y] = v]
      /\ history' = IF k < n THEN [history EXCEPT !.torn = @ \cup {x}] ELSE history
      /\ Set(x, i, "read", 0)
  BY DEF RelayWrites
<1>2. /\ y \in Side /\ y # x
      /\ outq \in [Side -> Seq(Units)] /\ buf[x] \in Seq(Units) /\ outq[y] \in Seq(Units)
      /\ \A z \in Side : Len(outq[z]) <= Window
      /\ n \in Nat /\ Len(outq[y]) \in Nat
  <2>1. y \in Side /\ y # x
    BY SideIs
  <2>2. /\ outq \in [Side -> Seq(Units)] /\ buf \in [Side -> Seq(Units)]
        /\ \A z \in Side : Len(outq[z]) <= Window
        /\ chain[x][i].len \in Nat
    BY DEF TypeInv, TypeOK
  <2> HIDE DEF y
  <2> QED BY <2>1, <2>2
<1>3. n \in 1..Len(buf[x])
  BY <1>1 DEF TypeInv, FilledInv
<1>4. Window \in Nat /\ Space(y) = Window - Len(outq[y])
  BY SocksBoundAssumption DEF Space
<1>5. k \in 1..n /\ k <= Len(buf[x]) /\ k \in 0..Len(buf[x]) /\ Len(outq[y]) + k <= Window
  <2>1. n <= Len(buf[x]) /\ Len(buf[x]) \in Nat /\ Space(y) \in Int
    BY <1>2, <1>3, <1>4
  <2>2. k > 0 /\ (k = n \/ (k = Space(y) /\ ~(n <= Space(y)))) /\ (k = n => n <= Space(y))
    BY <1>1, <1>2, <1>3, <1>4
  <2> HIDE DEF k, n, y
  <2> QED BY ONLY <1>2, <1>4, <2>1, <2>2
<1> HIDE DEF k
<1>6. c \in Seq(Units) /\ Len(c) = k /\ \A j \in 1..k : c[j] = buf[x][j]
  BY ONLY <1>2, <1>5, TakeIs
<1> HIDE DEF c
<1>j. ASSUME NEW s \in Seq(Units), NEW t \in Seq(Units)
      PROVE  /\ s \o t \in Seq(Units) /\ Len(s \o t) = Len(s) + Len(t)
             /\ \A j \in 1..Len(s) : (s \o t)[j] = s[j]
             /\ \A j \in 1..Len(t) : (s \o t)[Len(s) + j] = t[j]
  BY ONLY <1>j, JoinIs
<1>7. /\ v \in Seq(Units) /\ Len(v) = Len(outq[y]) + Len(c)
      /\ \A j \in 1..Len(outq[y]) : v[j] = outq[y][j]
      /\ \A j \in 1..Len(c) : v[Len(outq[y]) + j] = c[j]
  BY <1>2, <1>6, <1>j, Zenon
<1> HIDE DEF v, y, n
<1>8. /\ outq' \in [Side -> Seq(Units)] /\ \A z \in Side : Len(outq'[z]) <= Window
      /\ outq'[y] = v /\ outq'[x] = outq[x]
  BY ONLY <1>1, <1>2, <1>5, <1>6, <1>7
<1>9. /\ HistoryType' /\ history'.answers = history.answers /\ history'.read = history.read
      /\ history'.skipped = history.skipped
      /\ history'.torn = IF k < n THEN history.torn \cup {x} ELSE history.torn
  <2>1. HistoryType
    BY DEF TypeInv
  <2> QED BY ONLY <1>1, <2>1 DEF HistoryType
<1> USE DEF y, n
<1> QED BY <1>1, <1>5, <1>6, <1>7, <1>8, <1>9

\* What the relays do.
LEMMA TypeRelay ==
  ASSUME TypeInv, NEW x \in Side, Relay(x)
  PROVE  TypeInv'
<1> USE DEF TypeInv, peers, connecting, relay
<1>0. PICK i \in Chain : RelayReads(x, i) \/ RelayEnds(x, i) \/ RelayWrites(x, i) \/ RelayFails(x, i)
  BY DEF Relay
<1>1. ASSUME NEW st \in {"read", "end"}, Set(x, i, st, 0)
      PROVE  /\ chain' \in [Side -> [Chain -> RelayType]]
             /\ UNCHANGED buf => FilledInv'
  <2>1. /\ chain' \in [Side -> [Chain -> RelayType]]
        /\ \A y \in Side, j \in Chain : chain'[y][j] = chain[y][j] \/ chain'[y][j].st = st
    BY <1>1, SetIs
  <2> QED BY <2>1, FilledKept
<1>2. CASE RelayReads(x, i)
  <2>1. PICK k \in 1..Len(inq[x]) :
           /\ Set(x, i, "write", k)
           /\ inq' \in [Side -> Seq(Units)] /\ Len(inq'[x]) = Len(inq[x]) - k
           /\ \A y \in Side : y # x => inq'[y] = inq[y] /\ buf'[y] = buf[y]
           /\ buf' \in [Side -> Seq(Units)]
           /\ Len(buf'[x]) >= k /\ Len(buf'[x]) >= Len(buf[x])
    BY <1>2, RelayReadsIs
  <2>2. k \in Nat /\ k > 0
    BY <2>1 DEF TypeOK
  <2>3. /\ chain' \in [Side -> [Chain -> RelayType]]
        /\ chain'[x][i].st = "write" /\ chain'[x][i].len = k
        /\ \A y \in Side, j \in Chain : (y # x \/ j # i) => chain'[y][j] = chain[y][j]
    BY <2>1, <2>2, SetIs
  <2>4. FilledInv'
    <3>1. /\ buf \in [Side -> Seq(Units)]
          /\ \A y \in Side, j \in Chain : chain[y][j].len \in Nat
          /\ FilledInv
      BY DEF TypeOK
    <3>2. \A y \in Side : Len(buf[y]) \in Nat /\ Len(buf'[y]) \in Nat /\ Len(buf[y]) <= Len(buf'[y])
      <4>1. ASSUME NEW y \in Side
            PROVE  Len(buf[y]) \in Nat /\ Len(buf'[y]) \in Nat /\ Len(buf[y]) <= Len(buf'[y])
        <5>1. buf[y] \in Seq(Units) /\ buf'[y] \in Seq(Units)
          BY ONLY <2>1, <3>1, <4>1
        <5>2. Len(buf[y]) \in Nat /\ Len(buf'[y]) \in Nat
          BY ONLY <5>1
        <5>3. Len(buf[y]) <= Len(buf'[y])
          BY ONLY <2>1, <4>1, <5>2
        <5> QED BY <5>2, <5>3
      <4> QED BY <4>1
    <3>3. ASSUME NEW y \in Side, NEW j \in Chain, chain'[y][j].st = "write"
          PROVE  chain'[y][j].len \in 1..Len(buf'[y])
      <4>1. CASE y = x /\ j = i
        BY ONLY <2>1, <2>2, <2>3, <3>2, <4>1
      <4>2. CASE y # x \/ j # i
        <5>1. chain'[y][j] = chain[y][j]
          BY <2>3, <4>2
        <5>2. chain[y][j].len \in 1..Len(buf[y])
          BY <3>1, <3>3, <5>1 DEF FilledInv
        <5> QED BY ONLY <3>1, <3>2, <5>1, <5>2
      <4> QED BY <4>1, <4>2
    <3> QED BY <3>3 DEF FilledInv
  <2>5. TypeOK'
    BY <1>2, <2>1, <2>3 DEF RelayReads, TypeOK, RelayType
  <2> QED BY <1>2, <2>4, <2>5 DEF RelayReads, HistoryType, UnreadInv
<1>3. CASE RelayEnds(x, i)
  <2>1. chain' \in [Side -> [Chain -> RelayType]] /\ FilledInv'
    BY <1>1, <1>3 DEF RelayEnds
  <2>2. shut' \subseteq Side
    BY <1>3 DEF RelayEnds, TypeOK
  <2>3. TypeOK'
    BY <1>3, <2>1, <2>2 DEF RelayEnds, TypeOK, RelayType
  <2> QED BY <1>3, <2>1, <2>3 DEF RelayEnds, HistoryType, UnreadInv
<1>4. CASE RelayWrites(x, i)
  <2>1. /\ Set(x, i, "read", 0)
        /\ outq' \in [Side -> Seq(Units)] /\ \A y \in Side : Len(outq'[y]) <= Window
        /\ HistoryType' /\ history'.read = history.read
    BY <1>4, RelayWritesIs
  <2>2. chain' \in [Side -> [Chain -> RelayType]] /\ FilledInv'
    BY <1>1, <1>4, <2>1 DEF RelayWrites
  <2>3. TypeOK'
    BY <1>4, <2>1, <2>2 DEF RelayWrites, TypeOK, RelayType
  <2> QED BY <1>4, <2>1, <2>2, <2>3 DEF RelayWrites, UnreadInv
<1>5. CASE RelayFails(x, i)
  <2>1. chain' \in [Side -> [Chain -> RelayType]] /\ FilledInv'
    BY <1>1, <1>5 DEF RelayFails
  <2>2. TypeOK'
    BY <1>5, <2>1 DEF RelayFails, TypeOK, RelayType
  <2> QED BY <1>5, <2>1, <2>2 DEF RelayFails, HistoryType, UnreadInv
<1> QED BY <1>0, <1>2, <1>3, <1>4, <1>5

LEMMA TypeStep == TypeInv /\ [Next]_vars => TypeInv'
<1> SUFFICES ASSUME TypeInv, [Next]_vars PROVE TypeInv'
  OBVIOUS
<1>1. CASE UNCHANGED vars
  BY <1>1 DEF vars, peers, connecting, relay, TypeInv, TypeOK, HistoryType, FilledInv, UnreadInv
<1> QED BY <1>1, TypeOutside, TypeRequest, TypeAnswer, TypeRelay DEF Next, Handler

LEMMA TypesHold == Spec => []TypeInv
BY TypeInit, TypeStep, PTL DEF Spec

\* The sockets, the operations, the relays and the request that is read have their types.
THEOREM SessionTypesCorrect == Spec => []TypeOK
<1>1. TypeInv => TypeOK
  BY DEF TypeInv
<1> QED BY <1>1, TypesHold, PTL

-----------------------------------------------------------------------------
\* The request.

\* Only the read of the request decides what is read and requested.
LEMMA RequestKept ==
  ASSUME TypeInv, [Next]_vars
  PROVE  /\ UNCHANGED want
         /\ ReadRequest \/ (UNCHANGED request /\ history'.read = history.read)
<1> USE DEF connecting, peers, relay
<1>1. CASE UNCHANGED vars
  BY <1>1 DEF vars
<1>2. CASE SendPiece \/ HostAnswers \/ HostCalls
  BY <1>2 DEF SendPiece, HostAnswers, HostCalls
<1>3. ASSUME NEW x \in Side, Peer(x) PROVE UNCHANGED <<want, request, history>>
  BY <1>3 DEF Peer, SendData, PeerReads, PeerCloses
<1>4. ASSUME NEW x \in Side, Relay(x)
      PROVE  UNCHANGED <<want, request>> /\ history'.read = history.read
  <2>1. PICK i \in Chain : RelayReads(x, i) \/ RelayEnds(x, i) \/ RelayWrites(x, i)
                           \/ RelayFails(x, i)
    BY <1>4 DEF Relay
  <2>2. CASE RelayReads(x, i) \/ RelayEnds(x, i) \/ RelayFails(x, i)
    BY <2>2 DEF RelayReads, RelayEnds, RelayFails
  <2>3. CASE RelayWrites(x, i)
    BY <2>3, RelayWritesIs DEF RelayWrites
  <2> QED BY <2>1, <2>2, <2>3
<1>5. CASE ReadRequest
  BY <1>5 DEF ReadRequest
<1>6. CASE NoRequestComes \/ DoResolve \/ SkipV6 \/ LateReply \/ End
  BY <1>6 DEF NoRequestComes, DoResolve, SkipV6, LateReply, End
<1>7. CASE Connect
  BY <1>7, AsyncIs DEF Connect
<1>8. ASSUME NEW a \in {"ACCEPT", "REJECT"}, DoReply(a) PROVE history'.read = history.read
  BY <1>8, ReplyIs
<1>9. CASE Bind \/ Refuse
  BY <1>8, <1>9 DEF Bind, Refuse
<1>10. CASE ConnectDone \/ ConnectPosted
  <2>1. PICK ok \in BOOLEAN : Connected(ok)
    BY <1>10 DEF ConnectDone, ConnectPosted
  <2>2. history'.read = history.read
    BY <1>8, <2>1, AnswerIs DEF Connected
  <2> QED BY <2>1, <2>2 DEF Connected
<1>11. CASE AcceptDone
  <2>1. Answer(conn = "none") /\ (conn = "none") \in BOOLEAN
    BY <1>11 DEF AcceptDone
  <2>2. history'.read = history.read
    BY <1>8, <2>1, AnswerIs
  <2> QED BY <1>11, <2>2 DEF AcceptDone
<1> QED
  BY <1>1, <1>2, <1>3, <1>4, <1>5, <1>6, <1>7, <1>9, <1>10, <1>11 DEF Next, Handler

LEMMA UnderstoodStep == TypeInv /\ RequestIsUnderstood /\ [Next]_vars => RequestIsUnderstood'
<1> SUFFICES ASSUME TypeInv, RequestIsUnderstood, [Next]_vars PROVE RequestIsUnderstood'
  OBVIOUS
<1>1. Len(packet) = 3 /\ UNCHANGED want /\ want \in Wants
  BY SentIs, RequestKept DEF TypeInv, TypeOK
<1>2. packet' = packet
  BY <1>1 DEF packet
<1>3. CASE ReadRequest
  <2>1. PICK n \in 1..3, k \in 1..Len(inq["client"]), g \in Register :
          request' = Parse(g, Brought(n)) /\ history'.read = n
    BY <1>3, ReadIs
  <2>2. SUFFICES ASSUME n = 3, want.userId = <<>> \/ (want.domain = <<>> /\ Head(want.address) # 0)
                 PROVE  request' = Answered(want)
    BY <1>1, <1>2, <2>1 DEF RequestIsUnderstood, Answered
  <2>3. Brought(n) = Whole(want)
    BY <1>1, <2>2, BroughtIs
  <2> QED BY <1>1, <2>1, <2>2, <2>3, ParsesWhole
<1>4. CASE ~ReadRequest
  <2>1. UNCHANGED request /\ history'.read = history.read
    BY <1>4, RequestKept
  <2>2. pc = "request" => history.read = 0
    BY DEF TypeInv, UnreadInv
  <2> QED BY <1>1, <1>2, <2>1, <2>2 DEF RequestIsUnderstood
<1> QED BY <1>3, <1>4

\* Whatever the client asks for, whatever bytes its address, port and names have, and
\* whatever was in address_: a request that has come whole is understood, with the two
\* exceptions that RequestIsUnderstood names.
THEOREM RequestsAreUnderstood == Spec => []RequestIsUnderstood
<1>1. Init => RequestIsUnderstood
  BY DEF Init, RequestIsUnderstood
<1> QED BY <1>1, TypesHold, UnderstoodStep, PTL DEF Spec

-----------------------------------------------------------------------------
\* One reply for each address.

\* Replies that were given, or will be when the outcome of a connect is handled.
Due == Len(history.answers) + Len(posted) + (IF waiting THEN 1 ELSE 0)

\* The addresses that do_resolve has come to.
Behind == Len(Found) - Len(todo)

\* Nothing is due before the request has been resolved; then a reply for every IPv4
\* address that the loop has come to, for a CONNECT to the end.
DueInv ==
  /\ pc \in {"request", "resolve"} =>
       todo = <<>> /\ history.answers = <<>> /\ posted = <<>> /\ ~waiting /\ conn = "none"
       /\ accepts = 0
  /\ pc = "request" => request.command # "CONNECT"
  /\ pc \notin {"request", "resolve"} =>
       /\ Len(todo) <= Len(Found) /\ \A i \in 1..Len(todo) : todo[i] = Found[Behind + i]
       /\ request.command = "CONNECT" \/ todo # <<>> => Due = Cardinality(V4(Behind))
  /\ waiting => conn # "none"
  /\ accepts > 0 => request.command = "BIND"
  /\ todo \in Seq(Seq(Byte))

LEMMA FoundIs == Found \in Seq(Seq(Byte)) /\ Len(Found) \in Nat
BY SocksLookupAssumption DEF Found

LEMMA V4Is ==
  ASSUME NEW n \in Nat
  PROVE  /\ V4(0) = {} /\ IsFiniteSet(V4(n)) /\ Cardinality(V4(n)) \in Nat
         /\ Cardinality(V4(n + 1)) =
              Cardinality(V4(n)) + (IF Len(Found[n + 1]) = 4 THEN 1 ELSE 0)
<1>1. V4(0) = {}
  BY DEF V4
<1>2. IsFiniteSet(V4(n))
  <2>1. V4(n) \subseteq 1..n /\ IsFiniteSet(1..n)
    BY FS_Interval DEF V4
  <2> QED BY <2>1, FS_Subset
<1>3. Cardinality(V4(n)) \in Nat
  BY <1>2, FS_CardinalityType
<1>4. CASE Len(Found[n + 1]) = 4
  <2>1. V4(n + 1) = V4(n) \cup {n + 1} /\ n + 1 \notin V4(n)
    BY <1>4 DEF V4
  <2>2. Cardinality(V4(n + 1)) = Cardinality(V4(n)) + 1
    BY <1>2, <2>1, FS_AddElement
  <2> QED BY <1>1, <1>2, <1>3, <1>4, <2>2
<1>5. CASE Len(Found[n + 1]) # 4
  <2>1. V4(n + 1) = V4(n)
    BY <1>5 DEF V4
  <2> QED BY <1>1, <1>2, <1>3, <1>5, <2>1
<1> QED BY <1>4, <1>5

LEMMA FoundKept == ASSUME UNCHANGED request PROVE Found' = Found /\ \A n : V4(n)' = V4(n)
BY DEF Found, Host, V4

\* Steps that neither make a reply due nor give one.
LEMMA DueKept ==
  ASSUME DueInv, UNCHANGED <<request, todo, posted, waiting, accepts>>,
         history'.answers = history.answers,
         conn' = "none" <=> conn = "none",
         \/ pc' = pc
         \/ pc = "request" /\ pc' = "run" /\ Len(Found) \in Nat
         \/ {pc, pc'} \cap {"request", "resolve"} = {}
  PROVE  DueInv'
<1>1. Found' = Found /\ \A n : V4(n)' = V4(n)
  BY FoundKept
<1>2. Behind' = Behind /\ Due' = Due
  BY <1>1 DEF Behind, Due
<1>3. Cardinality(V4(Behind))' = Cardinality(V4(Behind))
  BY <1>1, <1>2 DEF V4
<1>4. CASE pc = "request" /\ pc' = "run" /\ Len(Found) \in Nat
  BY <1>1, <1>2, <1>3, <1>4 DEF DueInv
<1>5. CASE pc' = pc \/ {pc, pc'} \cap {"request", "resolve"} = {}
  <2>1. pc' \in {"request", "resolve"} => pc' = pc
    BY <1>5
  <2>2. pc' \notin {"request", "resolve"} => pc \notin {"request", "resolve"}
    BY <1>5
  <2> QED BY <1>1, <1>2, <1>3, <2>1, <2>2 DEF DueInv
<1> QED BY <1>4, <1>5

\* A turn of the loop over the addresses.
LEMMA DueTurn ==
  ASSUME DueInv, TypeInv, TypeInv', todo # <<>>, todo' = Tail(todo), UNCHANGED <<pc, request>>,
         Due' = Due + (IF Len(Head(todo)) = 4 THEN 1 ELSE 0),
         waiting' => conn' # "none", accepts' > 0 => request.command = "BIND"
  PROVE  DueInv'
<1>1. Found' = Found /\ \A n : V4(n)' = V4(n)
  BY FoundKept
<1>2. /\ todo' \in Seq(Seq(Byte)) /\ Head(todo) = todo[1] /\ Len(todo) > 0 /\ Len(todo) \in Nat
      /\ Len(todo') = Len(todo) - 1 /\ \A i \in 1..(Len(todo) - 1) : todo'[i] = todo[i + 1]
  <2>1. todo \in Seq(Seq(Byte))
    BY DEF DueInv
  <2> QED BY <2>1, TailIs
<1>3. /\ pc \notin {"request", "resolve"} /\ Len(todo) <= Len(Found) /\ Len(Found) \in Nat
      /\ \A i \in 1..Len(todo) : todo[i] = Found[Behind + i]
      /\ Due = Cardinality(V4(Behind))
  BY FoundIs DEF DueInv
<1>4. Behind \in Nat /\ Behind' = Behind + 1
  BY <1>1, <1>2, <1>3 DEF Behind
<1>5. \A i \in 1..Len(todo') : todo'[i] = Found[Behind' + i]
  <2>1. ASSUME NEW i \in 1..Len(todo') PROVE todo'[i] = Found[Behind' + i]
    <3>1. i + 1 \in 1..Len(todo) /\ todo'[i] = todo[i + 1]
      BY <1>2
    <3>2. Behind + (i + 1) = Behind' + i
      BY <1>4
    <3> QED BY <1>3, <3>1, <3>2
  <2> QED BY <2>1
<1>6. Found[Behind + 1] = Head(todo)
  BY <1>2, <1>3
<1>7. Due' = Cardinality(V4(Behind + 1))
  BY <1>3, <1>4, <1>6, V4Is
<1>8. Cardinality(V4(Behind))' = Cardinality(V4(Behind + 1))
  BY <1>1, <1>4 DEF V4
<1> QED BY <1>1, <1>2, <1>3, <1>5, <1>7, <1>8 DEF DueInv

\* An outcome of a connect is handled: the reply is given.
LEMMA DueGiven ==
  ASSUME DueInv, TypeInv, Idle, UNCHANGED <<pc, request, todo>>,
         request.command = "CONNECT" => Due' = Due + 0,
         waiting' => conn' # "none", accepts' > 0 => accepts > 0
  PROVE  DueInv'
<1>1. Found' = Found /\ \A n : V4(n)' = V4(n)
  BY FoundKept
<1>2. Behind' = Behind
  BY <1>1 DEF Behind
<1>3. Cardinality(V4(Behind))' = Cardinality(V4(Behind))
  BY <1>1, <1>2 DEF V4
<1>4. ASSUME request.command = "CONNECT", pc \notin {"request", "resolve"}
      PROVE  Due' = Cardinality(V4(Behind))
  <2>1. Due = Cardinality(V4(Behind)) /\ Behind \in Nat
    BY <1>4, FoundIs DEF DueInv, Idle, Behind
  <2>2. Cardinality(V4(Behind)) \in Nat
    BY <2>1, V4Is
  <2> QED BY <1>4, <2>1, <2>2
<1> QED BY <1>1, <1>2, <1>3, <1>4 DEF DueInv, Idle

LEMMA DueInit == Init => DueInv
<1> SUFFICES ASSUME Init PROVE DueInv
  OBVIOUS
<1>1. /\ todo = <<>> /\ history.answers = <<>> /\ posted = <<>> /\ waiting = FALSE /\ conn = "none"
      /\ accepts = 0 /\ pc = "request" /\ request.command = "UNKNOWN"
  BY DEF Init, NoHistory, NoRequest
<1> QED BY <1>1 DEF DueInv

\* A reply is one more answer.
LEMMA DueReply ==
  ASSUME TypeInv, NEW a \in {"ACCEPT", "REJECT"}, DoReply(a)
  PROVE  /\ Len(history'.answers) = Len(history.answers) + 1
         /\ Len(history.answers) \in Nat /\ Len(posted) \in Nat
<1>1. history'.answers = Append(history.answers, a)
  BY ReplyIs
<1>2. history.answers \in Seq({"ACCEPT", "REJECT"}) /\ posted \in Seq({"ok", "error"})
  BY DEF TypeInv, HistoryType, TypeOK
<1> QED BY <1>1, <1>2

\* How the parts of what is due change it.
LEMMA DueIs ==
  ASSUME TypeInv, NEW i \in Int, NEW j \in Int, NEW k \in Int,
         Len(history'.answers) = Len(history.answers) + i, Len(posted') = Len(posted) + j,
         \/ (waiting' <=> waiting) /\ k = i + j
         \/ waiting' /\ ~waiting /\ k = i + j + 1
         \/ ~waiting' /\ waiting /\ k = i + j - 1
  PROVE  Due' = Due + k
<1>1. Len(history.answers) \in Int /\ Len(posted) \in Int
  BY DEF TypeInv, HistoryType, TypeOK
<1> DEFINE w == IF waiting THEN 1 ELSE 0
           v == IF waiting' THEN 1 ELSE 0
<1>2. Due = Len(history.answers) + Len(posted) + w /\ Due' = Len(history'.answers) + Len(posted') + v
  BY Zenon DEF Due
<1>3. (waiting => w = 1) /\ (~waiting => w = 0) /\ (waiting' => v = 1) /\ (~waiting' => v = 0)
  BY Zenon
<1> HIDE DEF w, v
<1>4. w \in Int /\ v \in Int /\ k = i + j + (v - w)
  BY <1>3
<1>5. Len(history'.answers) + Len(posted') + v = Len(history.answers) + Len(posted) + w + k
  <2> DEFINE a == Len(history.answers)
             b == Len(posted)
             c == Len(history'.answers)
             d == Len(posted')
  <2>1. a \in Int /\ b \in Int /\ c = a + i /\ d = b + j
    BY <1>1
  <2> HIDE DEF a, b, c, d
  <2>2. c + d + v = a + b + w + k
    BY ONLY <1>4, <2>1, i \in Int, j \in Int
  <2> QED BY <2>2 DEF a, b, c, d
<1> QED BY <1>2, <1>5, Zenon

LEMMA DueStep == TypeInv /\ TypeInv' /\ DueInv /\ [Next]_vars => DueInv'
<1> SUFFICES ASSUME TypeInv, TypeInv', DueInv, [Next]_vars PROVE DueInv'
  OBVIOUS
<1> USE DEF connecting, peers, relay
<1>0. /\ Len(history.answers) \in Nat /\ Len(posted) \in Nat /\ waiting \in BOOLEAN
      /\ posted \in Seq({"ok", "error"})
  BY DEF TypeInv, HistoryType, TypeOK
<1>i. 0 \in Int /\ 1 \in Int /\ -1 \in Int
  OBVIOUS
<1>1. CASE UNCHANGED vars
  BY <1>1, DueKept DEF vars
<1>2. CASE SendPiece \/ HostAnswers \/ HostCalls
  BY <1>2, DueKept DEF SendPiece, HostAnswers, HostCalls
<1>3. ASSUME NEW x \in Side, Peer(x) PROVE DueInv'
  BY <1>3, DueKept DEF Peer, SendData, PeerReads, PeerCloses
<1>4. ASSUME NEW x \in Side, Relay(x) PROVE DueInv'
  <2>1. PICK i \in Chain : RelayReads(x, i) \/ RelayEnds(x, i) \/ RelayWrites(x, i)
                           \/ RelayFails(x, i)
    BY <1>4 DEF Relay
  <2>2. CASE RelayReads(x, i) \/ RelayEnds(x, i) \/ RelayFails(x, i)
    BY <2>2, DueKept DEF RelayReads, RelayEnds, RelayFails
  <2>3. CASE RelayWrites(x, i)
    <3>1. history'.answers = history.answers
      BY <2>3, RelayWritesIs
    <3> QED BY <2>3, <3>1, DueKept DEF RelayWrites
  <2> QED BY <2>1, <2>2, <2>3
<1>5. CASE ReadRequest
  <2>1. history'.answers = history.answers
    BY <1>5, ReadIs
  <2>3. accepts = 0
    BY <1>5 DEF DueInv, ReadRequest
  <2> QED BY <1>5, <2>1, <2>3 DEF DueInv, ReadRequest
<1>6. CASE NoRequestComes
  BY <1>6, FoundIs, DueKept DEF NoRequestComes
<1>7. CASE DoResolve
  <2>1. /\ UNCHANGED <<request, posted, waiting, conn, accepts, history>> /\ todo' = Found
        /\ pc = "resolve" /\ pc' = "run"
    BY <1>7 DEF DoResolve
  <2>2. Found' = Found /\ Found \in Seq(Seq(Byte)) /\ Len(Found) \in Nat
    BY <2>1, FoundKept, FoundIs
  <2>3. Behind' = 0
    BY <2>1, <2>2 DEF Behind
  <2>4. history.answers = <<>> /\ posted = <<>> /\ ~waiting
    BY <2>1 DEF DueInv
  <2>5. Due' = 0
    BY <2>1, <2>4 DEF Due
  <2>6. Cardinality(V4(Behind))' = 0
    <3>1. V4(Behind)' = {}
      BY <2>3 DEF V4
    <3>2. Cardinality({}) = 0
      BY FS_EmptySet
    <3> QED BY <3>1, <3>2
  <2>7. \A i \in 1..Len(todo') : todo'[i] = Found[0 + i]
    BY <2>1, <2>2
  <2> QED BY <2>1, <2>2, <2>3, <2>4, <2>5, <2>6, <2>7 DEF DueInv
<1>8. CASE SkipV6
  <2>1. Due' = Due + 0
    BY <1>0, <1>8 DEF SkipV6, Due
  <2> QED BY <1>8, <2>1, DueTurn DEF SkipV6, DueInv
<1>9. CASE Connect
  <2>1. Due' = Due + 1
    <3>1. /\ history'.answers = history.answers
          /\ \/ waiting' /\ posted' = posted /\ conn = "none"
             \/ (waiting' <=> waiting) /\ \E e \in {"ok", "error"} : posted' = Append(posted, e)
      BY <1>9, AsyncIs DEF Connect
    <3>2. CASE waiting' /\ posted' = posted /\ conn = "none"
      <4>1. ~waiting
        BY <3>2 DEF DueInv
      <4>2. Len(history'.answers) = Len(history.answers) + 0 /\ Len(posted') = Len(posted) + 0
        BY <1>0, <3>1, <3>2
      <4>3. 1 = 0 + 0 + 1
        OBVIOUS
      <4> QED BY ONLY <3>2, <4>1, <4>2, <4>3, <1>i, TypeInv, DueIs, Zenon
    <3>3. CASE (waiting' <=> waiting) /\ \E e \in {"ok", "error"} : posted' = Append(posted, e)
      <4>1. Len(posted') = Len(posted) + 1 /\ Len(history'.answers) = Len(history.answers) + 0
        BY <1>0, <3>1, <3>3
      <4>2. 1 = 0 + 1
        OBVIOUS
      <4> QED BY ONLY <3>3, <4>1, <4>2, <1>i, TypeInv, DueIs, Zenon
    <3> QED BY <3>1, <3>2, <3>3
  <2>2. waiting' => conn' # "none"
    BY <1>9 DEF Connect, AsyncConnect, DueInv
  <2>3. accepts' > 0 => request.command = "BIND"
    BY <1>9 DEF Connect, DueInv
  <2> QED BY <1>9, <2>1, <2>2, <2>3, DueTurn DEF Connect
<1>10. CASE Bind \/ Refuse
  <2>1. Len(history'.answers) = Len(history.answers) + 1
    BY <1>10, DueReply DEF Bind, Refuse
  <2>2. Due' = Due + 1
    <3>1. posted' = posted /\ (waiting' <=> waiting)
      BY <1>10 DEF Bind, Refuse
    <3>2. Len(posted') = Len(posted) + 0 /\ 1 = 1 + 0
      BY <1>0, <3>1
    <3> QED BY ONLY <2>1, <3>1, <3>2, <1>i, TypeInv, DueIs, Zenon
  <2>3. /\ todo # <<>> /\ todo' = Tail(todo) /\ Len(Head(todo)) = 4
        /\ UNCHANGED <<pc, request, waiting, conn>>
    BY <1>10 DEF Bind, Refuse
  <2>4. accepts' > 0 => request.command = "BIND"
    BY <1>10 DEF Bind, Refuse, DueInv
  <2> QED BY <2>2, <2>3, <2>4, DueTurn DEF DueInv
<1>11. ASSUME NEW ok \in BOOLEAN, Connected(ok)
       PROVE  Len(history'.answers) = Len(history.answers) + 1
  <2>1. PICK a \in {"ACCEPT", "REJECT"} : DoReply(a)
    BY <1>11, AnswerIs DEF Connected
  <2> QED BY <2>1, DueReply
<1>12. CASE ConnectDone
  <2>1. Len(history'.answers) = Len(history.answers) + 1
    BY <1>11, <1>12 DEF ConnectDone
  <2>2. Due' = Due + 0
    <3>1. posted' = posted /\ ~waiting' /\ waiting
      BY <1>12 DEF ConnectDone
    <3>2. Len(posted') = Len(posted) + 0 /\ 0 = 1 + 0 - 1
      BY <1>0, <3>1
    <3> QED BY ONLY <2>1, <3>1, <3>2, <1>i, TypeInv, DueIs, Zenon
  <2> QED BY <1>12, <2>2, DueGiven DEF ConnectDone, Connected
<1>13. CASE ConnectPosted
  <2>1. Len(history'.answers) = Len(history.answers) + 1
    <3>1. PICK ok \in BOOLEAN : Connected(ok)
      BY <1>13 DEF ConnectPosted
    <3> QED BY <1>11, <3>1
  <2>2. posted' = Tail(posted) /\ posted # <<>> /\ UNCHANGED waiting
    BY <1>13 DEF ConnectPosted
  <2>3. Len(posted') = Len(posted) - 1
    BY <1>0, <2>2, TailIs
  <2>4. Due' = Due + 0
    <3>1. Len(posted') = Len(posted) + (-1) /\ 0 = 1 + (-1)
      BY <1>0, <2>3
    <3> QED BY ONLY <2>1, <2>2, <3>1, <1>i, TypeInv, DueIs, Zenon
  <2> QED BY <1>13, <2>2, <2>4, DueGiven DEF ConnectPosted, Connected, DueInv
<1>14. CASE AcceptDone
  <2>1. accepts > 0 /\ request.command = "BIND" /\ Idle /\ UNCHANGED <<pc, request, todo, waiting>>
    BY <1>14 DEF AcceptDone, DueInv
  <2>2. waiting' => conn' # "none"
    BY <1>14 DEF AcceptDone, DueInv
  <2> QED BY <2>1, <2>2, DueGiven
<1>15. CASE LateReply
  BY <1>15, DueKept DEF LateReply
<1>16. CASE End
  BY <1>16, DueKept DEF End, Pending, Idle
<1> QED
  BY <1>1, <1>2, <1>3, <1>4, <1>5, <1>6, <1>7, <1>8, <1>9, <1>10, <1>12, <1>13, <1>14, <1>15,
     <1>16 DEF Next, Handler

LEMMA DueAlways == Spec => []DueInv
BY DueInit, DueStep, TypesHold, PTL DEF Spec

\* However the connects end and in whatever order: a CONNECT gets one reply for each IPv4
\* address that was found.
THEOREM AddressesAreAnswered == Spec => []EveryAddressIsAnswered
<1>1. TypeInv /\ DueInv => EveryAddressIsAnswered
  <2> SUFFICES ASSUME TypeInv, DueInv, Idle, ~waiting, posted = <<>>, request.command = "CONNECT"
               PROVE  Len(history.answers) = Cardinality(V4(Len(Found)))
    BY DEF EveryAddressIsAnswered
  <2>1. Due = Cardinality(V4(Behind)) /\ Len(todo) = 0
    BY DEF DueInv, Idle
  <2>2. Behind = Len(Found)
    BY <2>1, FoundIs DEF Behind
  <2>3. Due = Len(history.answers)
    BY DEF Due, TypeInv, HistoryType
  <2> QED BY <2>1, <2>2, <2>3
<1> QED BY <1>1, TypesHold, DueAlways, PTL

-----------------------------------------------------------------------------
\* The replies to a BIND.

\* The addresses among the first n that the firewall permits, and the others.
OpenTo(n) == {i \in V4(n) : Permitted(Found[i])}
ShutTo(n) == V4(n) \ OpenTo(n)

In == IF conn = "up" THEN 1 ELSE 0

\* What a BIND has been told, as far as the loop over the addresses has come: each accept
\* that was started has ended, with a caller let in or turned away, or still waits.
BindInv ==
  /\ history.answers \in Seq({"ACCEPT", "REJECT"}) /\ accepts \in Nat
  /\ pc = "request" => request.command = "UNKNOWN"
  /\ request.command # "CONNECT" =>
       ~waiting /\ posted = <<>> /\ conn \in {"none", "up"}
  /\ (request.command = "BIND" /\ pc \notin {"request", "resolve"}) =>
       /\ Cardinality(Given("ACCEPT")) = Cardinality(OpenTo(Behind)) + In
       /\ Cardinality(Given("REJECT")) =
            Cardinality(ShutTo(Behind)) + Cardinality(OpenTo(Behind)) - accepts - In
       /\ accepts + In <= Cardinality(OpenTo(Behind))

LEMMA GivenIs ==
  ASSUME history.answers \in Seq({"ACCEPT", "REJECT"}), NEW a
  PROVE  /\ Cardinality(Given(a)) \in Nat
         /\ history.answers = <<>> => Cardinality(Given(a)) = 0
         /\ UNCHANGED history.answers => Given(a)' = Given(a)
         /\ \A b : history'.answers = Append(history.answers, b) =>
              Cardinality(Given(a)') = Cardinality(Given(a)) + (IF a = b THEN 1 ELSE 0)
<1> DEFINE n == Len(history.answers)
<1>1. n \in Nat /\ DOMAIN history.answers = 1..n
  OBVIOUS
<1>2. IsFiniteSet(Given(a)) /\ Cardinality(Given(a)) \in Nat
  <2>1. Given(a) \subseteq 1..n /\ IsFiniteSet(1..n)
    BY <1>1, FS_Interval DEF Given
  <2> QED BY <2>1, FS_Subset, FS_CardinalityType
<1>3. ASSUME history.answers = <<>> PROVE Cardinality(Given(a)) = 0
  <2>1. Given(a) = {}
    BY <1>3 DEF Given
  <2> QED BY <2>1, FS_EmptySet
<1>4. ASSUME NEW b, history'.answers = Append(history.answers, b)
      PROVE  Cardinality(Given(a)') = Cardinality(Given(a)) + (IF a = b THEN 1 ELSE 0)
  <2>1. /\ DOMAIN history'.answers = 1..(n + 1) /\ history'.answers[n + 1] = b
        /\ \A i \in 1..n : history'.answers[i] = history.answers[i]
    BY <1>1, <1>4
  <2>2. CASE a = b
    <3>1. Given(a)' = Given(a) \cup {n + 1} /\ n + 1 \notin Given(a)
      BY <1>1, <2>1, <2>2 DEF Given
    <3> QED BY <1>2, <2>2, <3>1, FS_AddElement
  <2>3. CASE a # b
    <3>1. Given(a)' = Given(a)
      BY <1>1, <2>1, <2>3 DEF Given
    <3> QED BY <1>2, <2>3, <3>1
  <2> QED BY <2>2, <2>3
<1> QED BY <1>2, <1>3, <1>4 DEF Given

\* The next address.
LEMMA OpenIs ==
  ASSUME NEW n \in Nat
  PROVE  /\ OpenTo(0) = {} /\ ShutTo(0) = {}
         /\ Cardinality(OpenTo(n)) \in Nat /\ Cardinality(ShutTo(n)) \in Nat
         /\ Cardinality(OpenTo(n + 1)) = Cardinality(OpenTo(n)) +
              (IF Len(Found[n + 1]) = 4 /\ Permitted(Found[n + 1]) THEN 1 ELSE 0)
         /\ Cardinality(ShutTo(n + 1)) = Cardinality(ShutTo(n)) +
              (IF Len(Found[n + 1]) = 4 /\ ~Permitted(Found[n + 1]) THEN 1 ELSE 0)
<1>1. OpenTo(0) = {} /\ ShutTo(0) = {}
  BY V4Is DEF OpenTo, ShutTo
<1>2. OpenTo(n) \subseteq V4(n) /\ ShutTo(n) \subseteq V4(n) /\ IsFiniteSet(V4(n))
  BY V4Is DEF OpenTo, ShutTo
<1>3. /\ IsFiniteSet(OpenTo(n)) /\ Cardinality(OpenTo(n)) \in Nat
      /\ IsFiniteSet(ShutTo(n)) /\ Cardinality(ShutTo(n)) \in Nat
  BY <1>2, FS_Subset, FS_CardinalityType
<1>4. n + 1 \notin OpenTo(n) /\ n + 1 \notin ShutTo(n)
  BY DEF OpenTo, ShutTo, V4
<1>5. V4(n + 1) = V4(n) \cup (IF Len(Found[n + 1]) = 4 THEN {n + 1} ELSE {})
  BY DEF V4
<1>6. n + 1 \notin V4(n)
  BY DEF V4
<1>7. CASE Len(Found[n + 1]) = 4 /\ Permitted(Found[n + 1])
  <2>1. OpenTo(n + 1) = OpenTo(n) \cup {n + 1} /\ ShutTo(n + 1) = ShutTo(n)
    BY <1>5, <1>6, <1>7 DEF OpenTo, ShutTo
  <2>2. Cardinality(OpenTo(n + 1)) = Cardinality(OpenTo(n)) + 1
    BY <1>3, <1>4, <2>1, FS_AddElement
  <2> QED BY <1>1, <1>3, <1>7, <2>1, <2>2
<1>8. CASE Len(Found[n + 1]) = 4 /\ ~Permitted(Found[n + 1])
  <2>1. OpenTo(n + 1) = OpenTo(n) /\ ShutTo(n + 1) = ShutTo(n) \cup {n + 1}
    BY <1>5, <1>6, <1>8 DEF OpenTo, ShutTo
  <2>2. Cardinality(ShutTo(n + 1)) = Cardinality(ShutTo(n)) + 1
    BY <1>3, <1>4, <2>1, FS_AddElement
  <2> QED BY <1>1, <1>3, <1>8, <2>1, <2>2
<1>9. CASE Len(Found[n + 1]) # 4
  <2>1. OpenTo(n + 1) = OpenTo(n) /\ ShutTo(n + 1) = ShutTo(n)
    BY <1>5, <1>9 DEF OpenTo, ShutTo
  <2> QED BY <1>1, <1>3, <1>9, <2>1
<1> QED BY <1>7, <1>8, <1>9

\* As long as the request is the same, so are the addresses.
LEMMA OpenKept ==
  ASSUME UNCHANGED request
  PROVE  Found' = Found /\ \A n : OpenTo(n)' = OpenTo(n) /\ ShutTo(n)' = ShutTo(n)
BY DEF Found, Host, OpenTo, ShutTo, V4, Permitted

\* A turn of the loop takes the address behind those that it has come to.
LEMMA TurnIs ==
  ASSUME DueInv, todo # <<>>, todo' = Tail(todo), UNCHANGED request
  PROVE  /\ pc \notin {"request", "resolve"} /\ Behind \in Nat
         /\ Behind' = Behind + 1 /\ Found[Behind + 1] = Head(todo)
<1>1. /\ Head(todo) = todo[1] /\ Len(todo) > 0 /\ Len(todo) \in Nat
      /\ Len(todo') = Len(todo) - 1
  <2>1. todo \in Seq(Seq(Byte))
    BY DEF DueInv
  <2> QED BY <2>1, TailIs
<1>2. /\ pc \notin {"request", "resolve"} /\ Len(todo) <= Len(Found) /\ Len(Found) \in Nat
      /\ \A i \in 1..Len(todo) : todo[i] = Found[Behind + i]
  BY FoundIs DEF DueInv
<1>3. Found' = Found
  BY FoundKept
<1>4. Behind \in Nat /\ Behind' = Behind + 1
  BY <1>1, <1>2, <1>3 DEF Behind
<1> QED BY <1>1, <1>2, <1>4

\* Steps that change nothing that a BIND has been told.
LEMMA BindKept ==
  ASSUME BindInv, UNCHANGED <<request, todo, posted, waiting, accepts>>,
         history'.answers = history.answers,
         conn' = conn \/ conn = "connecting",
         pc' = pc \/ (pc' = "run" /\ pc = "request") \/ {pc, pc'} \cap {"request", "resolve"} = {}
  PROVE  BindInv'
<1>1. \A a : Given(a)' = Given(a)
  BY GivenIs DEF BindInv
<1>2. /\ \A n : OpenTo(n)' = OpenTo(n) /\ ShutTo(n)' = ShutTo(n)
      /\ Behind' = Behind
  BY OpenKept DEF Behind
<1>3. OpenTo(Behind)' = OpenTo(Behind) /\ ShutTo(Behind)' = ShutTo(Behind)
  BY <1>2 DEF OpenTo, ShutTo, V4
<1>4. request.command # "CONNECT" => conn' = conn /\ In' = In
  BY DEF BindInv, In
<1> QED BY <1>1, <1>3, <1>4 DEF BindInv

LEMMA BindInit == Init => BindInv
BY DEF Init, BindInv, NoHistory, NoRequest

LEMMA BindReply ==
  ASSUME TypeInv, NEW a \in {"ACCEPT", "REJECT"}, DoReply(a)
  PROVE  /\ history'.answers = Append(history.answers, a)
         /\ history'.answers \in Seq({"ACCEPT", "REJECT"})
BY ReplyIs DEF HistoryType

\* A turn of the loop, for an address that is passed over or answered.
LEMMA BindTurn ==
  ASSUME TypeInv, DueInv, BindInv, todo # <<>>, todo' = Tail(todo),
         UNCHANGED <<request, pc, waiting, posted, conn>>,
         \/ /\ Len(Head(todo)) # 4 /\ UNCHANGED <<accepts, history>>
         \/ /\ Len(Head(todo)) = 4 /\ Permitted(Head(todo)) /\ DoReply("ACCEPT")
            /\ accepts' = accepts + 1
         \/ /\ Len(Head(todo)) = 4 /\ ~Permitted(Head(todo)) /\ DoReply("REJECT")
            /\ UNCHANGED accepts
  PROVE  BindInv'
<1>1. /\ pc \notin {"request", "resolve"} /\ Behind \in Nat
      /\ Behind' = Behind + 1 /\ Found[Behind + 1] = Head(todo)
  BY TurnIs
<1>2. OpenTo(Behind)' = OpenTo(Behind + 1) /\ ShutTo(Behind)' = ShutTo(Behind + 1)
  BY <1>1, OpenKept DEF OpenTo, ShutTo, V4, Found, Host, Permitted
<1>3. In' = In /\ In \in {0, 1}
  BY DEF In
<1> DEFINE o == Cardinality(OpenTo(Behind))
           q == Cardinality(ShutTo(Behind))
           g == Cardinality(Given("ACCEPT"))
           h == Cardinality(Given("REJECT"))
<1>4. g \in Nat /\ h \in Nat /\ o \in Nat /\ q \in Nat /\ accepts \in Nat
  BY <1>1, GivenIs, OpenIs DEF BindInv
<1>5. /\ Cardinality(OpenTo(Behind + 1)) = Cardinality(OpenTo(Behind)) +
           (IF Len(Found[Behind + 1]) = 4 /\ Permitted(Found[Behind + 1]) THEN 1 ELSE 0)
      /\ Cardinality(ShutTo(Behind + 1)) = Cardinality(ShutTo(Behind)) +
           (IF Len(Found[Behind + 1]) = 4 /\ ~Permitted(Found[Behind + 1]) THEN 1 ELSE 0)
  <2>1. Behind \in Nat
    BY <1>1
  <2> HIDE DEF o, q, g, h
  <2> QED BY <2>1, OpenIs
<1>6. /\ Cardinality(OpenTo(Behind + 1)) = o +
           (IF Len(Head(todo)) = 4 /\ Permitted(Head(todo)) THEN 1 ELSE 0)
      /\ Cardinality(ShutTo(Behind + 1)) = q +
           (IF Len(Head(todo)) = 4 /\ ~Permitted(Head(todo)) THEN 1 ELSE 0)
  BY <1>1, <1>5, Zenon
<1>7. CASE Len(Head(todo)) # 4 /\ UNCHANGED <<accepts, history>>
  <2>0. Cardinality(OpenTo(Behind + 1)) = o /\ Cardinality(ShutTo(Behind + 1)) = q
    <3> HIDE DEF o, q
    <3> QED BY <1>4, <1>7, <1>6
  <2>1. Cardinality(OpenTo(Behind))' = o /\ Cardinality(ShutTo(Behind))' = q
    BY <1>2, <2>0
  <2>2. Given("ACCEPT")' = Given("ACCEPT") /\ Given("REJECT")' = Given("REJECT")
    BY <1>7 DEF Given
  <2> QED BY <1>1, <1>3, <1>7, <2>1, <2>2 DEF BindInv
<1>8. CASE Len(Head(todo)) = 4 /\ Permitted(Head(todo)) /\ DoReply("ACCEPT") /\ accepts' = accepts + 1
  <2>0. Cardinality(OpenTo(Behind + 1)) = o + 1 /\ Cardinality(ShutTo(Behind + 1)) = q
    <3> HIDE DEF o, q
    <3> QED BY <1>4, <1>8, <1>6
  <2>1. Cardinality(OpenTo(Behind))' = o + 1 /\ Cardinality(ShutTo(Behind))' = q
    BY <1>2, <2>0
  <2>2. history'.answers = Append(history.answers, "ACCEPT") /\ history'.answers \in Seq({"ACCEPT", "REJECT"})
    BY <1>8, BindReply DEF BindInv
  <2>3. Cardinality(Given("ACCEPT"))' = g + 1 /\ Cardinality(Given("REJECT"))' = h
    BY <1>4, <2>2, GivenIs DEF BindInv
  <2>4. request.command = "BIND" => g = o + In /\ h = q + o - accepts - In /\ accepts + In <= o
    BY <1>1 DEF BindInv
  <2>5. request.command = "BIND" =>
          g + 1 = (o + 1) + In /\ h = q + (o + 1) - (accepts + 1) - In /\ (accepts + 1) + In <= o + 1
    <3> HIDE DEF o, q, g, h
    <3> QED BY <1>3, <1>4, <2>4
  <2>6. accepts + 1 \in Nat
    BY <1>4
  <2> HIDE DEF o, q, g, h
  <2> QED BY <1>1, <1>3, <1>8, <2>1, <2>2, <2>3, <2>5, <2>6 DEF BindInv
<1>9. CASE Len(Head(todo)) = 4 /\ ~Permitted(Head(todo)) /\ DoReply("REJECT") /\ UNCHANGED accepts
  <2>0. Cardinality(OpenTo(Behind + 1)) = o /\ Cardinality(ShutTo(Behind + 1)) = q + 1
    <3> HIDE DEF o, q
    <3> QED BY <1>4, <1>9, <1>6
  <2>1. Cardinality(OpenTo(Behind))' = o /\ Cardinality(ShutTo(Behind))' = q + 1
    BY <1>2, <2>0
  <2>2. history'.answers = Append(history.answers, "REJECT") /\ history'.answers \in Seq({"ACCEPT", "REJECT"})
    BY <1>9, BindReply DEF BindInv
  <2>3. Cardinality(Given("ACCEPT"))' = g /\ Cardinality(Given("REJECT"))' = h + 1
    BY <1>4, <2>2, GivenIs DEF BindInv
  <2> QED BY <1>1, <1>3, <1>4, <1>9, <2>1, <2>2, <2>3 DEF BindInv
<1> QED BY <1>7, <1>8, <1>9

LEMMA BindStep == TypeInv /\ DueInv /\ BindInv /\ [Next]_vars => BindInv'
<1> SUFFICES ASSUME TypeInv, DueInv, BindInv, [Next]_vars PROVE BindInv'
  OBVIOUS
<1> USE DEF connecting, peers, relay
<1>1. CASE UNCHANGED vars
  BY <1>1, BindKept DEF vars
<1>2. CASE SendPiece \/ HostAnswers \/ HostCalls
  BY <1>2, BindKept DEF SendPiece, HostAnswers, HostCalls
<1>3. ASSUME NEW x \in Side, Peer(x) PROVE BindInv'
  BY <1>3, BindKept DEF Peer, SendData, PeerReads, PeerCloses
<1>4. ASSUME NEW x \in Side, Relay(x) PROVE BindInv'
  <2>1. PICK i \in Chain : RelayReads(x, i) \/ RelayEnds(x, i) \/ RelayWrites(x, i)
                           \/ RelayFails(x, i)
    BY <1>4 DEF Relay
  <2>2. CASE RelayReads(x, i) \/ RelayEnds(x, i) \/ RelayFails(x, i)
    BY <2>2, BindKept DEF RelayReads, RelayEnds, RelayFails
  <2>3. CASE RelayWrites(x, i)
    <3>1. history'.answers = history.answers
      BY <2>3, RelayWritesIs
    <3> QED BY <2>3, <3>1, BindKept DEF RelayWrites
  <2> QED BY <2>1, <2>2, <2>3
<1>5. CASE ReadRequest
  <2>1. history'.answers = history.answers
    BY <1>5, ReadIs
  <2>2. /\ ~waiting /\ posted = <<>> /\ conn = "none"
        /\ pc' = "resolve" /\ UNCHANGED <<waiting, posted, conn, accepts>>
    BY <1>5 DEF DueInv, ReadRequest
  <2> QED BY <2>1, <2>2 DEF BindInv
<1>6. CASE NoRequestComes \/ LateReply \/ End
  <2>1. CASE End
    <3>1. pc = "run"
      BY <2>1 DEF End, Pending, Idle
    <3> QED BY <2>1, <3>1, BindKept DEF End
  <2>2. CASE LateReply
    BY <2>2, BindKept DEF LateReply
  <2>3. CASE NoRequestComes
    <3>1. request.command = "UNKNOWN" /\ UNCHANGED <<request, waiting, posted, conn, accepts, history>>
          /\ pc' = "run"
      BY <2>3 DEF NoRequestComes, BindInv
    <3> QED BY <3>1 DEF BindInv
  <2> QED BY <1>6, <2>1, <2>2, <2>3
<1>7. CASE DoResolve
  <2>1. /\ UNCHANGED <<request, posted, waiting, conn, accepts, history>> /\ todo' = Found
        /\ pc = "resolve" /\ pc' = "run"
    BY <1>7 DEF DoResolve
  <2>2. Found' = Found /\ Len(Found) \in Nat
    BY <2>1, FoundKept, FoundIs
  <2>3. Behind' = 0
    BY <2>1, <2>2 DEF Behind
  <2>4. history.answers = <<>> /\ conn = "none" /\ accepts = 0
    BY <2>1 DEF DueInv
  <2>5. OpenTo(Behind)' = {} /\ ShutTo(Behind)' = {}
    BY <2>3, OpenIs DEF OpenTo, ShutTo, V4
  <2>6. Cardinality(OpenTo(Behind))' = 0 /\ Cardinality(ShutTo(Behind))' = 0
    BY <2>5, FS_EmptySet
  <2>7. Cardinality(Given("ACCEPT"))' = 0 /\ Cardinality(Given("REJECT"))' = 0
    <3>1. /\ Given("ACCEPT")' = Given("ACCEPT") /\ Given("REJECT")' = Given("REJECT")
          /\ Cardinality(Given("ACCEPT")) = 0 /\ Cardinality(Given("REJECT")) = 0
      BY <2>1, <2>4, GivenIs DEF BindInv
    <3> QED BY <3>1
  <2>8. In' = 0
    BY <2>1, <2>4 DEF In
  <2> QED BY <2>1, <2>4, <2>6, <2>7, <2>8 DEF BindInv
<1>8. CASE SkipV6
  BY <1>8, BindTurn DEF SkipV6
<1>9. CASE Bind
  BY <1>9, BindTurn DEF Bind
<1>10. CASE Refuse
  BY <1>10, BindTurn DEF Refuse
<1>11. CASE Connect
  <2>1. request.command = "CONNECT" /\ UNCHANGED <<request, pc, accepts>> /\ pc # "request"
    BY <1>11 DEF Connect, DueInv
  <2>2. history'.answers = history.answers
    BY <1>11, AsyncIs DEF Connect
  <2> QED BY <2>1, <2>2 DEF BindInv
<1>12. CASE ConnectDone \/ ConnectPosted
  <2>1. request.command = "CONNECT"
    BY <1>12 DEF ConnectDone, ConnectPosted, BindInv
  <2>2. \E ok \in BOOLEAN : Connected(ok)
    BY <1>12 DEF ConnectDone, ConnectPosted
  <2>3. UNCHANGED <<request, pc, accepts>> /\ \E a \in {"ACCEPT", "REJECT"} : DoReply(a)
    BY <2>2, AnswerIs DEF Connected
  <2>4. history'.answers \in Seq({"ACCEPT", "REJECT"})
    BY <2>3, BindReply DEF BindInv
  <2> QED BY <2>1, <2>3, <2>4 DEF BindInv
<1>13. CASE AcceptDone
  <2>1. /\ accepts \in Nat /\ accepts > 0 /\ accepts' = accepts - 1 /\ request.command = "BIND"
        /\ Idle /\ UNCHANGED <<request, pc, todo, waiting, posted>> /\ conn' = "up"
        /\ conn \in {"none", "up"}
        /\ IF conn = "none" THEN DoReply("ACCEPT") ELSE DoReply("REJECT")
    BY <1>13 DEF AcceptDone, Answer, DueInv, BindInv
  <2>2. OpenTo(Behind)' = OpenTo(Behind) /\ ShutTo(Behind)' = ShutTo(Behind) /\ Behind \in Nat
    <3>1. Behind' = Behind /\ Behind \in Nat
      BY <2>1, FoundKept, FoundIs DEF Behind, DueInv, Idle
    <3> QED BY <2>1, <3>1, OpenKept DEF OpenTo, ShutTo, V4
  <2> DEFINE o == Cardinality(OpenTo(Behind))
             q == Cardinality(ShutTo(Behind))
             g == Cardinality(Given("ACCEPT"))
             h == Cardinality(Given("REJECT"))
  <2>3. g \in Nat /\ h \in Nat /\ o \in Nat /\ q \in Nat
    BY <2>2, GivenIs, OpenIs DEF BindInv
  <2>4. g = o + In /\ h = q + o - accepts - In /\ accepts + In <= o
    BY <2>1 DEF BindInv, Idle
  <2>5. CASE conn = "none"
    <3>1. history'.answers = Append(history.answers, "ACCEPT") /\ history'.answers \in Seq({"ACCEPT", "REJECT"})
      BY <2>1, <2>5, BindReply DEF BindInv
    <3>2. Cardinality(Given("ACCEPT"))' = g + 1 /\ Cardinality(Given("REJECT"))' = h
      BY <2>3, <3>1, GivenIs DEF BindInv
    <3>3. In = 0 /\ In' = 1
      BY <2>1, <2>5 DEF In
    <3> QED BY <2>1, <2>2, <2>3, <2>4, <3>1, <3>2, <3>3 DEF BindInv, Idle
  <2>6. CASE conn = "up"
    <3>1. history'.answers = Append(history.answers, "REJECT") /\ history'.answers \in Seq({"ACCEPT", "REJECT"})
      BY <2>1, <2>6, BindReply DEF BindInv
    <3>2. Cardinality(Given("ACCEPT"))' = g /\ Cardinality(Given("REJECT"))' = h + 1
      BY <2>3, <3>1, GivenIs DEF BindInv
    <3>3. In = 1 /\ In' = 1
      BY <2>1, <2>6 DEF In
    <3> QED BY <2>1, <2>2, <2>3, <2>4, <3>1, <3>2, <3>3 DEF BindInv, Idle
  <2> QED BY <2>1, <2>5, <2>6
<1> QED
  BY <1>1, <1>2, <1>3, <1>4, <1>5, <1>6, <1>7, <1>8, <1>9, <1>10, <1>11, <1>12, <1>13
  DEF Next, Handler

\* For every rule file, resolver and order of the callers: a BIND is answered as
\* BindIsAnswered says, and nobody is let in if no address of the host is permitted.
THEOREM BindsAreAnswered == Spec => []BindIsAnswered
<1>1. DueInv /\ BindInv => BindIsAnswered
  <2> SUFFICES ASSUME DueInv, BindInv, Idle, request.command = "BIND" PROVE BindIsAnswered
    BY DEF BindIsAnswered
  <2>1. Behind = Len(Found) /\ Len(Found) \in Nat
    BY FoundIs DEF Behind, DueInv, Idle
  <2>2. Awaited = OpenTo(Behind) /\ V4(Len(Found)) \ Awaited = ShutTo(Behind)
    BY <2>1 DEF Awaited, OpenTo, ShutTo
  <2>3. OpenTo(Behind) = {} => Cardinality(OpenTo(Behind)) = 0
    BY FS_EmptySet
  <2>4. accepts \in Nat /\ In \in {0, 1}
    BY DEF BindInv, In
  <2>5. /\ Cardinality(Given("ACCEPT")) = Cardinality(OpenTo(Behind)) + In
        /\ Cardinality(Given("REJECT")) =
             Cardinality(ShutTo(Behind)) + Cardinality(OpenTo(Behind)) - accepts - In
        /\ accepts + In <= Cardinality(OpenTo(Behind))
    BY DEF BindInv, Idle
  <2>6. OpenTo(Behind) = {} => In = 0
    BY <2>3, <2>4, <2>5
  <2> QED BY <2>2, <2>5, <2>6 DEF BindIsAnswered, In
<1>2. DueInv /\ BindInv /\ TypeInv /\ [Next]_vars => BindInv'
  BY BindStep
<1> QED BY <1>1, <1>2, BindInit, DueAlways, TypesHold, PTL DEF Spec

-----------------------------------------------------------------------------
\* Replies.

AnswersType ==
  /\ DOMAIN history = {"read", "swallowed", "torn", "answers", "skipped"}
  /\ history.answers \in Seq({"ACCEPT", "REJECT"}) /\ history.skipped \in BOOLEAN
  /\ posted \in Seq({"ok", "error"})

\* A CONNECT that has not been established, and no failure of which went to the next
\* attempt: no success has been reported, to the client or to the process.
Untold ==
  (request.command = "CONNECT" /\ conn # "up" /\ ~history.skipped) =>
    /\ conn # "cleared"
    /\ \A i \in 1..Len(history.answers) : history.answers[i] # "ACCEPT"
    /\ \A i \in 1..Len(posted) : posted[i] # "ok"

TruthInv ==
  /\ AnswersType /\ Untold
  /\ pc \in {"request", "resolve"} => history.answers = <<>> /\ posted = <<>>

\* A reply, and nothing else that matters.
Says(a) ==
  /\ history'.answers = Append(history.answers, a) /\ history'.skipped = history.skipped
  /\ DOMAIN history' = DOMAIN history

LEMMA ReplySays ==
  ASSUME AnswersType, NEW a, DoReply(a)
  PROVE  Says(a)
<1>1. history' = [history EXCEPT !.answers = Append(@, a)]
  BY DEF DoReply
<1> QED BY <1>1 DEF AnswersType, Says

LEMMA AnswerSays ==
  ASSUME AnswersType, NEW ok, Answer(ok)
  PROVE  IF ok THEN Says("ACCEPT") ELSE Says("REJECT")
BY ReplySays DEF Answer

\* A sequence with one more element, or without its first.
LEMMA OneMore ==
  ASSUME NEW S, NEW s \in Seq(S), NEW e \in S
  PROVE  /\ Append(s, e) \in Seq(S)
         /\ \A x : x # e /\ (\A i \in 1..Len(s) : s[i] # x)
              => \A i \in 1..Len(Append(s, e)) : Append(s, e)[i] # x
OBVIOUS

LEMMA OneLess ==
  ASSUME NEW S, NEW s \in Seq(S), s # <<>>
  PROVE  /\ Tail(s) \in Seq(S) /\ Head(s) \in S /\ Head(s) = s[1] /\ 1 \in 1..Len(s)
         /\ \A x : (\A i \in 1..Len(s) : s[i] # x) => \A i \in 1..Len(Tail(s)) : Tail(s)[i] # x
OBVIOUS

LEMMA TruthInit == Init => TruthInv
BY DEF Init, TruthInv, AnswersType, Untold, NoHistory

\* Nothing that matters for the replies changes; conn may take an answer of the host.
Silent ==
  /\ UNCHANGED <<request, posted>>
  /\ history'.answers = history.answers /\ history'.skipped = history.skipped
  /\ DOMAIN history' = DOMAIN history
  /\ UNCHANGED conn \/ (conn = "connecting" /\ conn' \in {"up", "failed"})
  /\ pc' \in {pc, "run", "done"}

LEMMA SilentStep == TruthInv /\ Silent => TruthInv'
BY DEF TruthInv, AnswersType, Untold, Silent

\* A reply that is true, or to a request for which it need not be.
LEMMA SayingStep ==
  ASSUME TruthInv, NEW a \in {"ACCEPT", "REJECT"}, Says(a), UNCHANGED request,
         pc \notin {"request", "resolve"}, UNCHANGED pc,
         posted' \in Seq({"ok", "error"}),
         (\A i \in 1..Len(posted) : posted[i] # "ok")
            => \A i \in 1..Len(posted') : posted'[i] # "ok",
         UNCHANGED conn \/ request.command = "BIND",
         \/ a = "REJECT" \/ conn \in {"up", "cleared"} \/ request.command = "BIND"
         \/ \E i \in 1..Len(posted) : posted[i] = "ok"
  PROVE  TruthInv'
<1>1. Append(history.answers, a) \in Seq({"ACCEPT", "REJECT"})
  BY OneMore DEF TruthInv, AnswersType
<1>2. AnswersType'
  BY <1>1 DEF TruthInv, AnswersType, Says
<1>3. Untold'
  <2>1. SUFFICES ASSUME request.command = "CONNECT", conn # "up", ~history.skipped
                 PROVE  Untold'
    BY DEF Untold, Says
  <2>2. a = "REJECT" /\ conn # "cleared"
        /\ \A i \in 1..Len(history.answers) : history.answers[i] # "ACCEPT"
    BY <2>1 DEF TruthInv, Untold
  <2>3. \A i \in 1..Len(history'.answers) : history'.answers[i] # "ACCEPT"
    BY <2>2, OneMore DEF TruthInv, AnswersType, Says
  <2> QED BY <2>1, <2>2, <2>3 DEF TruthInv, Untold
<1> QED BY <1>2, <1>3 DEF TruthInv

LEMMA TruthStep == TruthInv /\ DueInv /\ [Next]_vars => TruthInv'
<1> SUFFICES ASSUME TruthInv, DueInv, [Next]_vars PROVE TruthInv'
  OBVIOUS
<1> USE DEF connecting, peers, relay
<1>1. AnswersType /\ (pc \in {"request", "resolve"} => conn = "none" /\ accepts = 0 /\ todo = <<>>)
  BY DEF TruthInv, DueInv
<1>2. CASE UNCHANGED vars
  BY <1>2, SilentStep DEF vars, Silent
<1>3. CASE SendPiece \/ HostAnswers \/ HostCalls
  BY <1>3, SilentStep DEF SendPiece, HostAnswers, HostCalls, Silent
<1>4. ASSUME NEW x \in Side, Peer(x) PROVE TruthInv'
  BY <1>4, SilentStep DEF Peer, SendData, PeerReads, PeerCloses, Silent
<1>5. ASSUME NEW x \in Side, Relay(x) PROVE TruthInv'
  <2>1. PICK i \in Chain : RelayReads(x, i) \/ RelayEnds(x, i) \/ RelayWrites(x, i)
                           \/ RelayFails(x, i)
    BY <1>5 DEF Relay
  <2>2. CASE RelayReads(x, i) \/ RelayEnds(x, i) \/ RelayFails(x, i)
    BY <2>2, SilentStep DEF RelayReads, RelayEnds, RelayFails, Silent
  <2>3. CASE RelayWrites(x, i)
    <3>1. history' = history \/ history' = [history EXCEPT !.torn = @ \cup {x}]
      BY <2>3 DEF RelayWrites
    <3>2. history'.answers = history.answers /\ history'.skipped = history.skipped
          /\ DOMAIN history' = DOMAIN history
      BY <1>1, <3>1 DEF AnswersType
    <3> QED BY <2>3, <3>2, SilentStep DEF RelayWrites, Silent
  <2> QED BY <2>1, <2>2, <2>3
<1>6. CASE ReadRequest
  <2>1. /\ pc = "request" /\ pc' = "resolve" /\ UNCHANGED <<posted, conn>>
        /\ \E n, w : history' = [history EXCEPT !.read = n, !.swallowed = w]
    BY <1>6 DEF ReadRequest
  <2>2. /\ history'.answers = history.answers /\ history'.skipped = history.skipped
        /\ DOMAIN history' = DOMAIN history
    BY <1>1, <2>1 DEF AnswersType
  <2> QED BY <1>1, <2>1, <2>2 DEF TruthInv, AnswersType, Untold
<1>7. CASE NoRequestComes \/ DoResolve \/ SkipV6 \/ LateReply \/ End
  BY <1>7, SilentStep DEF NoRequestComes, DoResolve, SkipV6, LateReply, End, Silent
<1>8. CASE Refuse
  <2>1. Says("REJECT")
    BY <1>1, <1>8, ReplySays DEF Refuse
  <2> QED BY <1>1, <1>8, <2>1, SayingStep DEF Refuse, AnswersType
<1>9. CASE Bind
  <2>1. Says("ACCEPT")
    BY <1>1, <1>9, ReplySays DEF Bind
  <2> QED BY <1>1, <1>9, <2>1, SayingStep DEF Bind, AnswersType
<1>10. CASE AcceptDone
  <2>1. request.command = "BIND"
    BY <1>10 DEF AcceptDone, DueInv
  <2>2. Says("ACCEPT") \/ Says("REJECT")
    BY <1>1, <1>10, ReplySays DEF AcceptDone, Answer
  <2> QED BY <1>1, <1>10, <2>1, <2>2, SayingStep DEF AcceptDone, Idle, AnswersType
<1>11. CASE ConnectDone
  <2>1. IF conn # "failed" THEN Says("ACCEPT") ELSE Says("REJECT")
    BY <1>1, <1>11, AnswerSays DEF ConnectDone, Connected
  <2> QED BY <1>1, <1>11, <2>1, SayingStep DEF ConnectDone, Connected, Idle, AnswersType
<1>12. CASE ConnectPosted
  <2>1. IF Head(posted) = "ok" THEN Says("ACCEPT") ELSE Says("REJECT")
    BY <1>1, <1>12, AnswerSays DEF ConnectPosted, Connected
  <2>2. posted # <<>> /\ posted' = Tail(posted) /\ pc = "run" /\ UNCHANGED <<request, pc, conn>>
    BY <1>12 DEF ConnectPosted, Connected, Idle
  <2>3. /\ Tail(posted) \in Seq({"ok", "error"}) /\ Head(posted) = posted[1] /\ 1 \in 1..Len(posted)
        /\ (\A i \in 1..Len(posted) : posted[i] # "ok")
             => \A i \in 1..Len(Tail(posted)) : Tail(posted)[i] # "ok"
    BY <1>1, <2>2, OneLess DEF AnswersType
  <2> QED BY <2>1, <2>2, <2>3, SayingStep
<1>13. CASE Connect
  <2>1. pc \notin {"request", "resolve"} /\ UNCHANGED <<request, pc>> /\ AsyncConnect(Head(todo))
    BY <1>1, <1>13 DEF Connect
  <2>2. CASE UNCHANGED <<conn, posted, history>>
    BY <2>1, <2>2 DEF TruthInv, AnswersType, Untold
  <2>3. CASE conn = "none" /\ conn' = "connecting" /\ UNCHANGED <<posted, history>>
    BY <2>1, <2>3 DEF TruthInv, AnswersType, Untold
  <2>4. CASE conn' = "up" /\ posted' = Append(posted, "ok") /\ UNCHANGED history
    <3>1. posted' \in Seq({"ok", "error"})
      BY <1>1, <2>4, OneMore DEF AnswersType
    <3> QED BY <2>1, <2>4, <3>1 DEF TruthInv, AnswersType, Untold
  <2>5. CASE posted' = Append(posted, "error") /\ UNCHANGED <<conn, history>>
    <3>1. posted' \in Seq({"ok", "error"})
          /\ ((\A i \in 1..Len(posted) : posted[i] # "ok")
                => \A i \in 1..Len(posted') : posted'[i] # "ok")
      BY <1>1, <2>5, OneMore DEF AnswersType
    <3> QED BY <2>1, <2>5, <3>1 DEF TruthInv, AnswersType, Untold
  <2>6. CASE /\ conn = "failed" /\ conn' = "cleared" /\ posted' = Append(posted, "error")
             /\ history' = [history EXCEPT !.skipped = TRUE]
    <3>1. posted' \in Seq({"ok", "error"})
      BY <1>1, <2>6, OneMore DEF AnswersType
    <3>2. history'.answers = history.answers /\ history'.skipped
          /\ DOMAIN history' = DOMAIN history /\ history'.skipped \in BOOLEAN
      BY <1>1, <2>6 DEF AnswersType
    <3> QED BY <2>1, <3>1, <3>2 DEF TruthInv, AnswersType, Untold
  <2> QED BY <2>1, <2>2, <2>3, <2>4, <2>5, <2>6 DEF AsyncConnect
<1> QED
  BY <1>2, <1>3, <1>4, <1>5, <1>6, <1>7, <1>8, <1>9, <1>10, <1>11, <1>12, <1>13
  DEF Next, Handler

\* Whatever the number of addresses and the order in which their connects end: an ACCEPT
\* for a CONNECT means a connection, with the exception that AcceptIsTrue names.
THEOREM AcceptsAreTrue == Spec => []AcceptIsTrue
<1>1. TruthInv => AcceptIsTrue
  BY DEF TruthInv, AnswersType, Untold, AcceptIsTrue
<1> QED BY <1>1, TruthInit, TruthStep, DueAlways, PTL DEF Spec

-----------------------------------------------------------------------------
\* Each direction of the relay is a stream.

\* The relays of the two directions start together and nothing is shut down before they
\* have, nor do they before the request has been resolved; only a CONNECT connects; who
\* has been told that callers are awaited has been told ACCEPT; a client sends its
\* request first; what a side sent before it reset the connection is lost.
RunInv ==
  /\ pc \in {"request", "resolve"} => chain["client"][1].st = "off"
  /\ waiting \/ posted # <<>> => request.command = "CONNECT"
  /\ accepts > 0 => \E i \in 1..Len(history.answers) : history.answers[i] = "ACCEPT"
  /\ \A i \in Chain : chain["client"][i].st = "off" <=> chain["server"][i].st = "off"
  /\ chain["client"][1].st = "off" => chain["client"][2].st = "off" /\ shut = {}
  /\ pieces < 3 => sent["client"] = 0
  /\ \A x \in Side : x \in rst => inq[x] = <<>> /\ x \in gone

\* The number of units of side x that the process has read, or that are lost.
Consumed(x) == SentBy(x) - Len(inq[x])

\* What side x has sent and the process has not read: the last units, in order.
InqInv(x) ==
  /\ Consumed(x) \in Nat
  /\ \A i \in 1..Len(inq[x]) : inq[x][i] = Unit(Consumed(x) + i)

IsData(u, n) == u.is = "data" /\ u.n \in 1..n
IsReply(u)   == u.is # "data" /\ u.n = 0

\* What is in the buffer, and what is on its way to the other side, was read from side x;
\* the replies are the server's own.
UnitsInv(x) ==
  /\ \A i \in 1..Len(buf[x]) : IsData(buf[x][i], Consumed(x))
  /\ \A i \in 1..Len(Stream(Other[x])) :
       IsReply(Stream(Other[x])[i]) \/ IsData(Stream(Other[x])[i], Consumed(x))

Writes(x) == chain[x][1].st = "write"

\* The number of the unit of side x that comes next.
Following(x) == IF Writes(x) THEN buf[x][1].n ELSE Consumed(x) + 1

\* Properties of the numbers d of what is on its way; 0 is a reply.
Below(d, n) == \A i \in DOMAIN d : d[i] < n
Begun(d)    == \E i \in DOMAIN d : d[i] # 0
Has(d, n)   == \E i \in DOMAIN d : d[i] = n
Pairs(d, i, j) == i < j /\ d[i] # 0 /\ d[j] # 0
Rising(d)   == \A i, j \in DOMAIN d : Pairs(d, i, j) => d[i] < d[j]
Gapless(d)  == \A i, j \in DOMAIN d : Pairs(d, i, j) => \E k \in 1..(j - 1) : d[k] = d[j] - 1

\* One relay for side x: what it is to write are consecutive units, the last of them the
\* last that was read;
ChunkInv(x) ==
  Writes(x) =>
    /\ \A i \in 1..chain[x][1].len : buf[x][i].n = buf[x][1].n + i - 1
    /\ x \notin rst => buf[x][1].n + chain[x][1].len - 1 = Consumed(x)

\* it has a future unless it has ended or its other side has closed, or it has nothing to
\* write and its own side has reset the connection;
Live(x) == Other[x] \notin gone /\ chain[x][1].st # "end" /\ (Writes(x) \/ x \notin rst)

\* all that is on its way comes before what follows; and unless a chunk has been torn,
\* the unit before that is on its way, once any is.
Flows(x, d) ==
  /\ Below(d, Following(x)) /\ Rising(d)
  /\ x \notin history.torn => Gapless(d)
  /\ (x \notin history.torn /\ Live(x) /\ Begun(d)) => Has(d, Following(x) - 1)
  /\ chain[x][1].st = "off" => ~Begun(d)

StreamInv(x) == ChunkInv(x) /\ Flows(x, Delivered(Other[x]))

FlowInv == \A x \in Side : InqInv(x) /\ UnitsInv(x) /\ (~Doubled => StreamInv(x))

\* What a step may do to the direction of side x: its source, its relays and its sink.
KeepsSource(x) == SentBy(x)' = SentBy(x) /\ inq'[x] = inq[x] /\ (x \in rst' <=> x \in rst)
KeepsRelay(x)  == /\ buf'[x] = buf[x] /\ (Doubled' <=> Doubled)
                  /\ \A i \in Chain : chain'[x][i] = chain[x][i]
KeepsGone(x)   == Other[x] \in gone' <=> Other[x] \in gone
KeepsSink(x)   == Stream(Other[x])' = Stream(Other[x]) /\ KeepsGone(x)
KeepsTorn(x)   == x \in history'.torn <=> x \in history.torn

Still(x) == KeepsSource(x) /\ KeepsRelay(x) /\ KeepsSink(x) /\ KeepsTorn(x)

\* The side sends.
Sends(x) ==
  /\ x \notin rst /\ x \notin rst' /\ SentBy(x)' = SentBy(x) + 1
  /\ inq'[x] = Append(inq[x], Unit(SentBy(x) + 1))
  /\ KeepsRelay(x) /\ KeepsSink(x) /\ KeepsTorn(x)

\* The side resets its connection.
Loses(x) ==
  /\ SentBy(x)' = SentBy(x) /\ inq'[x] = <<>> /\ x \in rst'
  /\ KeepsRelay(x) /\ KeepsSink(x) /\ KeepsTorn(x)

\* A chunk is read.
Takes(x, k) ==
  /\ SentBy(x)' = SentBy(x) /\ (x \in rst' <=> x \in rst)
  /\ k \in 1..Len(inq[x]) /\ Len(inq'[x]) = Len(inq[x]) - k
  /\ \A j \in 1..Len(inq'[x]) : inq'[x][j] = inq[x][k + j]
  /\ KeepsSink(x) /\ KeepsTorn(x)

\* It is the request.
Asks(x) == chain[x][1].st = "off" /\ KeepsRelay(x) /\ \E k \in 1..Len(inq[x]) : Takes(x, k)

\* Relay i reads it.
Fills(x, i) ==
  \E k \in 1..Len(inq[x]) :
    /\ Takes(x, k)
    /\ chain[x][i].st = "read" /\ chain'[x][i].st = "write" /\ chain'[x][i].len = k
    /\ \A j \in Chain : j # i => chain'[x][j] = chain[x][j]
    /\ Doubled' <=> Doubled
    /\ \A j \in 1..k : buf'[x][j] = inq[x][j]
    /\ \A j \in 1..Len(buf'[x]) : j > k => j \in 1..Len(buf[x]) /\ buf'[x][j] = buf[x][j]

\* Relay i writes the first k units of its chunk.
Drains(x, i) ==
  \E k \in 1..chain[x][i].len :
    /\ chain[x][i].st = "write" /\ chain'[x][i].st = "read" /\ k <= Len(buf[x])
    /\ \A j \in Chain : j # i => chain'[x][j] = chain[x][j]
    /\ KeepsSource(x) /\ buf'[x] = buf[x] /\ (Doubled' <=> Doubled)
    /\ Other[x] \notin gone /\ KeepsGone(x)
    /\ Len(Stream(Other[x])') = Len(Stream(Other[x])) + k
    /\ \A j \in 1..Len(Stream(Other[x])) : Stream(Other[x])'[j] = Stream(Other[x])[j]
    /\ \A j \in 1..k : Stream(Other[x])'[Len(Stream(Other[x])) + j] = buf[x][j]
    /\ x \in history'.torn <=> x \in history.torn \/ k < chain[x][i].len

\* Relay i ends, or its chunk is lost because the other side has closed.
Rests(x, i) ==
  /\ chain[x][i].st \in {"read", "write"}
  /\ chain'[x][i].st = "end" \/ (chain'[x][i].st = "read" /\ Other[x] \in gone)
  /\ \A j \in Chain : j # i => chain'[x][j] = chain[x][j]
  /\ KeepsSource(x) /\ buf'[x] = buf[x] /\ (Doubled' <=> Doubled) /\ KeepsSink(x) /\ KeepsTorn(x)

\* The other side is told something by the server, or not.
Told(x) ==
  \/ Stream(Other[x])' = Stream(Other[x])
  \/ /\ Other[x] \notin gone
     /\ \E u \in Units :
          /\ IsReply(u) /\ (u.is = "garbage" => late > 0)
          /\ Stream(Other[x])' = Append(Stream(Other[x]), u)

Speaks(x) == KeepsSource(x) /\ KeepsRelay(x) /\ KeepsTorn(x) /\ KeepsGone(x) /\ Told(x)

\* A relay is started.
Starts(x) ==
  /\ KeepsSource(x) /\ buf'[x] = buf[x] /\ KeepsTorn(x) /\ KeepsGone(x) /\ Told(x)
  /\ \/ /\ chain[x][1].st = "off" /\ chain'[x][1].st = "read"
        /\ chain'[x][2] = chain[x][2] /\ (Doubled' <=> Doubled)
     \/ chain[x][1].st # "off" /\ Doubled'

\* The other side closes; what it had not read is lost.
Closes(x) ==
  /\ Other[x] \notin gone /\ Other[x] \in gone'
  /\ KeepsSource(x) /\ KeepsRelay(x) /\ KeepsTorn(x)
  /\ Len(Stream(Other[x])') <= Len(Stream(Other[x]))
  /\ \A j \in 1..Len(Stream(Other[x])') : Stream(Other[x])'[j] = Stream(Other[x])[j]

Moves(x) ==
  \/ Still(x) \/ Sends(x) \/ Loses(x) \/ Asks(x) \/ Speaks(x) \/ Starts(x) \/ Closes(x)
  \/ \E i \in Chain : Fills(x, i) \/ Drains(x, i) \/ Rests(x, i)

LEMMA SameElements ==
  ASSUME NEW S, NEW s \in Seq(S), NEW t \in Seq(S), Len(s) = Len(t),
         \A i \in 1..Len(s) : s[i] = t[i]
  PROVE  s = t
OBVIOUS

LEMMA HeadMoves ==
  ASSUME NEW S, NEW g \in Seq(S), NEW o \in Seq(S), o # <<>>
  PROVE  Append(g, Head(o)) \o Tail(o) = g \o o
<1> DEFINE a == Append(g, Head(o))
           b == Tail(o)
<1>1. /\ b \in Seq(S) /\ Len(b) = Len(o) - 1 /\ Len(o) \in Nat /\ Len(o) > 0 /\ Head(o) \in S /\ Head(o) = o[1]
      /\ \A i \in 1..(Len(o) - 1) : b[i] = o[i + 1]
  BY TailIs
<1>2. /\ a \in Seq(S) /\ Len(a) = Len(g) + 1 /\ Len(g) \in Nat
      /\ (\A i \in 1..Len(g) : a[i] = g[i]) /\ a[Len(g) + 1] = o[1]
  BY <1>1, AppendIs
<1> HIDE DEF a, b
<1>j. ASSUME NEW u \in Seq(S), NEW v \in Seq(S)
      PROVE  /\ u \o v \in Seq(S) /\ Len(u \o v) = Len(u) + Len(v)
             /\ (\A i \in 1..Len(u) : (u \o v)[i] = u[i])
             /\ \A i \in 1..Len(v) : (u \o v)[Len(u) + i] = v[i]
  BY ONLY <1>j, JoinIs
<1>3. /\ a \o b \in Seq(S) /\ Len(a \o b) = Len(a) + Len(b)
      /\ (\A i \in 1..Len(a) : (a \o b)[i] = a[i])
      /\ \A i \in 1..Len(b) : (a \o b)[Len(a) + i] = b[i]
  BY <1>1, <1>2, <1>j, Zenon
<1>4. /\ g \o o \in Seq(S) /\ Len(g \o o) = Len(g) + Len(o)
      /\ (\A i \in 1..Len(g) : (g \o o)[i] = g[i])
      /\ \A i \in 1..Len(o) : (g \o o)[Len(g) + i] = o[i]
  BY JoinIs
<1>5. ASSUME NEW i \in 1..Len(a \o b) PROVE (a \o b)[i] = (g \o o)[i]
  <2>1. CASE i <= Len(g)
    BY <1>2, <1>3, <1>4, <2>1
  <2>2. CASE i = Len(g) + 1
    BY <1>1, <1>2, <1>3, <1>4, <2>2
  <2>3. CASE i > Len(g) + 1
    <3>1. i - Len(a) \in 1..Len(b) /\ i = Len(a) + (i - Len(a))
      BY <1>1, <1>2, <1>3, <2>3
    <3>2. i - Len(g) \in 1..Len(o) /\ i = Len(g) + (i - Len(g)) /\ (i - Len(a)) + 1 = i - Len(g)
      BY <1>1, <1>2, <1>3, <2>3
    <3>3. (a \o b)[i] = b[i - Len(a)]
      BY <1>3, <3>1
    <3>4. (g \o o)[i] = o[i - Len(g)]
      BY <1>4, <3>2
    <3>5. b[i - Len(a)] = o[(i - Len(a)) + 1]
      BY <1>1, <3>1
    <3> QED BY <3>2, <3>3, <3>4, <3>5
  <2> QED BY <1>1, <1>2, <2>1, <2>2, <2>3
<1>6. Len(a \o b) = Len(g \o o)
  BY <1>1, <1>2, <1>3, <1>4
<1>7. a \o b = g \o o
  BY <1>3, <1>4, <1>5, <1>6, SameElements
<1> QED BY <1>7 DEF a, b

LEMMA StreamType ==
  ASSUME TypeInv, NEW x \in Side
  PROVE  /\ Stream(x) \in Seq(Units) /\ got[x] \in Seq(Units) /\ outq[x] \in Seq(Units)
         /\ Len(Stream(x)) = Len(got[x]) + Len(outq[x])
         /\ \A i \in 1..Len(got[x]) : Stream(x)[i] = got[x][i]
         /\ \A i \in 1..Len(outq[x]) : Stream(x)[Len(got[x]) + i] = outq[x][i]
         /\ Len(got[x]) \in Nat /\ Len(outq[x]) \in Nat
<1>1. got[x] \in Seq(Units) /\ outq[x] \in Seq(Units)
  BY DEF TypeInv, TypeOK
<1> DEFINE g == got[x]
           o == outq[x]
<1>2. g \in Seq(Units) /\ o \in Seq(Units)
  BY <1>1
<1> HIDE DEF g, o
<1>3. /\ g \o o \in Seq(Units) /\ Len(g \o o) = Len(g) + Len(o)
      /\ (\A i \in 1..Len(g) : (g \o o)[i] = g[i])
      /\ \A i \in 1..Len(o) : (g \o o)[Len(g) + i] = o[i]
      /\ Len(g) \in Nat /\ Len(o) \in Nat
  BY <1>2, JoinIs
<1> QED BY <1>2, <1>3 DEF g, o, Stream

LEMMA StillIs ==
  ASSUME UNCHANGED <<sent, pieces, inq, got, outq, gone, rst, chain, buf>>,
         history'.torn = history.torn, NEW x \in Side
  PROVE  Still(x)
BY SideIs DEF Still, KeepsSource, KeepsRelay, KeepsSink, KeepsGone, KeepsTorn, SentBy, Doubled, Stream

\* A reply goes behind what is on its way to the client.
LEMMA ToldIs ==
  ASSUME TypeInv, NEW u \in Units, IsReply(u), u.is = "garbage" => late > 0,
         UNCHANGED got, "client" \notin gone,
         outq' = [outq EXCEPT !["client"] = Append(@, u)], NEW x \in Side
  PROVE  Told(x)
<1>1. CASE Other[x] = "client"
  <2> DEFINE g == got["client"]
             o == outq["client"]
  <2>1. g \in Seq(Units) /\ o \in Seq(Units)
    BY SideIs DEF TypeInv, TypeOK
  <2>2. outq'["client"] = Append(o, u)
    BY SideIs DEF TypeInv, TypeOK
  <2> HIDE DEF g, o
  <2>3. g \o Append(o, u) = Append(g \o o, u)
    BY <2>1
  <2>4. Stream("client")' = Append(Stream("client"), u)
    BY <2>2, <2>3 DEF Stream, g, o
  <2> QED BY <1>1, <2>4 DEF Told
<1>2. CASE Other[x] = "server"
  <2>1. outq'["server"] = outq["server"]
    BY SideIs DEF TypeInv, TypeOK
  <2> QED BY <1>2, <2>1 DEF Told, Stream
<1> QED BY <1>1, <1>2, SideIs

LEMMA ReplyTold ==
  ASSUME TypeInv, NEW a \in {"ACCEPT", "REJECT"}, DoReply(a), UNCHANGED got, NEW x \in Side
  PROVE  Told(x) /\ KeepsTorn(x)
<1>1. \/ UNCHANGED outq
      \/ outq' = [outq EXCEPT !["client"] = Append(@, Reply(a))] /\ "client" \notin gone
  BY ReplyIs
<1>2. Reply(a) \in Units /\ IsReply(Reply(a)) /\ Reply(a).is # "garbage"
  BY UnitIs DEF Reply, IsReply
<1>3. KeepsTorn(x)
  BY ReplyIs DEF KeepsTorn
<1>4. CASE UNCHANGED outq
  BY <1>3, <1>4 DEF Told, Stream
<1>5. CASE outq' = [outq EXCEPT !["client"] = Append(@, Reply(a))] /\ "client" \notin gone
  BY <1>2, <1>3, <1>5, ToldIs
<1> QED BY <1>1, <1>4, <1>5

\* What a start does to the direction of side x.
LEMMA StartsIs ==
  ASSUME TypeInv, RunInv, StartRelay, NEW x \in Side, Told(x), KeepsTorn(x),
         UNCHANGED <<sent, pieces, inq, gone, rst, buf>>
  PROVE  Starts(x)
<1>1. PICK i \in Chain :
           /\ i = 2 <=> chain["client"][1].st # "off"
           /\ \A y \in Side : chain'[y][i].st = "read" /\ chain'[y][i].len = 0
           /\ \A y \in Side, j \in Chain : j # i => chain'[y][j] = chain[y][j]
  BY StartIs
<1>2. chain["client"][1].st = "off" <=> chain[x][1].st = "off"
  BY SideIs DEF RunInv, Chain
<1>3. (i = 1 \/ i = 2) /\ 1 \in Chain /\ 2 \in Chain
  BY DEF Chain
<1>4. KeepsSource(x) /\ buf'[x] = buf[x] /\ KeepsGone(x)
  BY DEF KeepsSource, KeepsGone, SentBy
<1>5. CASE i = 1
  <2>1. /\ chain[x][1].st = "off" /\ chain'[x][1].st = "read" /\ chain'[x][2] = chain[x][2]
        /\ chain'["client"][2] = chain["client"][2]
    BY <1>1, <1>2, <1>3, <1>5, SideIs
  <2> QED BY <1>4, <2>1 DEF Starts, Doubled
<1>6. CASE i = 2
  <2>1. chain[x][1].st # "off" /\ chain'["client"][2].st = "read"
    BY <1>1, <1>2, <1>6, SideIs
  <2> QED BY <1>4, <2>1 DEF Starts, Doubled
<1> QED BY <1>3, <1>5, <1>6

LEMMA MovesOutside ==
  ASSUME TypeInv, RunInv, NEW x \in Side,
         SendPiece \/ HostAnswers \/ HostCalls \/ \E z \in Side : Peer(z)
  PROVE  Moves(x)
<1> USE DEF peers, connecting, relay
<1>0. /\ sent \in [Side -> Nat] /\ inq \in [Side -> Seq(Units)] /\ pieces \in Nat
      /\ outq \in [Side -> Seq(Units)] /\ got \in [Side -> Seq(Units)] /\ Len(packet) = 3 /\ pieces \in 0..3
  <2>1. Len(packet) = 3
    BY SentIs
  <2>2. pieces \in 0..3
    BY DEF TypeInv, TypeOK
  <2> QED BY <2>1, <2>2 DEF TypeInv, TypeOK
<1>1. CASE HostAnswers \/ HostCalls
  BY <1>1, StillIs DEF HostAnswers, HostCalls, Moves
<1>2. CASE SendPiece
  <2>1. /\ pieces' = pieces + 1 /\ "client" \notin gone /\ "client" \notin rst /\ sent["client"] = 0
        /\ inq' = [inq EXCEPT !["client"] = Append(@, Unit(pieces + 1))]
        /\ UNCHANGED <<sent, outq, got, gone, rst, chain, buf, history>>
    BY <1>0, <1>2, SideIs DEF SendPiece, RunInv
  <2>2. CASE x = "client"
    <3>1. SentBy(x)' = SentBy(x) + 1 /\ SentBy(x) + 1 = pieces + 1
      BY <1>0, <2>1, <2>2 DEF SentBy
    <3>2. inq'[x] = Append(inq[x], Unit(pieces + 1))
      BY <1>0, <2>1, <2>2, SideIs
    <3> QED BY <2>1, <2>2, <3>1, <3>2, SideIs
            DEF Moves, Sends, KeepsRelay, KeepsSink, KeepsGone, KeepsTorn, Doubled, Stream
  <2>3. CASE x # "client"
    <3>1. SentBy(x)' = SentBy(x)
      BY <2>1, <2>3 DEF SentBy
    <3>2. inq'[x] = inq[x]
      BY <1>0, <2>1, <2>3, SideIs
    <3> QED BY <2>1, <2>3, <3>1, <3>2, SideIs
            DEF Moves, Still, KeepsSource, KeepsRelay, KeepsSink, KeepsGone, KeepsTorn, Doubled, Stream
  <2> QED BY <2>2, <2>3
<1>3. ASSUME NEW z \in Side, SendData(z) PROVE Moves(x)
  <2>1. /\ sent' = [sent EXCEPT ![z] = @ + 1] /\ z \notin rst
        /\ inq' = [inq EXCEPT ![z] = Append(@, Unit(sent'[z] + pieces * (IF z = "client" THEN 1 ELSE 0)))]
        /\ UNCHANGED <<pieces, outq, got, gone, rst, chain, buf, history>>
    BY <1>3, SideIs DEF SendData, RunInv
  <2>2. CASE x = z
    <3>1. sent'[x] = sent[x] + 1
      BY <1>0, <2>1, <2>2
    <3>2. SentBy(x)' = SentBy(x) + 1
          /\ SentBy(x) + 1 = sent'[x] + pieces * (IF x = "client" THEN 1 ELSE 0)
      BY <1>0, <2>1, <3>1 DEF SentBy
    <3>3. inq'[x] = Append(inq[x], Unit(SentBy(x) + 1))
      BY <1>0, <2>1, <2>2, <3>2
    <3> QED BY <2>1, <2>2, <3>2, <3>3, SideIs
            DEF Moves, Sends, KeepsRelay, KeepsSink, KeepsGone, KeepsTorn, Doubled, Stream
  <2>3. CASE x # z
    <3>1. SentBy(x)' = SentBy(x)
      BY <1>0, <2>1, <2>3 DEF SentBy
    <3>2. inq'[x] = inq[x]
      BY <1>0, <2>1, <2>3
    <3> QED BY <2>1, <3>1, <3>2, SideIs
            DEF Moves, Still, KeepsSource, KeepsRelay, KeepsSink, KeepsGone, KeepsTorn, Doubled, Stream
  <2> QED BY <2>2, <2>3
<1>4. ASSUME NEW z \in Side, PeerReads(z) PROVE Moves(x)
  <2>1. /\ outq[z] # <<>>
        /\ got' = [got EXCEPT ![z] = Append(@, Head(outq[z]))] /\ outq' = [outq EXCEPT ![z] = Tail(@)]
        /\ UNCHANGED <<sent, pieces, inq, gone, rst, chain, buf, history>>
    BY <1>4 DEF PeerReads
  <2>2. ASSUME NEW y \in Side PROVE Stream(y)' = Stream(y)
    <3>1. CASE y = z
      <4>1. got'[y] = Append(got[y], Head(outq[y])) /\ outq'[y] = Tail(outq[y])
        BY <1>0, <2>1, <3>1
      <4>2. Append(got[y], Head(outq[y])) \o Tail(outq[y]) = got[y] \o outq[y]
        <5>1. got[y] \in Seq(Units) /\ outq[y] \in Seq(Units) /\ outq[y] # <<>>
          BY <1>0, <2>1, <3>1
        <5> QED BY ONLY <5>1, HeadMoves
      <4> QED BY <4>1, <4>2 DEF Stream
    <3>2. CASE y # z
      BY <1>0, <2>1, <3>2 DEF Stream
    <3> QED BY <3>1, <3>2
  <2> QED BY <2>1, <2>2, SideIs
          DEF Moves, Still, KeepsSource, KeepsRelay, KeepsSink, KeepsGone, KeepsTorn, Doubled, SentBy
<1>5. ASSUME NEW z \in Side, PeerCloses(z) PROVE Moves(x)
  <2>1. /\ z \notin gone /\ gone' = gone \cup {z} /\ z \notin rst
        /\ \/ outq[z] = <<>> /\ UNCHANGED <<rst, inq, outq>>
           \/ /\ rst' = rst \cup {z}
              /\ inq' = [inq EXCEPT ![z] = <<>>] /\ outq' = [outq EXCEPT ![z] = <<>>]
        /\ UNCHANGED <<sent, pieces, got, chain, buf, history>>
    BY <1>5 DEF PeerCloses, RunInv
  <2>2. SentBy(x)' = SentBy(x) /\ KeepsRelay(x) /\ KeepsTorn(x)
    BY <2>1 DEF SentBy, KeepsRelay, KeepsTorn, Doubled
  <2>3. CASE x = z
    <3>1. Other[x] # z /\ Other[x] \in Side
      BY <2>3, SideIs
    <3>2. Stream(Other[x])' = Stream(Other[x]) /\ KeepsGone(x)
      BY <1>0, <2>1, <3>1 DEF Stream, KeepsGone
    <3>3. (inq'[x] = inq[x] /\ (x \in rst' <=> x \in rst)) \/ (inq'[x] = <<>> /\ x \in rst')
      BY <1>0, <2>1, <2>3
    <3> QED BY <2>2, <3>2, <3>3 DEF Moves, Still, Loses, KeepsSource, KeepsSink
  <2>4. CASE x # z
    <3>1. Other[x] = z
      BY <2>4, SideIs
    <3>2. KeepsSource(x)
      BY <1>0, <2>1, <2>2, <2>4 DEF KeepsSource
    <3>3. outq'[z] = <<>> \/ outq'[z] = outq[z]
      BY <1>0, <2>1
    <3>4. /\ Stream(z) \in Seq(Units) /\ got[z] \in Seq(Units) /\ Len(outq[z]) \in Nat /\ Len(got[z]) \in Nat
          /\ Len(Stream(z)) = Len(got[z]) + Len(outq[z])
          /\ \A i \in 1..Len(got[z]) : Stream(z)[i] = got[z][i]
      BY StreamType
    <3>5. Stream(z)' = Stream(z) \/ Stream(z)' = got[z]
      <4>1. CASE outq'[z] = outq[z]
        BY <2>1, <4>1 DEF Stream
      <4>2. CASE outq'[z] = <<>>
        <5>1. got[z] \o <<>> = got[z]
          BY <3>4, ConcatEmptySeq
        <5> QED BY <2>1, <4>2, <5>1 DEF Stream
      <4> QED BY <3>3, <4>1, <4>2
    <3>6. Len(Stream(z)') <= Len(Stream(z)) /\ \A j \in 1..Len(Stream(z)') : Stream(z)'[j] = Stream(z)[j]
      <4> DEFINE s == Stream(z)
                 t == got[z]
      <4>1. s \in Seq(Units) /\ t \in Seq(Units) /\ Len(t) <= Len(s) /\ \A j \in 1..Len(t) : s[j] = t[j]
        <5> HIDE DEF s, t
        <5>1. /\ s \in Seq(Units) /\ t \in Seq(Units) /\ Len(t) \in Nat
              /\ Len(s) = Len(t) + Len(outq[z]) /\ \A i \in 1..Len(t) : s[i] = t[i]
              /\ Len(outq[z]) \in Nat
          BY <3>4 DEF s, t
        <5> QED BY ONLY <5>1
      <4> HIDE DEF s, t
      <4>2. Len(s) <= Len(s) /\ Len(t) <= Len(s)
        BY <4>1
      <4>3. CASE Stream(z)' = s
        BY <4>2, <4>3 DEF s
      <4>4. CASE Stream(z)' = t
        BY <4>1, <4>4 DEF s
      <4> QED BY <3>5, <4>3, <4>4 DEF s, t
    <3> QED BY <2>1, <2>2, <3>1, <3>2, <3>6 DEF Moves, Closes
  <2> QED BY <2>3, <2>4
<1> QED BY <1>1, <1>2, <1>3, <1>4, <1>5 DEF Peer

LEMMA MovesRequest ==
  ASSUME TypeInv, RunInv, NEW x \in Side,
         \/ ReadRequest \/ NoRequestComes \/ DoResolve \/ SkipV6 \/ Connect \/ Bind \/ Refuse
         \/ LateReply \/ End
  PROVE  Moves(x)
<1> USE DEF peers, connecting, relay
<1>1. CASE ReadRequest
  <2>1. PICK k \in 1..Len(inq["client"]) :
          /\ inq' = [inq EXCEPT !["client"] = SubSeq(@, k + 1, Len(@))]
          /\ history'.torn = history.torn
    BY <1>1, ReadIs
  <2>2. inq \in [Side -> Seq(Units)]
    BY DEF TypeInv, TypeOK
  <2>3. UNCHANGED <<sent, pieces, got, outq, gone, rst, chain, buf>>
    BY <1>1 DEF ReadRequest
  <2>4. SentBy(x)' = SentBy(x) /\ KeepsRelay(x) /\ KeepsSink(x) /\ KeepsTorn(x)
    BY <2>1, <2>3 DEF KeepsRelay, KeepsSink, KeepsGone, KeepsTorn, SentBy, Doubled, Stream
  <2>5. CASE x = "client"
    <3>1. inq["client"] \in Seq(Units) /\ k \in 0..Len(inq["client"])
      BY <2>2, SideIs
    <3> DEFINE r == SubSeq(inq["client"], k + 1, Len(inq["client"]))
    <3>2. /\ Len(r) = Len(inq["client"]) - k
          /\ \A i \in 1..(Len(inq["client"]) - k) : r[i] = inq["client"][k + i]
      BY ONLY <3>1, DropIs
    <3>3. inq'["client"] = r
      BY <2>1, <2>2, SideIs
    <3> HIDE DEF r
    <3>4. k \in 1..Len(inq["client"]) /\ Len(inq'["client"]) = Len(inq["client"]) - k
          /\ \A i \in 1..Len(inq'["client"]) : inq'["client"][i] = inq["client"][k + i]
      BY <3>2, <3>3
    <3>5. Takes(x, k)
      BY <2>3, <2>4, <2>5, <3>4 DEF Takes
    <3>6. chain[x][1].st = "off"
      BY <1>1, <2>5 DEF ReadRequest, RunInv
    <3> QED BY <2>4, <2>5, <3>5, <3>6 DEF Asks, Moves
  <2>6. CASE x # "client"
    <3>1. inq'[x] = inq[x]
      BY <2>1, <2>2, <2>6
    <3> QED BY <2>3, <2>4, <3>1 DEF Moves, Still, KeepsSource
  <2> QED BY <2>5, <2>6
<1>2. CASE NoRequestComes \/ DoResolve \/ SkipV6 \/ End
  BY <1>2, StillIs DEF NoRequestComes, DoResolve, SkipV6, End, Moves
<1>3. CASE Connect
  <2>1. history'.torn = history.torn
    BY <1>3, AsyncIs DEF Connect
  <2> QED BY <1>3, <2>1, StillIs DEF Connect, Moves
<1>4. CASE Bind \/ Refuse
  <2>1. PICK a \in {"ACCEPT", "REJECT"} : DoReply(a)
    BY <1>4 DEF Bind, Refuse
  <2>2. UNCHANGED <<sent, pieces, inq, got, gone, rst, chain, buf>>
    BY <1>4 DEF Bind, Refuse
  <2>3. Told(x) /\ KeepsTorn(x)
    BY <2>1, <2>2, ReplyTold
  <2> QED BY <2>2, <2>3 DEF Moves, Speaks, KeepsSource, KeepsRelay, KeepsGone, SentBy, Doubled
<1>5. CASE LateReply
  <2>1. UNCHANGED <<sent, pieces, inq, got, gone, rst, chain, buf, history>>
    BY <1>5 DEF LateReply
  <2>2. CASE UNCHANGED outq
    BY <2>1, <2>2, StillIs DEF Moves
  <2>3. CASE "client" \notin gone /\ outq' = [outq EXCEPT !["client"] = Append(@, Reply("garbage"))]
    <3>1. Reply("garbage") \in Units /\ IsReply(Reply("garbage"))
      BY UnitIs DEF Reply, IsReply
    <3>2. Told(x)
      <4>1. late > 0
        BY <1>5 DEF LateReply
      <4> QED BY <2>1, <2>3, <3>1, <4>1, ToldIs
    <3> QED BY <2>1, <3>2
            DEF Moves, Speaks, KeepsSource, KeepsRelay, KeepsGone, KeepsTorn, SentBy, Doubled
  <2> QED BY <1>5, <2>2, <2>3 DEF LateReply
<1> QED BY <1>1, <1>2, <1>3, <1>4, <1>5

LEMMA MovesAnswer ==
  ASSUME TypeInv, RunInv, NEW x \in Side, ConnectDone \/ ConnectPosted \/ AcceptDone
  PROVE  Moves(x)
<1> USE DEF peers, connecting, relay
<1>1. UNCHANGED <<sent, pieces, inq, got, gone, rst, buf>>
  BY DEF ConnectDone, ConnectPosted, Connected, AcceptDone
<1>2. \E a \in {"ACCEPT", "REJECT"} : DoReply(a)
  <2>1. CASE AcceptDone
    BY <2>1 DEF AcceptDone, Answer
  <2>2. CASE ConnectDone \/ ConnectPosted
    <3>1. PICK ok \in BOOLEAN : Connected(ok)
      BY <2>2 DEF ConnectDone, ConnectPosted
    <3> QED BY <3>1, AnswerIs DEF Connected
  <2> QED BY <2>1, <2>2
<1>3. StartRelay \/ UNCHANGED chain
  BY DEF ConnectDone, ConnectPosted, Connected, Answer, AcceptDone
<1>4. Told(x) /\ KeepsTorn(x)
  BY <1>1, <1>2, ReplyTold
<1>5. CASE StartRelay
  BY <1>1, <1>4, <1>5, StartsIs DEF Moves
<1>6. CASE UNCHANGED chain
  BY <1>1, <1>4, <1>6 DEF Moves, Speaks, KeepsSource, KeepsRelay, KeepsGone, SentBy, Doubled
<1> QED BY <1>3, <1>5, <1>6

\* A relay that runs goes on or ends: no other starts.
LEMMA SetMoves ==
  ASSUME TypeInv, RunInv, NEW z \in Side, NEW i \in Chain, NEW st \in {"read", "write", "end"},
         NEW n \in Nat, Set(z, i, st, n), chain[z][i].st # "off"
  PROVE  /\ chain'[z][i].st = st /\ chain'[z][i].len = n
         /\ \A j \in Chain : j # i => chain'[z][j] = chain[z][j]
         /\ \A y \in Side, j \in Chain : y # z => chain'[y][j] = chain[y][j]
         /\ Doubled' <=> Doubled
<1>1. /\ chain'[z][i].st = st /\ chain'[z][i].len = n
      /\ \A y \in Side, j \in Chain : (y # z \/ j # i) => chain'[y][j] = chain[y][j]
  BY SetIs
<1>2. chain["client"][i].st # "off" \/ z # "client"
  OBVIOUS
<1>3. chain'["client"][2].st # "off" <=> chain["client"][2].st # "off"
  <2>1. CASE z = "client" /\ i = 2
    BY <1>1, <2>1
  <2>2. CASE z # "client" \/ i # 2
    BY <1>1, <2>2, SideIs DEF Chain
  <2> QED BY <2>1, <2>2
<1> QED BY <1>1, <1>3 DEF Doubled

LEMMA MovesRelay ==
  ASSUME TypeInv, RunInv, NEW x \in Side, NEW z \in Side, Relay(z)
  PROVE  Moves(x)
<1> USE DEF peers, connecting, relay
<1>0. PICK i \in Chain : RelayReads(z, i) \/ RelayEnds(z, i) \/ RelayWrites(z, i) \/ RelayFails(z, i)
  BY DEF Relay
<1>1. UNCHANGED <<sent, pieces, got, gone, rst>>
  BY <1>0 DEF RelayReads, RelayEnds, RelayWrites, RelayFails
<1>2. SentBy(x)' = SentBy(x) /\ (x \in rst' <=> x \in rst) /\ KeepsGone(x)
  BY <1>1 DEF SentBy, KeepsGone
<1>3. CASE RelayReads(z, i)
  <2>1. PICK k \in 1..Len(inq[z]) :
           /\ Set(z, i, "write", k)
           /\ Len(inq'[z]) = Len(inq[z]) - k
           /\ \A j \in 1..Len(inq'[z]) : inq'[z][j] = inq[z][k + j]
           /\ \A y \in Side : y # z => inq'[y] = inq[y] /\ buf'[y] = buf[y]
           /\ \A j \in 1..k : buf'[z][j] = inq[z][j]
           /\ \A j \in 1..Len(buf'[z]) : j > k => j \in 1..Len(buf[z]) /\ buf'[z][j] = buf[z][j]
    BY <1>3, RelayReadsIs
  <2>2. k \in Nat
    BY <2>1 DEF TypeInv, TypeOK
  <2>3. chain[z][i].st = "read" /\ UNCHANGED <<outq, history>>
    BY <1>3 DEF RelayReads
  <2>4. /\ chain'[z][i].st = "write" /\ chain'[z][i].len = k
        /\ \A j \in Chain : j # i => chain'[z][j] = chain[z][j]
        /\ \A y \in Side, j \in Chain : y # z => chain'[y][j] = chain[y][j]
        /\ Doubled' <=> Doubled
    BY <2>1, <2>2, <2>3, SetMoves
  <2>5. KeepsSink(x) /\ KeepsTorn(x)
    BY <1>1, <1>2, <2>3 DEF KeepsSink, KeepsTorn, Stream
  <2>6. CASE x = z
    <3>1. Takes(x, k)
      BY <1>2, <2>1, <2>5, <2>6 DEF Takes
    <3>2. Fills(x, i)
      BY <2>1, <2>3, <2>4, <2>6, <3>1 DEF Fills
    <3> QED BY <3>2 DEF Moves
  <2>7. CASE x # z
    BY <1>2, <2>1, <2>4, <2>5, <2>7 DEF Moves, Still, KeepsSource, KeepsRelay
  <2> QED BY <2>6, <2>7
<1>4. CASE RelayWrites(z, i)
  <2>1. PICK k \in 1..chain[z][i].len :
           /\ Set(z, i, "read", 0)
           /\ k <= Len(buf[z])
           /\ Len(outq'[Other[z]]) = Len(outq[Other[z]]) + k
           /\ \A j \in 1..Len(outq[Other[z]]) : outq'[Other[z]][j] = outq[Other[z]][j]
           /\ \A j \in 1..k : outq'[Other[z]][Len(outq[Other[z]]) + j] = buf[z][j]
           /\ outq'[z] = outq[z]
           /\ history'.torn = IF k < chain[z][i].len THEN history.torn \cup {z} ELSE history.torn
    BY <1>4, RelayWritesIs
  <2>2. chain[z][i].st = "write" /\ Other[z] \notin gone /\ UNCHANGED <<inq, buf>>
    BY <1>4 DEF RelayWrites
  <2>3. /\ chain'[z][i].st = "read"
        /\ \A j \in Chain : j # i => chain'[z][j] = chain[z][j]
        /\ \A y \in Side, j \in Chain : y # z => chain'[y][j] = chain[y][j]
        /\ Doubled' <=> Doubled
    BY <2>1, <2>2, SetMoves
  <2>4. KeepsSource(x) /\ buf'[x] = buf[x]
    BY <1>2, <2>2 DEF KeepsSource
  <2>5. CASE x = z
    <3>0. PICK y \in Side : y = Other[x]
      BY SideIs
    <3>1. Stream(y) = got[y] \o outq[y] /\ Stream(y)' = got[y] \o outq'[y]
      BY <1>1 DEF Stream
    <3>2. got[y] \in Seq(Units) /\ outq[y] \in Seq(Units)
      BY DEF TypeInv, TypeOK
    <3>3. outq'[y] \in Seq(Units)
      BY <1>4, RelayWritesIs
    <3>4. buf[x] \in Seq(Units) /\ k \in Nat
      BY <2>1 DEF TypeInv, TypeOK
    <3>5. /\ Len(outq'[y]) = Len(outq[y]) + k
          /\ \A j \in 1..Len(outq[y]) : outq'[y][j] = outq[y][j]
          /\ \A j \in 1..k : outq'[y][Len(outq[y]) + j] = buf[x][j]
      BY <2>1, <2>5, <3>0
    <3>6. /\ Len(Stream(y)') = Len(Stream(y)) + k
          /\ \A j \in 1..Len(Stream(y)) : Stream(y)'[j] = Stream(y)[j]
          /\ \A j \in 1..k : Stream(y)'[Len(Stream(y)) + j] = buf[x][j]
      <4>1. PICK g \in Seq(Units), o \in Seq(Units), p \in Seq(Units), b \in Seq(Units) :
              g = got[y] /\ o = outq[y] /\ p = outq'[y] /\ b = buf[x]
        BY <3>2, <3>3, <3>4
      <4>2. /\ Len(p) = Len(o) + k
            /\ \A j \in 1..Len(o) : p[j] = o[j]
            /\ \A j \in 1..k : p[Len(o) + j] = b[j]
        BY <3>5, <4>1
      <4>3. /\ Len(g \o p) = Len(g \o o) + k
            /\ \A j \in 1..Len(g \o o) : (g \o p)[j] = (g \o o)[j]
            /\ \A j \in 1..k : (g \o p)[Len(g \o o) + j] = b[j]
        <5>j. ASSUME NEW u \in Seq(Units), NEW v \in Seq(Units)
              PROVE  /\ Len(u \o v) = Len(u) + Len(v)
                     /\ (\A m \in 1..Len(u) : (u \o v)[m] = u[m])
                     /\ \A m \in 1..Len(v) : (u \o v)[Len(u) + m] = v[m]
          BY ONLY <5>j, JoinIs
        <5>1. /\ Len(g \o p) = Len(g) + Len(p)
              /\ \A m \in 1..Len(g) : (g \o p)[m] = g[m]
              /\ \A m \in 1..Len(p) : (g \o p)[Len(g) + m] = p[m]
          BY <5>j
        <5>2. /\ Len(g \o o) = Len(g) + Len(o)
              /\ \A m \in 1..Len(g) : (g \o o)[m] = g[m]
              /\ \A m \in 1..Len(o) : (g \o o)[Len(g) + m] = o[m]
          BY <5>j
        <5>3. Len(g) \in Nat /\ Len(o) \in Nat /\ k \in Nat
          BY <3>4
        <5>4. ASSUME NEW j \in 1..Len(g \o o) PROVE (g \o p)[j] = (g \o o)[j]
          <6>1. CASE j <= Len(g)
            BY ONLY <5>1, <5>2, <5>3, <5>4, <6>1
          <6>2. CASE j > Len(g)
            <7>1. j - Len(g) \in 1..Len(o) /\ j = Len(g) + (j - Len(g)) /\ j - Len(g) \in 1..Len(p)
              BY ONLY <4>2, <5>2, <5>3, <5>4, <6>2
            <7>2. (g \o p)[j] = p[j - Len(g)] /\ (g \o o)[j] = o[j - Len(g)]
              BY ONLY <5>1, <5>2, <7>1
            <7> QED BY ONLY <4>2, <7>1, <7>2
          <6>3. j \in Int /\ Len(g) \in Int
            BY ONLY <5>2, <5>3, <5>4
          <6>4. j <= Len(g) \/ j > Len(g)
            BY ONLY <6>3
          <6> QED BY <6>1, <6>2, <6>4
        <5>5. ASSUME NEW j \in 1..k PROVE (g \o p)[Len(g \o o) + j] = b[j]
          <6>1. Len(o) + j \in 1..Len(p) /\ Len(g \o o) + j = Len(g) + (Len(o) + j)
            BY ONLY <4>2, <5>2, <5>3, <5>5
          <6> QED BY ONLY <4>2, <5>1, <5>5, <6>1
        <5>6. Len(g \o p) = Len(g \o o) + k
          BY ONLY <4>2, <5>1, <5>2, <5>3
        <5> QED BY <5>4, <5>5, <5>6
      <4>4. Stream(y) = g \o o /\ Stream(y)' = g \o p
        BY <3>1, <4>1
      <4> QED BY <4>1, <4>3, <4>4
    <3>9. x \in history'.torn <=> x \in history.torn \/ k < chain[x][i].len
      BY <2>1, <2>5
    <3>10. Drains(x, i)
      BY <1>2, <2>1, <2>2, <2>3, <2>4, <2>5, <3>0, <3>6, <3>9 DEF Drains
    <3> QED BY <3>10 DEF Moves
  <2>6. CASE x # z
    <3>1. Other[x] = z
      BY <2>6, SideIs
    <3>2. KeepsSink(x)
      BY <1>1, <1>2, <2>1, <3>1 DEF KeepsSink, Stream
    <3>3. KeepsTorn(x)
      BY <2>1, <2>6 DEF KeepsTorn
    <3> QED BY <2>3, <2>4, <2>6, <3>2, <3>3 DEF Moves, Still, KeepsRelay
  <2> QED BY <2>5, <2>6
<1>5. CASE RelayEnds(z, i) \/ RelayFails(z, i)
  <2>1. /\ chain[z][i].st \in {"read", "write"} /\ UNCHANGED <<inq, outq, buf, history>>
        /\ \E st \in {"end", "read"} : Set(z, i, st, 0) /\ (st = "end" \/ RelayFails(z, i))
    BY <1>5 DEF RelayEnds, RelayFails
  <2>2. PICK st \in {"end", "read"} : Set(z, i, st, 0) /\ (st = "end" \/ Other[z] \in gone)
    BY <1>5 DEF RelayEnds, RelayFails
  <2>3. /\ chain'[z][i].st = st
        /\ \A j \in Chain : j # i => chain'[z][j] = chain[z][j]
        /\ \A y \in Side, j \in Chain : y # z => chain'[y][j] = chain[y][j]
        /\ Doubled' <=> Doubled
    BY <2>1, <2>2, SetMoves
  <2>4. KeepsSource(x) /\ buf'[x] = buf[x] /\ KeepsSink(x) /\ KeepsTorn(x)
    BY <1>1, <1>2, <2>1 DEF KeepsSource, KeepsSink, KeepsTorn, Stream
  <2>5. CASE x = z
    <3>1. Rests(x, i)
      BY <2>1, <2>2, <2>3, <2>4, <2>5 DEF Rests
    <3> QED BY <3>1 DEF Moves
  <2>6. CASE x # z
    BY <2>3, <2>4, <2>6 DEF Moves, Still, KeepsRelay
  <2> QED BY <2>5, <2>6
<1> QED BY <1>0, <1>3, <1>4, <1>5

\* Every step is one of these moves, for both directions.
LEMMA EveryMove ==
  ASSUME TypeInv, RunInv, [Next]_vars, NEW x \in Side
  PROVE  Moves(x)
<1>1. CASE UNCHANGED vars
  BY <1>1, StillIs DEF vars, peers, relay, Moves
<1> QED BY <1>1, MovesOutside, MovesRequest, MovesAnswer, MovesRelay DEF Next, Handler

-----------------------------------------------------------------------------
\* RunInv is an invariant.

LEMMA RunInit == Init => RunInv
<1> SUFFICES ASSUME Init PROVE RunInv
  OBVIOUS
<1>1. \A x \in Side, i \in Chain : chain[x][i].st = "off"
  BY DEF Init, Off
<1>2. waiting = FALSE /\ posted = <<>> /\ accepts = 0 /\ shut = {} /\ rst = {}
      /\ sent = [x \in Side |-> 0]
  BY DEF Init
<1> QED BY <1>1, <1>2, SideIs DEF RunInv, Chain

\* The parts that a step may leave alone.
RunsKept    == UNCHANGED <<chain, shut>> /\ (pc' \in {"request", "resolve"} => pc \in {"request", "resolve"})
OpsKept     == UNCHANGED <<request, waiting, posted, accepts>> /\ history'.answers = history.answers
PeersKept   == UNCHANGED <<pieces, sent, rst, inq, gone>>

RunsOk  == /\ pc \in {"request", "resolve"} => chain["client"][1].st = "off"
           /\ \A i \in Chain : chain["client"][i].st = "off" <=> chain["server"][i].st = "off"
           /\ chain["client"][1].st = "off" => chain["client"][2].st = "off" /\ shut = {}
OpsOk   == /\ waiting \/ posted # <<>> => request.command = "CONNECT"
           /\ accepts > 0 => \E i \in 1..Len(history.answers) : history.answers[i] = "ACCEPT"
PeersOk == /\ pieces < 3 => sent["client"] = 0
           /\ \A x \in Side : x \in rst => inq[x] = <<>> /\ x \in gone

LEMMA RunParts == RunInv <=> (RunsOk /\ OpsOk /\ PeersOk)
BY DEF RunInv, RunsOk, OpsOk, PeersOk

LEMMA RunParts2 == RunsOk' /\ OpsOk' /\ PeersOk' => RunInv'
BY DEF RunInv, RunsOk, OpsOk, PeersOk

LEMMA KeptParts ==
  ASSUME RunInv
  PROVE  (RunsKept => RunsOk') /\ (OpsKept => OpsOk') /\ (PeersKept => PeersOk')
BY DEF RunInv, RunsOk, OpsOk, PeersOk, RunsKept, OpsKept, PeersKept

\* A reply that comes with the acceptance of callers, or leaves what there is.
LEMMA OpsReply ==
  ASSUME TypeInv, RunInv, NEW a \in {"ACCEPT", "REJECT"}, DoReply(a), UNCHANGED request,
         waiting' \/ posted' # <<>> => waiting \/ posted # <<>>,
         accepts' > 0 => accepts > 0 \/ a = "ACCEPT"
  PROVE  OpsOk'
<1>1. /\ history.answers \in Seq({"ACCEPT", "REJECT"})
      /\ history'.answers = Append(history.answers, a)
  BY ReplyIs DEF TypeInv, HistoryType
<1>2. /\ Len(history'.answers) = Len(history.answers) + 1 /\ Len(history.answers) \in Nat
      /\ \A i \in 1..Len(history.answers) : history'.answers[i] = history.answers[i]
      /\ history'.answers[Len(history.answers) + 1] = a
  BY <1>1
<1>3. accepts' > 0 => \E i \in 1..Len(history'.answers) : history'.answers[i] = "ACCEPT"
  <2>1. SUFFICES ASSUME accepts > 0 \/ a = "ACCEPT"
                 PROVE  \E i \in 1..Len(history'.answers) : history'.answers[i] = "ACCEPT"
    OBVIOUS
  <2>2. CASE a = "ACCEPT"
    <3>1. Len(history.answers) + 1 \in 1..Len(history'.answers)
      BY <1>2
    <3> QED BY <1>2, <2>2, <3>1
  <2>3. CASE accepts > 0
    <3>1. PICK i \in 1..Len(history.answers) : history.answers[i] = "ACCEPT"
      BY <2>3 DEF RunInv
    <3>2. i \in 1..Len(history'.answers)
      BY <1>2
    <3> QED BY <1>2, <3>1, <3>2
  <2> QED BY <2>1, <2>2, <2>3
<1> QED BY <1>3 DEF OpsOk, RunInv

LEMMA RunStep == TypeInv /\ DueInv /\ RunInv /\ [Next]_vars => RunInv'
<1> SUFFICES ASSUME TypeInv, DueInv, RunInv, [Next]_vars PROVE RunInv'
  OBVIOUS
<1> USE DEF peers, connecting, relay
<1>1. CASE UNCHANGED vars
  BY <1>1, KeptParts, RunParts2 DEF vars, RunsKept, OpsKept, PeersKept
<1>2. CASE HostAnswers \/ HostCalls \/ NoRequestComes \/ DoResolve \/ SkipV6 \/ LateReply \/ End
  BY <1>2, KeptParts, RunParts2
  DEF HostAnswers, HostCalls, NoRequestComes, DoResolve, SkipV6, LateReply, End, Pending, Idle, RunsKept, OpsKept, PeersKept
<1>3. CASE SendPiece
  <2>1. RunsKept /\ OpsKept
    BY <1>3 DEF SendPiece, RunsKept, OpsKept
  <2>2. PeersOk'
    <3>1. pieces < 3 /\ pieces \in Nat /\ inq \in [Side -> Seq(Units)] /\ Len(packet) = 3
      <4>1. Len(packet) = 3 /\ pieces < Len(packet)
        BY <1>3, SentIs DEF SendPiece
      <4>2. pieces \in 0..3 /\ inq \in [Side -> Seq(Units)]
        BY DEF TypeInv, TypeOK
      <4> QED BY ONLY <4>1, <4>2
    <3>2. sent["client"] = 0 /\ "client" \notin rst
      BY <1>3, <3>1, SideIs DEF RunInv, SendPiece
    <3>3. \A x \in Side : x # "client" => inq'[x] = inq[x]
      BY <1>3, <3>1 DEF SendPiece
    <3>4. UNCHANGED <<sent, rst, gone>>
      BY <1>3 DEF SendPiece
    <3> QED BY <3>2, <3>3, <3>4 DEF PeersOk, RunInv
  <2> QED BY <2>1, <2>2, KeptParts, RunParts2
<1>4. ASSUME NEW z \in Side, Peer(z) PROVE RunInv'
  <2>1. RunsKept /\ OpsKept
    BY <1>4 DEF Peer, SendData, PeerReads, PeerCloses, RunsKept, OpsKept
  <2>2. inq \in [Side -> Seq(Units)] /\ sent \in [Side -> Nat] /\ Len(packet) = 3
    BY SentIs DEF TypeInv, TypeOK
  <2>3. CASE SendData(z)
    <3>1. /\ z \notin rst /\ (z = "client" => pieces = 3) /\ UNCHANGED <<pieces, rst, gone>>
          /\ \A x \in Side : x # z => inq'[x] = inq[x] /\ sent'[x] = sent[x]
      BY <2>2, <2>3 DEF SendData, RunInv
    <3>2. PeersOk'
      BY <3>1, SideIs DEF PeersOk, RunInv
    <3> QED BY <2>1, <3>2, KeptParts, RunParts2
  <2>4. CASE PeerReads(z)
    BY SMTT(20), <2>1, <2>4, KeptParts, RunParts2 DEF PeerReads, PeersKept
  <2>5. CASE PeerCloses(z)
    <3>1. /\ UNCHANGED <<pieces, sent>> /\ gone' = gone \cup {z}
          /\ \A x \in Side : x # z => inq'[x] = inq[x] /\ (x \in rst' <=> x \in rst)
          /\ (rst' = rst /\ inq' = inq) \/ inq'[z] = <<>>
      BY <2>2, <2>5 DEF PeerCloses
    <3>2. PeersOk'
      BY <3>1, SideIs DEF PeersOk, RunInv
    <3> QED BY <2>1, <3>2, KeptParts, RunParts2
  <2> QED BY <1>4, <2>3, <2>4, <2>5 DEF Peer
<1>5. CASE ReadRequest
  <2>1. PICK k \in 1..Len(inq["client"]) :
          /\ inq' = [inq EXCEPT !["client"] = SubSeq(@, k + 1, Len(@))]
          /\ history'.answers = history.answers
    BY <1>5, ReadIs
  <2>2. RunsKept
    BY <1>5 DEF ReadRequest, RunsKept
  <2>3. OpsOk'
    BY <1>5, <2>1 DEF ReadRequest, OpsOk, DueInv, RunInv
  <2>4. PeersOk'
    <3>1. inq \in [Side -> Seq(Units)]
      BY DEF TypeInv, TypeOK
    <3>2. \A x \in Side : x # "client" => inq'[x] = inq[x]
      BY <2>1, <3>1
    <3>3. "client" \notin rst /\ UNCHANGED <<sent, pieces, rst, gone>>
      BY <1>5, SideIs DEF ReadRequest, RunInv
    <3> QED BY <3>2, <3>3 DEF PeersOk, RunInv
  <2> QED BY <2>2, <2>3, <2>4, KeptParts, RunParts2
<1>6. CASE Connect
  <2>1. history'.answers = history.answers /\ RunsKept /\ PeersKept
    BY <1>6, AsyncIs DEF Connect, RunsKept, PeersKept
  <2>2. OpsOk'
    BY <1>6, <2>1 DEF Connect, OpsOk, RunInv
  <2> QED BY <2>1, <2>2, KeptParts, RunParts2
<1>7. CASE Bind
  <2>1. RunsKept /\ PeersKept
    BY <1>7 DEF Bind, RunsKept, PeersKept
  <2>2. OpsOk'
    BY <1>7, OpsReply DEF Bind
  <2> QED BY <2>1, <2>2, KeptParts, RunParts2
<1>8. CASE Refuse
  <2>1. RunsKept /\ PeersKept
    BY <1>8 DEF Refuse, RunsKept, PeersKept
  <2>2. OpsOk'
    BY <1>8, OpsReply DEF Refuse
  <2> QED BY <2>1, <2>2, KeptParts, RunParts2
<1>9. CASE ConnectDone \/ ConnectPosted \/ AcceptDone
  <2>1. /\ UNCHANGED <<pieces, sent, rst, inq, gone, shut, request, pc>> /\ Idle
        /\ StartRelay \/ UNCHANGED chain
        /\ waiting' \/ posted' # <<>> => waiting \/ posted # <<>>
    BY <1>9 DEF ConnectDone, ConnectPosted, Connected, Answer, AcceptDone
  <2>2. PICK a \in {"ACCEPT", "REJECT"} : DoReply(a)
    <3>1. CASE AcceptDone
      BY <3>1 DEF AcceptDone, Answer
    <3>2. CASE ConnectDone \/ ConnectPosted
      <4>1. PICK ok \in BOOLEAN : Connected(ok)
        BY <3>2 DEF ConnectDone, ConnectPosted
      <4> QED BY <4>1, AnswerIs DEF Connected
    <3> QED BY <1>9, <3>1, <3>2
  <2>3. accepts' > 0 => accepts > 0
    BY <1>9 DEF ConnectDone, ConnectPosted, Connected, AcceptDone
  <2>4. OpsOk'
    BY <2>1, <2>2, <2>3, OpsReply
  <2>5. RunsOk'
    <3>1. CASE UNCHANGED chain
      BY <2>1, <3>1 DEF RunsOk, RunInv
    <3>2. CASE StartRelay
      <4>1. PICK i \in Chain :
               /\ i = 2 <=> chain["client"][1].st # "off"
               /\ \A y \in Side : chain'[y][i].st = "read" /\ chain'[y][i].len = 0
               /\ \A y \in Side, j \in Chain : j # i => chain'[y][j] = chain[y][j]
        BY <3>2, StartIs
      <4>2. chain'["client"][1].st # "off"
        BY <4>1, SideIs DEF Chain
      <4>3. \A j \in Chain : chain'["client"][j].st = "off" <=> chain'["server"][j].st = "off"
        BY <4>1, SideIs DEF RunInv
      <4> QED BY <2>1, <4>2, <4>3 DEF RunsOk, Idle
    <3> QED BY <2>1, <3>1, <3>2
  <2> QED BY <2>1, <2>4, <2>5, KeptParts, RunParts2 DEF PeersKept
<1>10. ASSUME NEW z \in Side, Relay(z) PROVE RunInv'
  <2>1. PICK i \in Chain : RelayReads(z, i) \/ RelayEnds(z, i) \/ RelayWrites(z, i) \/ RelayFails(z, i)
    BY <1>10 DEF Relay
  <2>2. /\ chain[z][i].st \in {"read", "write"} /\ UNCHANGED <<pieces, sent, rst, gone, request, waiting, posted, accepts, pc>>
        /\ Idle
    BY <2>1 DEF RelayReads, RelayEnds, RelayWrites, RelayFails
  <2>3. \E st \in {"read", "write", "end"}, n \in Nat : Set(z, i, st, n)
    <3>1. CASE RelayReads(z, i)
      <4>1. PICK k \in 1..Len(inq[z]) : Set(z, i, "write", k)
        BY <3>1, RelayReadsIs
      <4>2. k \in Nat
        BY DEF TypeInv, TypeOK
      <4> QED BY <4>1, <4>2
    <3>2. CASE RelayEnds(z, i) \/ RelayWrites(z, i) \/ RelayFails(z, i)
      BY <3>2 DEF RelayEnds, RelayWrites, RelayFails
    <3> QED BY <2>1, <3>1, <3>2
  <2>4. PICK st \in {"read", "write", "end"} :
          /\ chain'[z][i].st = st
          /\ \A j \in Chain : j # i => chain'[z][j] = chain[z][j]
          /\ \A y \in Side, j \in Chain : y # z => chain'[y][j] = chain[y][j]
    BY <2>2, <2>3, SetMoves
  <2>5. \A y \in Side, j \in Chain : chain'[y][j].st = "off" <=> chain[y][j].st = "off"
    BY <2>2, <2>4
  <2>6. chain["client"][1].st # "off"
    BY <2>2, SideIs DEF RunInv, Chain
  <2>7. RunsOk'
    BY <2>2, <2>5, <2>6, SideIs DEF RunsOk, RunInv, Chain, Idle
  <2>8. OpsKept
    <3>1. history'.answers = history.answers
      <4>1. CASE RelayWrites(z, i)
        BY <4>1, RelayWritesIs
      <4>2. CASE RelayReads(z, i) \/ RelayEnds(z, i) \/ RelayFails(z, i)
        BY <4>2 DEF RelayReads, RelayEnds, RelayFails
      <4> QED BY <2>1, <4>1, <4>2
    <3> QED BY <2>2, <3>1 DEF OpsKept
  <2>9. PeersOk'
    <3>1. CASE RelayReads(z, i)
      <4>1. \A x \in Side : x # z => inq'[x] = inq[x]
        BY <3>1, RelayReadsIs
      <4>2. z \notin rst
        BY <3>1 DEF RelayReads, RunInv
      <4> QED BY <2>2, <4>1, <4>2 DEF PeersOk, RunInv
    <3>2. CASE RelayEnds(z, i) \/ RelayWrites(z, i) \/ RelayFails(z, i)
      BY <3>2 DEF RelayEnds, RelayWrites, RelayFails, PeersOk, RunInv
    <3> QED BY <2>1, <3>1, <3>2
  <2> QED BY <2>7, <2>8, <2>9, KeptParts, RunParts2
<1> QED
  BY <1>1, <1>2, <1>3, <1>4, <1>5, <1>6, <1>7, <1>8, <1>9, <1>10 DEF Next, Handler

-----------------------------------------------------------------------------
\* FlowInv is an invariant.

LEMMA SourceIs ==
  ASSUME TypeInv, TypeInv', NEW x \in Side
  PROVE  /\ SentBy(x) \in Nat /\ SentBy(x)' \in Nat
         /\ inq[x] \in Seq(Units) /\ inq'[x] \in Seq(Units)
         /\ Len(inq[x]) \in Nat /\ Len(inq'[x]) \in Nat
         /\ buf[x] \in Seq(Units) /\ buf'[x] \in Seq(Units)
         /\ Len(buf[x]) \in Nat /\ Len(buf'[x]) \in Nat
         /\ \A i \in Chain : chain[x][i] \in RelayType /\ chain'[x][i] \in RelayType
<1>1. /\ sent \in [Side -> Nat] /\ sent' \in [Side -> Nat] /\ pieces \in Nat /\ pieces' \in Nat
      /\ inq \in [Side -> Seq(Units)] /\ inq' \in [Side -> Seq(Units)]
      /\ buf \in [Side -> Seq(Units)] /\ buf' \in [Side -> Seq(Units)]
      /\ chain \in [Side -> [Chain -> RelayType]] /\ chain' \in [Side -> [Chain -> RelayType]]
  <2>1. pieces \in 0..3 /\ pieces' \in 0..3
    BY DEF TypeInv, TypeOK
  <2>2. pieces \in Nat /\ pieces' \in Nat
    BY ONLY <2>1
  <2> QED BY <2>2 DEF TypeInv, TypeOK, RelayType
<1>2. SentBy(x) \in Nat /\ SentBy(x)' \in Nat
  BY <1>1 DEF SentBy
<1> QED BY <1>1, <1>2

LEMMA DeliveredIs ==
  ASSUME TypeInv, TypeInv', NEW y \in Side
  PROVE  /\ Stream(y) \in Seq(Units) /\ Stream(y)' \in Seq(Units)
         /\ DOMAIN Delivered(y) = 1..Len(Stream(y)) /\ DOMAIN Delivered(y)' = 1..Len(Stream(y)')
         /\ \A i \in 1..Len(Stream(y)) : Delivered(y)[i] = Stream(y)[i].n /\ Delivered(y)[i] \in Nat
         /\ \A i \in 1..Len(Stream(y)') : Delivered(y)'[i] = Stream(y)'[i].n /\ Delivered(y)'[i] \in Nat
         /\ Len(Stream(y)) \in Nat /\ Len(Stream(y)') \in Nat
<1>1. /\ got[y] \in Seq(Units) /\ outq[y] \in Seq(Units)
      /\ got'[y] \in Seq(Units) /\ outq'[y] \in Seq(Units)
  BY DEF TypeInv, TypeOK
<1>2. Stream(y) \in Seq(Units) /\ Stream(y)' \in Seq(Units)
  BY <1>1 DEF Stream
<1>3. PICK s \in Seq(Units), t \in Seq(Units) : s = Stream(y) /\ t = Stream(y)'
  BY <1>2
<1>4. DOMAIN s = 1..Len(s) /\ DOMAIN t = 1..Len(t) /\ Len(s) \in Nat /\ Len(t) \in Nat
  BY <1>3
<1>5. (\A i \in 1..Len(s) : s[i].n \in Nat) /\ (\A i \in 1..Len(t) : t[i].n \in Nat)
  <2>1. \A u \in Units : u.n \in Nat
    BY DEF Units
  <2>2. (\A i \in 1..Len(s) : s[i] \in Units) /\ (\A i \in 1..Len(t) : t[i] \in Units)
    BY <1>3
  <2> QED BY <2>1, <2>2
<1>6. /\ Delivered(y) = [i \in DOMAIN s |-> s[i].n]
      /\ Delivered(y)' = [i \in DOMAIN t |-> t[i].n]
  BY <1>3 DEF Delivered
<1> QED BY <1>2, <1>3, <1>4, <1>5, <1>6

\* The count of what was read never falls, and what is left stays in order.
LEMMA SourceStep ==
  ASSUME TypeInv, TypeInv', NEW x \in Side, InqInv(x), Moves(x)
  PROVE  /\ InqInv(x)' /\ Consumed(x) \in Nat /\ Consumed(x)' \in Nat /\ Consumed(x)' >= Consumed(x)
         /\ KeepsSource(x) \/ Sends(x) => Consumed(x)' = Consumed(x)
         /\ \A k \in Nat : Takes(x, k) => Consumed(x)' = Consumed(x) + k
<1>0. /\ SentBy(x) \in Nat /\ SentBy(x)' \in Nat
      /\ inq[x] \in Seq(Units) /\ inq'[x] \in Seq(Units)
      /\ Len(inq[x]) \in Nat /\ Len(inq'[x]) \in Nat
  BY SourceIs
<1>c. Consumed(x) = SentBy(x) - Len(inq[x]) /\ Consumed(x)' = SentBy(x)' - Len(inq'[x])
      /\ Consumed(x) \in Nat
  BY DEF Consumed, InqInv
<1>1. ASSUME KeepsSource(x)
      PROVE  InqInv(x)' /\ Consumed(x)' = Consumed(x)
  <2>1. Consumed(x)' = Consumed(x)
    BY <1>1, <1>c DEF KeepsSource
  <2> QED BY <1>1, <2>1 DEF KeepsSource, InqInv
<1>2. ASSUME Sends(x)
      PROVE  InqInv(x)' /\ Consumed(x)' = Consumed(x)
  <2>1. Len(inq'[x]) = Len(inq[x]) + 1 /\ inq'[x][Len(inq[x]) + 1] = Unit(SentBy(x) + 1)
        /\ \A i \in 1..Len(inq[x]) : inq'[x][i] = inq[x][i]
    <3>1. PICK u \in Units, s \in Seq(Units) : u = Unit(SentBy(x) + 1) /\ s = inq[x]
      BY <1>0, UnitIs
    <3>2. inq'[x] = Append(s, u)
      BY <1>2, <3>1 DEF Sends
    <3>3. Len(Append(s, u)) = Len(s) + 1 /\ Append(s, u)[Len(s) + 1] = u
          /\ \A i \in 1..Len(s) : Append(s, u)[i] = s[i]
      BY AppendIs
    <3> QED BY <3>1, <3>2, <3>3
  <2>2. Consumed(x)' = Consumed(x) /\ Consumed(x) + (Len(inq[x]) + 1) = SentBy(x) + 1
    BY <1>0, <1>c, <1>2, <2>1 DEF Sends
  <2>3. ASSUME NEW i \in 1..Len(inq'[x]) PROVE inq'[x][i] = Unit(Consumed(x)' + i)
    <3>1. CASE i = Len(inq[x]) + 1
      BY <2>1, <2>2, <3>1
    <3>2. CASE i \in 1..Len(inq[x])
      BY <2>1, <2>2, <3>2 DEF InqInv
    <3>3. i = Len(inq[x]) + 1 \/ i \in 1..Len(inq[x])
      BY <1>0, <2>1
    <3> QED BY <3>1, <3>2, <3>3
  <2> QED BY <1>c, <2>2, <2>3 DEF InqInv
<1>3. ASSUME Loses(x)
      PROVE  InqInv(x)' /\ Consumed(x)' >= Consumed(x) /\ Consumed(x)' \in Nat
  <2>1. Len(inq'[x]) = 0 /\ SentBy(x)' = SentBy(x)
    BY <1>3 DEF Loses
  <2>2. Consumed(x)' = SentBy(x)
    BY <1>0, <1>c, <2>1
  <2>3. Consumed(x)' >= Consumed(x)
    BY <1>0, <1>c, <2>2
  <2> QED BY <1>0, <2>1, <2>2, <2>3 DEF InqInv
<1>4. ASSUME NEW k \in Nat, Takes(x, k)
      PROVE  InqInv(x)' /\ Consumed(x)' = Consumed(x) + k
  <2>1. /\ Len(inq'[x]) = Len(inq[x]) - k /\ k \in 1..Len(inq[x]) /\ SentBy(x)' = SentBy(x)
        /\ \A j \in 1..Len(inq'[x]) : inq'[x][j] = inq[x][k + j]
    BY <1>4 DEF Takes
  <2>2. Consumed(x)' = Consumed(x) + k
    BY <1>0, <1>c, <2>1
  <2>3. ASSUME NEW i \in 1..Len(inq'[x]) PROVE inq'[x][i] = Unit(Consumed(x)' + i)
    <3>1. k + i \in 1..Len(inq[x]) /\ Consumed(x) + (k + i) = Consumed(x)' + i
      BY <1>0, <1>c, <2>1, <2>2
    <3> QED BY <2>1, <3>1 DEF InqInv
  <2>4. Consumed(x)' \in Nat
    BY <1>c, <2>2
  <2> QED BY <2>2, <2>3, <2>4 DEF InqInv
<1>5. \/ KeepsSource(x) \/ Sends(x) \/ Loses(x) \/ \E k \in Nat : Takes(x, k)
  <2>1. CASE Asks(x) \/ \E i \in Chain : Fills(x, i)
    <3>1. PICK k \in 1..Len(inq[x]) : Takes(x, k)
      BY <2>1 DEF Asks, Fills
    <3> QED BY <1>0, <3>1
  <2>2. CASE ~(Asks(x) \/ \E i \in Chain : Fills(x, i))
    BY <2>2 DEF Moves, Still, Speaks, Starts, Closes, Drains, Rests
  <2> QED BY <2>1, <2>2
<1>6. Consumed(x)' >= Consumed(x) /\ Consumed(x)' \in Nat /\ InqInv(x)'
  <2>1. CASE KeepsSource(x) \/ Sends(x)
    BY <1>1, <1>2, <1>c, <2>1
  <2>2. CASE Loses(x)
    BY <1>3, <2>2
  <2>3. ASSUME NEW k \in Nat, Takes(x, k)
        PROVE  Consumed(x)' >= Consumed(x) /\ Consumed(x)' \in Nat /\ InqInv(x)'
    <3>1. Consumed(x)' = Consumed(x) + k /\ InqInv(x)'
      BY <1>4, <2>3
    <3> QED BY <1>c, <3>1
  <2> QED BY <1>5, <2>1, <2>2, <2>3
<1> QED BY <1>1, <1>2, <1>4, <1>6, <1>c

\* What was read before m units were is still data that was read.
LEMMA IsDataLater ==
  ASSUME NEW u, NEW m \in Nat, NEW n \in Nat, m <= n, IsData(u, m)
  PROVE  IsData(u, n)
BY DEF IsData

LEMMA UnitsStep ==
  ASSUME TypeInv, TypeInv', NEW x \in Side, InqInv(x), UnitsInv(x), Moves(x)
  PROVE  UnitsInv(x)'
<1> DEFINE c == Consumed(x)
           d == Consumed(x)'
<1>1. c \in Nat /\ d \in Nat /\ c <= d
  BY SourceStep
<1>2. /\ Stream(Other[x]) \in Seq(Units) /\ Stream(Other[x])' \in Seq(Units)
      /\ Len(Stream(Other[x])) \in Nat /\ Len(Stream(Other[x])') \in Nat
      /\ Len(buf[x]) \in Nat /\ Len(buf'[x]) \in Nat /\ Len(inq[x]) \in Nat
  BY SideIs, SourceIs, DeliveredIs
<1>3. \A i \in 1..Len(buf'[x]) : IsData(buf'[x][i], d)
  <2>1. CASE buf'[x] = buf[x]
    BY <1>1, <2>1, IsDataLater DEF UnitsInv
  <2>2. ASSUME NEW i \in Chain, Fills(x, i) PROVE \A j \in 1..Len(buf'[x]) : IsData(buf'[x][j], d)
    <3>1. PICK k \in 1..Len(inq[x]) :
            /\ Takes(x, k)
            /\ \A j \in 1..k : buf'[x][j] = inq[x][j]
            /\ \A j \in 1..Len(buf'[x]) : j > k => j \in 1..Len(buf[x]) /\ buf'[x][j] = buf[x][j]
      BY <2>2 DEF Fills
    <3>2. d = c + k /\ k \in Nat
      BY <1>2, <3>1, SourceStep
    <3>3. ASSUME NEW j \in 1..Len(buf'[x]) PROVE IsData(buf'[x][j], d)
      <4>1. CASE j > k
        <5>1. j \in 1..Len(buf[x]) /\ buf'[x][j] = buf[x][j]
          BY <3>1, <4>1
        <5> QED BY <1>1, <5>1, IsDataLater DEF UnitsInv
      <4>2. CASE j <= k
        <5>1. j \in 1..k /\ j \in 1..Len(inq[x])
          BY <1>2, <3>1, <3>2, <4>2
        <5>2. buf'[x][j] = Unit(c + j)
          BY <3>1, <5>1 DEF InqInv
        <5>3. c + j \in 1..d
          BY <1>1, <3>2, <5>1
        <5> QED BY <5>2, <5>3 DEF Unit, IsData
      <4> QED BY <1>2, <3>2, <4>1, <4>2
    <3> QED BY <3>3
  <2>3. buf'[x] = buf[x] \/ \E i \in Chain : Fills(x, i)
    BY DEF Moves, Still, Sends, Loses, Asks, Speaks, Starts, Closes, Drains, Rests, KeepsRelay
  <2> QED BY <2>1, <2>2, <2>3
<1> DEFINE s == Stream(Other[x])
           t == Stream(Other[x])'
<1>s. \A i \in 1..Len(s) : IsReply(s[i]) \/ IsData(s[i], d)
  BY <1>1, IsDataLater DEF UnitsInv
<1>4. \A i \in 1..Len(t) : IsReply(t[i]) \/ IsData(t[i], d)
  <2>1. CASE t = s
    BY <1>s, <2>1
  <2>2. CASE Told(x)
    <3>1. CASE \E u \in Units : IsReply(u) /\ t = Append(s, u)
      <4>1. PICK u \in Units : IsReply(u) /\ t = Append(s, u)
        BY <3>1
      <4> HIDE DEF s, t, d
      <4>2. s \in Seq(Units)
        BY <1>2 DEF s
      <4>3. \A i \in 1..Len(t) : (i \in 1..Len(s) /\ t[i] = s[i]) \/ t[i] = u
        BY <4>1, <4>2
      <4> QED BY <1>s, <4>1, <4>3
    <3> QED BY <2>1, <2>2, <3>1 DEF Told
  <2>3. CASE Closes(x)
    <3>1. Len(t) <= Len(s) /\ \A j \in 1..Len(t) : t[j] = s[j]
      BY <2>3 DEF Closes
    <3>2. \A j \in 1..Len(t) : j \in 1..Len(s)
      BY <1>2, <3>1
    <3> QED BY <1>s, <3>1, <3>2
  <2>4. ASSUME NEW i \in Chain, Drains(x, i)
        PROVE  \A j \in 1..Len(t) : IsReply(t[j]) \/ IsData(t[j], d)
    <3>1. PICK k \in 1..chain[x][i].len :
            /\ k <= Len(buf[x]) /\ Len(t) = Len(s) + k
            /\ \A j \in 1..Len(s) : t[j] = s[j]
            /\ \A j \in 1..k : t[Len(s) + j] = buf[x][j]
      BY <2>4 DEF Drains
    <3>2. k \in Nat
      <4>1. chain[x][i].len \in Nat
        BY SourceIs DEF RelayType
      <4> QED BY <4>1
    <3>3. ASSUME NEW j \in 1..Len(t) PROVE IsReply(t[j]) \/ IsData(t[j], d)
      <4>1. CASE j \in 1..Len(s)
        BY <1>s, <3>1, <4>1
      <4>2. CASE j > Len(s)
        <5> HIDE DEF s, t, c, d
        <5>0. Len(s) \in Nat /\ Len(t) \in Nat
          BY <1>2 DEF s, t
        <5>1. j - Len(s) \in 1..k /\ j = Len(s) + (j - Len(s)) /\ j - Len(s) \in 1..Len(buf[x])
          BY <1>2, <3>1, <3>2, <4>2, <5>0
        <5>2. t[j] = buf[x][j - Len(s)]
          BY <3>1, <5>1
        <5>3. IsData(buf[x][j - Len(s)], c)
          BY <5>1 DEF UnitsInv, c
        <5>4. IsData(buf[x][j - Len(s)], d)
          BY <1>1, <5>3, IsDataLater
        <5> QED BY <5>2, <5>4
      <4>3. j \in 1..Len(s) \/ j > Len(s)
        BY <1>2
      <4> QED BY <4>1, <4>2, <4>3
    <3> QED BY <3>3
  <2>5. t = s \/ Told(x) \/ Closes(x) \/ \E i \in Chain : Drains(x, i)
    BY DEF Moves, Still, Sends, Loses, Asks, Fills, Takes, Rests, Speaks, Starts, KeepsSink
  <2> QED BY <2>1, <2>2, <2>3, <2>4, <2>5
<1> QED BY <1>3, <1>4 DEF UnitsInv

\* Numbers: d is a function on 1..p.
Numbers(d, p) == DOMAIN d = 1..p /\ \A i \in 1..p : d[i] \in Nat

\* A reply changes none of it.
LEMMA ReplyBehind ==
  ASSUME NEW d, NEW e, NEW p \in Nat, Numbers(d, p), Numbers(e, p + 1),
         \A i \in 1..p : e[i] = d[i], e[p + 1] = 0
  PROVE  /\ \A f \in Nat : f > 0 /\ Below(d, f) => Below(e, f)
         /\ Rising(d) => Rising(e)
         /\ Gapless(d) => Gapless(e)
         /\ Begun(e) => Begun(d)
         /\ \A n : Has(d, n) => Has(e, n)
<1>1. /\ DOMAIN d = 1..p /\ DOMAIN e = 1..(p + 1)
      /\ \A i \in DOMAIN e : e[i] # 0 => i \in DOMAIN d /\ e[i] = d[i]
      /\ \A i \in DOMAIN d : i \in DOMAIN e /\ e[i] = d[i]
      /\ \A i \in DOMAIN e : i \in DOMAIN d \/ e[i] = 0
  BY DEF Numbers
<1>2. \A f \in Nat : f > 0 /\ Below(d, f) => Below(e, f)
  BY <1>1 DEF Below
<1>3. Rising(d) => Rising(e)
  BY <1>1 DEF Rising, Pairs
<1>4. ASSUME Gapless(d), NEW i \in DOMAIN e, NEW j \in DOMAIN e, Pairs(e, i, j)
      PROVE  \E k \in 1..(j - 1) : e[k] = e[j] - 1
  <2>1. i \in DOMAIN d /\ j \in DOMAIN d /\ Pairs(d, i, j) /\ e[j] = d[j]
    BY <1>1, <1>4 DEF Pairs
  <2>2. PICK k \in 1..(j - 1) : d[k] = d[j] - 1
    BY <1>4, <2>1 DEF Gapless
  <2>3. k \in DOMAIN d
    BY <1>1, <2>1
  <2> QED BY <1>1, <2>1, <2>2, <2>3
<1>5. Gapless(d) => Gapless(e)
  BY <1>4 DEF Gapless
<1>6. Begun(e) => Begun(d)
  BY <1>1 DEF Begun
<1>7. \A n : Has(d, n) => Has(e, n)
  BY <1>1 DEF Has
<1> QED BY <1>2, <1>3, <1>5, <1>6, <1>7

\* Nor does the loss of the end, but for what is there.
LEMMA EndLost ==
  ASSUME NEW d, NEW e, NEW p \in Nat, NEW q \in Nat, Numbers(d, p), Numbers(e, q), q <= p,
         \A i \in 1..q : e[i] = d[i]
  PROVE  /\ \A f \in Nat : Below(d, f) => Below(e, f)
         /\ Rising(d) => Rising(e)
         /\ Gapless(d) => Gapless(e)
         /\ Begun(e) => Begun(d)
<1>1. /\ DOMAIN d = 1..p /\ DOMAIN e = 1..q
      /\ \A i \in DOMAIN e : i \in DOMAIN d /\ e[i] = d[i]
  BY DEF Numbers
<1>2. \A f \in Nat : Below(d, f) => Below(e, f)
  BY <1>1 DEF Below
<1>3. Rising(d) => Rising(e)
  BY <1>1 DEF Rising, Pairs
<1>4. ASSUME Gapless(d), NEW i \in DOMAIN e, NEW j \in DOMAIN e, Pairs(e, i, j)
      PROVE  \E k \in 1..(j - 1) : e[k] = e[j] - 1
  <2>1. i \in DOMAIN d /\ j \in DOMAIN d /\ Pairs(d, i, j) /\ e[j] = d[j]
    BY <1>1, <1>4 DEF Pairs
  <2>2. PICK k \in 1..(j - 1) : d[k] = d[j] - 1
    BY <1>4, <2>1 DEF Gapless
  <2>3. k \in DOMAIN e
    BY <1>1, <2>1
  <2> QED BY <1>1, <2>1, <2>2, <2>3
<1>5. Gapless(d) => Gapless(e)
  BY <1>4 DEF Gapless
<1>6. Begun(e) => Begun(d)
  BY <1>1 DEF Begun
<1> QED BY <1>2, <1>3, <1>5, <1>6

\* Units that come next go behind.
LEMMA ChunkBehind ==
  ASSUME NEW d, NEW e, NEW p \in Nat, NEW k \in Nat, NEW b \in Nat, k > 0, b > 0,
         Numbers(d, p), Numbers(e, p + k), \A i \in 1..p : e[i] = d[i],
         \A j \in 1..k : e[p + j] = b + j - 1,
         Below(d, b), Rising(d)
  PROVE  /\ Below(e, b + k) /\ Rising(e) /\ Has(e, b + k - 1)
         /\ (Gapless(d) /\ (Begun(d) => Has(d, b - 1))) => Gapless(e)
<1>1. /\ DOMAIN d = 1..p /\ DOMAIN e = 1..(p + k)
      /\ \A i \in 1..p : i \in DOMAIN d /\ i \in DOMAIN e /\ e[i] = d[i] /\ d[i] < b /\ d[i] \in Nat
  BY DEF Numbers, Below
<1>2. ASSUME NEW i \in 1..(p + k), i > p PROVE e[i] = b + (i - p) - 1
  <2>1. i - p \in 1..k /\ i = p + (i - p)
    BY <1>2
  <2> QED BY <2>1
<1>3. Below(e, b + k)
  <2>1. ASSUME NEW i \in 1..(p + k) PROVE e[i] < b + k
    <3>1. CASE i <= p
      BY <1>1, <3>1
    <3>2. CASE i > p
      BY <1>2, <3>2
    <3> QED BY <3>1, <3>2
  <2> QED BY <1>1, <2>1 DEF Below
<1>4. Rising(e)
  <2>1. ASSUME NEW i \in 1..(p + k), NEW j \in 1..(p + k), Pairs(e, i, j) PROVE e[i] < e[j]
    <3>1. CASE j <= p
      <4>1. i \in DOMAIN d /\ j \in DOMAIN d /\ e[i] = d[i] /\ e[j] = d[j]
        BY <1>1, <2>1, <3>1 DEF Pairs
      <4> QED BY <2>1, <4>1 DEF Rising, Pairs
    <3>2. CASE j > p /\ i <= p
      <4>1. e[i] < b /\ e[i] \in Nat /\ e[j] = b + (j - p) - 1
        BY <1>1, <1>2, <3>2
      <4> QED BY <3>2, <4>1
    <3>3. CASE i > p
      <4>1. e[i] = b + (i - p) - 1 /\ e[j] = b + (j - p) - 1 /\ i < j
        BY <1>2, <2>1, <3>3 DEF Pairs
      <4> QED BY <4>1
    <3> QED BY <3>1, <3>2, <3>3
  <2> QED BY <1>1, <2>1 DEF Rising
<1>5. Has(e, b + k - 1)
  <2>1. p + k \in DOMAIN e /\ e[p + k] = b + k - 1
    BY <1>1
  <2> QED BY <2>1 DEF Has
<1>6. ASSUME Gapless(d), Begun(d) => Has(d, b - 1),
             NEW i \in 1..(p + k), NEW j \in 1..(p + k), Pairs(e, i, j)
      PROVE  \E m \in 1..(j - 1) : e[m] = e[j] - 1
  <2>1. CASE j <= p
    <3>1. i \in DOMAIN d /\ j \in DOMAIN d /\ e[i] = d[i] /\ e[j] = d[j]
      BY <1>1, <1>6, <2>1 DEF Pairs
    <3>2. PICK m \in 1..(j - 1) : d[m] = d[j] - 1
      BY <1>6, <3>1 DEF Gapless, Pairs
    <3>3. m \in 1..p
      BY <2>1
    <3> QED BY <1>1, <3>1, <3>2, <3>3
  <2>2. CASE j = p + 1
    <3>1. i \in DOMAIN d /\ d[i] # 0 /\ e[j] = b
      BY <1>1, <1>2, <1>6, <2>2 DEF Pairs
    <3>2. PICK m \in DOMAIN d : d[m] = b - 1
      BY <1>6, <3>1 DEF Begun, Has
    <3>3. m \in 1..(j - 1) /\ e[m] = e[j] - 1
      BY <1>1, <2>2, <3>1, <3>2
    <3> QED BY <3>3
  <2>3. CASE j > p + 1
    <3>1. j - 1 \in 1..(p + k) /\ j - 1 > p
      BY <2>3
    <3>2. e[j - 1] = b + ((j - 1) - p) - 1 /\ e[j] = b + (j - p) - 1
      BY <1>2, <2>3, <3>1
    <3>3. j - 1 \in 1..(j - 1) /\ e[j - 1] = e[j] - 1
      BY <2>3, <3>2
    <3> QED BY <3>3
  <2> QED BY <2>1, <2>2, <2>3
<1>7. (Gapless(d) /\ (Begun(d) => Has(d, b - 1))) => Gapless(e)
  BY <1>1, <1>6 DEF Gapless
<1> QED BY <1>3, <1>4, <1>5, <1>7

\* What the other side is told, or does not get, while the relay goes on or stops.
LEMMA FlowsKept ==
  ASSUME NEW x \in Side, NEW d, NEW e, NEW p \in Nat, NEW q \in Nat, Numbers(d, p), Numbers(e, q),
         Flows(x, d),
         Following(x) \in Nat, Following(x)' \in Nat, 0 < Following(x), Following(x) <= Following(x)',
         x \in history.torn => x \in history'.torn,
         chain'[x][1].st = "off" => chain[x][1].st = "off",
         Live(x)' /\ Begun(d) => Live(x) /\ Following(x)' = Following(x),
         \/ q = p /\ \A i \in 1..p : e[i] = d[i]
         \/ q = p + 1 /\ (\A i \in 1..p : e[i] = d[i]) /\ e[p + 1] = 0
         \/ ~Live(x)' /\ q <= p /\ \A i \in 1..q : e[i] = d[i]
  PROVE  Flows(x, e)'
<1>1. /\ Below(d, Following(x)) => Below(e, Following(x))
      /\ Rising(d) => Rising(e)
      /\ Gapless(d) => Gapless(e)
      /\ Begun(e) => Begun(d)
      /\ Live(x)' => \A n : Has(d, n) => Has(e, n)
  <2>1. CASE q = p /\ \A i \in 1..p : e[i] = d[i]
    <3>1. DOMAIN d = 1..p /\ DOMAIN e = 1..p /\ \A i \in 1..p : e[i] = d[i]
      BY <2>1 DEF Numbers
    <3>2. \A n : Has(d, n) => Has(e, n)
      BY <3>1 DEF Has
    <3>3. Below(d, Following(x)) => Below(e, Following(x))
      BY <3>1 DEF Below
    <3>4. q <= p /\ \A i \in 1..q : e[i] = d[i]
      BY <2>1
    <3> QED BY <3>2, <3>3, <3>4, EndLost
  <2>2. CASE q = p + 1 /\ (\A i \in 1..p : e[i] = d[i]) /\ e[p + 1] = 0
    <3>1. Numbers(e, p + 1)
      BY <2>2
    <3> QED BY <2>2, <3>1, ReplyBehind
  <2>3. CASE ~Live(x)' /\ q <= p /\ \A i \in 1..q : e[i] = d[i]
    BY <2>3, EndLost
  <2> QED BY <2>1, <2>2, <2>3
<1>2. Below(e, Following(x)) => Below(e, Following(x)')
  <2>1. ASSUME NEW f \in Nat, NEW g \in Nat, f <= g, Below(e, f) PROVE Below(e, g)
    BY <2>1 DEF Below, Numbers
  <2> QED BY <2>1
<1>3. Below(e, Following(x)') /\ Rising(e)
  BY <1>1, <1>2 DEF Flows
<1>4. x \notin history'.torn => Gapless(e)
  BY <1>1 DEF Flows
<1>5. (x \notin history'.torn /\ Live(x)' /\ Begun(e)) => Has(e, Following(x)' - 1)
  <2> SUFFICES ASSUME x \notin history'.torn, Live(x)', Begun(e) PROVE Has(e, Following(x)' - 1)
    OBVIOUS
  <2>1. Live(x) /\ Following(x)' = Following(x) /\ x \notin history.torn /\ Begun(d)
    BY <1>1
  <2>2. Has(d, Following(x) - 1)
    BY <2>1 DEF Flows
  <2> QED BY <1>1, <2>1, <2>2
<1>6. chain'[x][1].st = "off" => ~Begun(e)
  BY <1>1 DEF Flows
<1> QED BY <1>3, <1>4, <1>5, <1>6 DEF Flows

LEMMA FollowingIs ==
  ASSUME TypeInv, TypeInv', NEW x \in Side,
         InqInv(x), InqInv(x)', UnitsInv(x), UnitsInv(x)'
  PROVE  /\ Following(x) \in Nat /\ 0 < Following(x) /\ Following(x) <= Consumed(x) + 1
         /\ Following(x)' \in Nat /\ 0 < Following(x)' /\ Following(x)' <= Consumed(x)' + 1
         /\ Writes(x) => chain[x][1].len \in 1..Len(buf[x])
         /\ \A j \in 1..Len(buf[x]) : buf[x][j].n \in 1..Consumed(x)
         /\ Consumed(x) \in Nat /\ Consumed(x)' \in Nat
<1>1. Consumed(x) \in Nat /\ Consumed(x)' \in Nat
  BY DEF InqInv
<1>2. /\ \A j \in 1..Len(buf[x]) : buf[x][j].n \in 1..Consumed(x)
      /\ \A j \in 1..Len(buf'[x]) : buf'[x][j].n \in 1..Consumed(x)'
  BY DEF UnitsInv, IsData
<1>3. /\ Writes(x) => chain[x][1].len \in 1..Len(buf[x])
      /\ Writes(x)' => chain'[x][1].len \in 1..Len(buf'[x])
  BY DEF TypeInv, FilledInv, Writes, Chain
<1>4. Len(buf[x]) \in Nat /\ Len(buf'[x]) \in Nat
  BY SourceIs
<1>5. Following(x) \in 1..(Consumed(x) + 1)
  <2>1. CASE Writes(x)
    <3>1. 1 \in 1..Len(buf[x])
      BY <1>3, <1>4, <2>1
    <3> QED BY <1>1, <1>2, <2>1, <3>1 DEF Following
  <2>2. CASE ~Writes(x)
    BY <1>1, <2>2 DEF Following
  <2> QED BY <2>1, <2>2
<1>6. Following(x)' \in 1..(Consumed(x)' + 1)
  <2>1. CASE Writes(x)'
    <3>1. 1 \in 1..Len(buf'[x])
      BY <1>3, <1>4, <2>1
    <3> QED BY <1>1, <1>2, <2>1, <3>1 DEF Following
  <2>2. CASE ~Writes(x)'
    BY <1>1, <2>2 DEF Following
  <2> QED BY <2>1, <2>2
<1> QED BY <1>1, <1>2, <1>3, <1>5, <1>6

LEMMA StreamStep ==
  ASSUME TypeInv, TypeInv', RunInv, NEW x \in Side, InqInv(x), UnitsInv(x),
         ~Doubled => StreamInv(x), Moves(x), ~Doubled'
  PROVE  StreamInv(x)' /\ (x \notin history.torn => Gapless(Delivered(Other[x])'))
<1>1. ~Doubled /\ \A i \in Chain : Fills(x, i) \/ Drains(x, i) \/ Rests(x, i) => i = 1
  <2>1. ASSUME NEW i \in Chain, Fills(x, i) \/ Drains(x, i) \/ Rests(x, i), i = 2 PROVE Doubled
    <3>1. chain[x][2].st # "off"
      BY <2>1 DEF Fills, Drains, Rests
    <3> QED BY <3>1, SideIs DEF RunInv, Doubled, Chain
  <2>2. ASSUME NEW i \in Chain, Fills(x, i) \/ Drains(x, i) \/ Rests(x, i) PROVE Doubled' <=> Doubled
    BY <2>2 DEF Fills, Drains, Rests
  <2>3. Doubled' <=> Doubled
    BY <2>2 DEF Moves, Still, Sends, Loses, Asks, Speaks, Starts, Closes, KeepsRelay
  <2> QED BY <2>1, <2>3 DEF Chain
<1>2. ChunkInv(x) /\ Flows(x, Delivered(Other[x]))
  BY <1>1 DEF StreamInv
<1>3. InqInv(x)' /\ UnitsInv(x)' /\ Consumed(x)' >= Consumed(x)
      /\ (KeepsSource(x) \/ Sends(x) => Consumed(x)' = Consumed(x))
      /\ \A k \in Nat : Takes(x, k) => Consumed(x)' = Consumed(x) + k
  BY SourceStep, UnitsStep
<1>4. /\ Following(x) \in Nat /\ 0 < Following(x) /\ Following(x) <= Consumed(x) + 1
      /\ Following(x)' \in Nat /\ 0 < Following(x)' /\ Following(x)' <= Consumed(x)' + 1
      /\ Writes(x) => chain[x][1].len \in 1..Len(buf[x])
      /\ \A j \in 1..Len(buf[x]) : buf[x][j].n \in 1..Consumed(x)
      /\ Consumed(x) \in Nat /\ Consumed(x)' \in Nat
  BY <1>3, FollowingIs
<1>5. PICK d, e, p, q :
        /\ p \in Nat /\ q \in Nat
        /\ d = Delivered(Other[x]) /\ e = Delivered(Other[x])'
        /\ p = Len(Stream(Other[x])) /\ q = Len(Stream(Other[x])')
        /\ Numbers(d, p) /\ Numbers(e, q)
        /\ \A i \in 1..p : d[i] = Stream(Other[x])[i].n
        /\ \A i \in 1..q : e[i] = Stream(Other[x])'[i].n
  <2>1. Other[x] \in Side
    BY SideIs
  <2>2. /\ Numbers(Delivered(Other[x]), Len(Stream(Other[x])))
        /\ Numbers(Delivered(Other[x])', Len(Stream(Other[x])'))
        /\ Len(Stream(Other[x])) \in Nat /\ Len(Stream(Other[x])') \in Nat
        /\ \A i \in 1..Len(Stream(Other[x])) : Delivered(Other[x])[i] = Stream(Other[x])[i].n
        /\ \A i \in 1..Len(Stream(Other[x])') : Delivered(Other[x])'[i] = Stream(Other[x])'[i].n
    BY <2>1, DeliveredIs DEF Numbers
  <2> QED BY <2>2, Zenon
<1>n. p \in Nat /\ q \in Nat
  BY <1>5
<1>6. Flows(x, d)
  BY <1>2, <1>5
<1>7. ASSUME ChunkInv(x)', Flows(x, e)', KeepsTorn(x) \/ (x \notin history.torn => Gapless(e))
      PROVE  StreamInv(x)' /\ (x \notin history.torn => Gapless(Delivered(Other[x])'))
  BY <1>5, <1>7 DEF StreamInv, Flows, KeepsTorn
\* What may be on its way after the step, when no chunk is written.
<1>8. /\ Stream(Other[x])' = Stream(Other[x]) => q = p /\ \A i \in 1..p : e[i] = d[i]
      /\ Told(x) => \/ q = p /\ \A i \in 1..p : e[i] = d[i]
                    \/ q = p + 1 /\ (\A i \in 1..p : e[i] = d[i]) /\ e[p + 1] = 0
      /\ Closes(x) => q <= p /\ \A i \in 1..q : e[i] = d[i]
  <2>1. Stream(Other[x])' = Stream(Other[x]) => q = p /\ \A i \in 1..p : e[i] = d[i]
    BY <1>5
  <2>2. ASSUME NEW u \in Units, IsReply(u), Stream(Other[x])' = Append(Stream(Other[x]), u)
        PROVE  q = p + 1 /\ (\A i \in 1..p : e[i] = d[i]) /\ e[p + 1] = 0
    <3>1. PICK s \in Seq(Units) : s = Stream(Other[x])
      BY SideIs, DeliveredIs
    <3>2. Len(Append(s, u)) = Len(s) + 1 /\ Append(s, u)[Len(s) + 1] = u
          /\ \A i \in 1..Len(s) : Append(s, u)[i] = s[i]
      BY AppendIs
    <3>3. PICK t : t = Stream(Other[x])' /\ t = Append(s, u)
      BY <2>2, <3>1
    <3>4. q = Len(t) /\ p = Len(s) /\ (\A i \in 1..p : d[i] = s[i].n) /\ \A i \in 1..q : e[i] = t[i].n
      BY <1>5, <3>1, <3>3
    <3>5. q = p + 1 /\ t[p + 1] = u /\ \A i \in 1..p : t[i] = s[i]
      BY <3>2, <3>3, <3>4
    <3>6. p + 1 \in 1..q /\ \A i \in 1..p : i \in 1..q
      BY <1>n, <3>5
    <3> QED BY <2>2, <3>4, <3>5, <3>6 DEF IsReply
  <2>3. Closes(x) => q <= p /\ \A i \in 1..q : e[i] = d[i]
    <3>1. SUFFICES ASSUME Closes(x) PROVE q <= p /\ \A i \in 1..q : e[i] = d[i]
      OBVIOUS
    <3>2. q <= p /\ \A i \in 1..q : Stream(Other[x])'[i] = Stream(Other[x])[i] /\ i \in 1..p
      BY <1>5, <3>1 DEF Closes
    <3> QED BY <1>5, <3>2
  <2> QED BY <2>1, <2>2, <2>3 DEF Told
<1>9. ASSUME Following(x) <= Following(x)', x \in history.torn => x \in history'.torn,
             chain'[x][1].st = "off" => chain[x][1].st = "off",
             Live(x)' /\ Begun(d) => Live(x) /\ Following(x)' = Following(x),
             \/ q = p /\ \A i \in 1..p : e[i] = d[i]
             \/ q = p + 1 /\ (\A i \in 1..p : e[i] = d[i]) /\ e[p + 1] = 0
             \/ ~Live(x)' /\ q <= p /\ \A i \in 1..q : e[i] = d[i]
      PROVE  Flows(x, e)'
  <2>1. p \in Nat /\ q \in Nat /\ Numbers(d, p) /\ Numbers(e, q)
    BY <1>5
  <2>2. Following(x) \in Nat /\ Following(x)' \in Nat /\ 0 < Following(x)
    BY <1>4
  <2> QED BY ONLY <2>1, <2>2, <1>6, <1>9, x \in Side, FlowsKept
<1>10. CASE Still(x) \/ Sends(x) \/ Speaks(x)
  <2>1. /\ KeepsRelay(x) /\ KeepsTorn(x) /\ Consumed(x)' = Consumed(x) /\ (x \in rst' <=> x \in rst)
        /\ KeepsGone(x) /\ (Stream(Other[x])' = Stream(Other[x]) \/ Told(x))
    BY <1>3, <1>10 DEF Still, Sends, Speaks, KeepsSource, KeepsSink
  <2>2. chain'[x][1] = chain[x][1] /\ buf'[x] = buf[x]
    BY <2>1 DEF KeepsRelay, Chain
  <2>3. (Writes(x)' <=> Writes(x)) /\ Following(x)' = Following(x) /\ (Live(x)' <=> Live(x))
    BY <2>1, <2>2 DEF Writes, Following, Live, KeepsGone
  <2>4. ChunkInv(x)'
    BY <1>2, <2>1, <2>2, <2>3 DEF ChunkInv
  <2>5. Flows(x, e)'
    BY <1>4, <1>8, <1>9, <2>1, <2>2, <2>3 DEF KeepsTorn
  <2> QED BY <1>7, <2>1, <2>4, <2>5
<1>11. CASE Loses(x) \/ Closes(x)
  <2>1. /\ KeepsRelay(x) /\ KeepsTorn(x)
        /\ \/ Loses(x) /\ x \in rst' /\ KeepsGone(x) /\ Stream(Other[x])' = Stream(Other[x])
           \/ Closes(x) /\ KeepsSource(x) /\ Other[x] \in gone'
    BY <1>11 DEF Loses, Closes, KeepsSink
  <2>2. chain'[x][1] = chain[x][1] /\ buf'[x] = buf[x] /\ (Writes(x)' <=> Writes(x))
    BY <2>1 DEF KeepsRelay, Chain, Writes
  <2>3. Following(x) <= Following(x)' /\ (Writes(x) => Following(x)' = Following(x))
    <3>1. CASE Writes(x)
      <4>1. Following(x)' = Following(x)
        BY <2>2, <3>1 DEF Following
      <4> QED BY <1>4, <4>1
    <3>2. CASE ~Writes(x)
      <4>1. Following(x)' = Consumed(x)' + 1 /\ Following(x) = Consumed(x) + 1
        BY <2>2, <3>2 DEF Following
      <4> QED BY <1>3, <1>4, <3>2, <4>1
    <3> QED BY <3>1, <3>2
  <2>4. Live(x)' => Live(x) /\ Writes(x)
    BY <2>1, <2>2 DEF Live, KeepsGone
  <2>5. ChunkInv(x)'
    <3>1. x \notin rst' => x \notin rst /\ Consumed(x)' = Consumed(x)
      BY <1>3, <2>1 DEF KeepsSource
    <3> QED BY <1>2, <2>2, <3>1 DEF ChunkInv
  <2>6. Flows(x, e)'
    <3>1. ~Live(x)' \/ Stream(Other[x])' = Stream(Other[x])
      BY <2>1 DEF Live
    <3>2. \/ q = p /\ \A i \in 1..p : e[i] = d[i]
          \/ ~Live(x)' /\ q <= p /\ \A i \in 1..q : e[i] = d[i]
      BY <1>8, <2>1, <3>1
    <3> QED BY <1>4, <1>9, <2>1, <2>2, <2>3, <2>4, <3>2 DEF KeepsTorn
  <2> QED BY <1>7, <2>1, <2>5, <2>6
<1>12. CASE Asks(x)
  <2>1. /\ chain[x][1].st = "off" /\ KeepsRelay(x) /\ KeepsTorn(x)
        /\ Stream(Other[x])' = Stream(Other[x])
    BY <1>12 DEF Asks, Takes, KeepsSink
  <2>2. chain'[x][1] = chain[x][1] /\ ~Writes(x) /\ ~Writes(x)'
    BY <2>1 DEF KeepsRelay, Chain, Writes
  <2>3. Following(x) <= Following(x)' /\ ~Begun(d)
    BY <1>3, <1>4, <1>6, <2>1, <2>2 DEF Following, Flows
  <2>4. ChunkInv(x)'
    BY <2>2 DEF ChunkInv
  <2>5. Flows(x, e)'
    BY <1>4, <1>8, <1>9, <2>1, <2>2, <2>3 DEF KeepsTorn
  <2> QED BY <1>7, <2>1, <2>4, <2>5
<1>13. CASE Starts(x)
  <2>1. /\ chain[x][1].st = "off" /\ chain'[x][1].st = "read" /\ KeepsTorn(x) /\ Told(x)
        /\ KeepsSource(x)
    BY <1>13 DEF Starts
  <2>2. ~Writes(x) /\ ~Writes(x)'
    BY <2>1 DEF Writes
  <2>3. Following(x)' = Following(x) /\ ~Begun(d)
    BY <1>3, <1>6, <2>1, <2>2 DEF Following, Flows
  <2>4. ChunkInv(x)'
    BY <2>2 DEF ChunkInv
  <2>5. Flows(x, e)'
    BY <1>4, <1>8, <1>9, <2>1, <2>3 DEF KeepsTorn
  <2> QED BY <1>7, <2>1, <2>4, <2>5
<1>14. CASE Rests(x, 1)
  <2>1. /\ KeepsTorn(x) /\ Stream(Other[x])' = Stream(Other[x]) /\ KeepsSource(x)
        /\ chain'[x][1].st = "end" \/ (chain'[x][1].st = "read" /\ Other[x] \in gone')
    BY <1>14 DEF Rests, KeepsSink, KeepsGone
  <2>2. ~Writes(x)' /\ ~Live(x)' /\ chain'[x][1].st # "off"
    BY <2>1 DEF Writes, Live
  <2>3. Following(x) <= Following(x)'
    BY <1>3, <1>4, <2>1, <2>2 DEF Following
  <2>4. ChunkInv(x)'
    BY <2>2 DEF ChunkInv
  <2>5. Flows(x, e)'
    BY <1>4, <1>8, <1>9, <2>1, <2>2, <2>3 DEF KeepsTorn
  <2> QED BY <1>7, <2>1, <2>4, <2>5
<1>15. CASE Fills(x, 1)
  <2>1. PICK k \in 1..Len(inq[x]) :
          /\ Takes(x, k)
          /\ chain[x][1].st = "read" /\ chain'[x][1].st = "write" /\ chain'[x][1].len = k
          /\ \A j \in 1..k : buf'[x][j] = inq[x][j]
    BY <1>15 DEF Fills
  <2>2. /\ KeepsGone(x) /\ KeepsTorn(x) /\ Stream(Other[x])' = Stream(Other[x])
        /\ (x \in rst' <=> x \in rst)
    BY <2>1 DEF Takes, KeepsSink
  <2>3. Len(inq[x]) \in Nat /\ k \in Nat /\ k > 0 /\ x \notin rst
    <3>1. Len(inq[x]) \in Nat
      BY SourceIs
    <3>2. inq[x] # <<>>
      BY <2>1, <3>1
    <3> QED BY <2>1, <3>1, <3>2 DEF RunInv
  <2>4. ~Writes(x) /\ Writes(x)' /\ Live(x)' = Live(x)
    BY <2>1, <2>2, <2>3 DEF Writes, Live, KeepsGone
  <2>5. \A j \in 1..k : buf'[x][j].n = Consumed(x) + j
    <3>1. ASSUME NEW j \in 1..k PROVE buf'[x][j].n = Consumed(x) + j
      <4>1. buf'[x][j] = inq[x][j] /\ j \in 1..Len(inq[x])
        BY <2>1, <2>3
      <4>2. inq[x][j] = Unit(Consumed(x) + j)
        BY <4>1 DEF InqInv
      <4> QED BY <4>1, <4>2 DEF Unit
    <3> QED BY <3>1
  <2>6. Following(x)' = Following(x) /\ buf'[x][1].n = Consumed(x) + 1
    <3>1. 1 \in 1..k
      BY <2>3
    <3> QED BY <2>4, <2>5, <3>1 DEF Following
  <2>7. ChunkInv(x)'
    <3>1. Consumed(x)' = Consumed(x) + k
      BY <1>3, <2>1, <2>3
    <3>2. \A j \in 1..k : Consumed(x) + j = (Consumed(x) + 1) + j - 1
      BY <1>4, <2>3
    <3>3. (Consumed(x) + 1) + k - 1 = Consumed(x) + k
      BY <1>4, <2>3
    <3> QED BY <2>1, <2>5, <2>6, <3>1, <3>2, <3>3 DEF ChunkInv
  <2>8. Flows(x, e)'
    BY <1>4, <1>8, <1>9, <2>1, <2>2, <2>4, <2>6 DEF KeepsTorn
  <2> QED BY <1>7, <2>2, <2>7, <2>8
<1>16. CASE Drains(x, 1)
  <2>1. PICK k \in 1..chain[x][1].len :
          /\ chain[x][1].st = "write" /\ chain'[x][1].st = "read" /\ k <= Len(buf[x])
          /\ KeepsSource(x) /\ Other[x] \notin gone
          /\ Len(Stream(Other[x])') = Len(Stream(Other[x])) + k
          /\ \A j \in 1..Len(Stream(Other[x])) : Stream(Other[x])'[j] = Stream(Other[x])[j]
          /\ \A j \in 1..k : Stream(Other[x])'[Len(Stream(Other[x])) + j] = buf[x][j]
          /\ (x \in history'.torn <=> x \in history.torn \/ k < chain[x][1].len)
    BY <1>16 DEF Drains
  <2>2. PICK b, n : b = buf[x][1].n /\ n = chain[x][1].len
    OBVIOUS
  <2>3. /\ Writes(x) /\ ~Writes(x)' /\ Following(x) = b /\ Following(x)' = Consumed(x) + 1
        /\ Live(x) /\ (x \in rst' <=> x \in rst)
    BY <1>3, <2>1, <2>2 DEF Writes, Following, Live, KeepsSource
  <2>4. b \in Nat /\ b > 0 /\ n \in Nat /\ k \in Nat /\ k > 0 /\ k <= n /\ Len(buf[x]) \in Nat
    <3>1. n \in Nat
      BY <2>2, SourceIs DEF Chain, RelayType
    <3>2. Len(buf[x]) \in Nat
      BY SourceIs
    <3> QED BY <1>4, <2>1, <2>2, <2>3, <3>1, <3>2
  <2>5. /\ \A i \in 1..n : buf[x][i].n = b + i - 1
        /\ x \notin rst => b + n - 1 = Consumed(x)
    BY <1>2, <2>2, <2>3 DEF ChunkInv
  <2>6. /\ q = p + k /\ (\A i \in 1..p : e[i] = d[i]) /\ \A j \in 1..k : e[p + j] = b + j - 1
    <3>1. q = p + k
      BY <1>5, <2>1
    <3>2. ASSUME NEW i \in 1..p PROVE e[i] = d[i]
      <4>1. i \in 1..q
        BY <1>n, <2>4, <3>1
      <4>2. i \in 1..Len(Stream(Other[x]))
        BY <1>5
      <4>3. Stream(Other[x])'[i] = Stream(Other[x])[i]
        BY <2>1, <4>2
      <4> QED BY <1>5, <4>1, <4>3
    <3>3. ASSUME NEW j \in 1..k PROVE e[p + j] = b + j - 1
      <4>1. p + j \in 1..q /\ j \in 1..n
        BY <1>n, <2>4, <3>1
      <4>2. Stream(Other[x])'[p + j] = buf[x][j]
        <5>1. Stream(Other[x])'[Len(Stream(Other[x])) + j] = buf[x][j]
          BY <2>1
        <5>2. p = Len(Stream(Other[x]))
          BY <1>5
        <5> QED BY <5>1, <5>2
      <4>3. e[p + j] = Stream(Other[x])'[p + j].n
        BY <1>5, <4>1
      <4> QED BY <2>5, <4>1, <4>2, <4>3
    <3> QED BY <3>1, <3>2, <3>3
  <2>7. Below(d, b) /\ Rising(d) /\ (x \notin history.torn => Gapless(d) /\ (Begun(d) => Has(d, b - 1)))
    BY <1>6, <2>3 DEF Flows
  <2>8. Numbers(e, p + k)
    BY <1>5, <2>6
  <2>9. /\ Below(e, b + k) /\ Rising(e) /\ Has(e, b + k - 1)
        /\ x \notin history.torn => Gapless(e)
    BY <1>5, <2>4, <2>6, <2>7, <2>8, ChunkBehind
  <2>10. b + k <= Following(x)'
    <3>1. k \in 1..Len(buf[x]) /\ k \in 1..n
      BY <2>1, <2>4
    <3>2. buf[x][k].n \in 1..Consumed(x) /\ buf[x][k].n = b + k - 1
      BY <1>4, <2>5, <3>1
    <3>3. b + k - 1 <= Consumed(x)
      BY <1>4, <3>2
    <3> QED BY <1>4, <2>3, <2>4, <3>3
  <2>11. Below(e, Following(x)')
    <3>1. ASSUME NEW f \in Nat, NEW g \in Nat, f <= g, Below(e, f) PROVE Below(e, g)
      BY <2>8, <3>1 DEF Below, Numbers
    <3>2. b + k \in Nat
      BY <2>4
    <3> QED BY <1>4, <2>9, <2>10, <3>1, <3>2
  <2>12. x \notin history'.torn => x \notin history.torn /\ k = n
    BY <2>1, <2>2, <2>4
  <2>13. (x \notin history'.torn /\ Live(x)' /\ Begun(e)) => Has(e, Following(x)' - 1)
    <3>1. SUFFICES ASSUME x \notin history'.torn, Live(x)' PROVE Has(e, Following(x)' - 1)
      OBVIOUS
    <3>2. x \notin rst
      BY <2>3, <3>1 DEF Live
    <3>3. Following(x)' - 1 = b + k - 1
      BY <1>4, <2>3, <2>4, <2>5, <2>12, <3>1, <3>2
    <3> QED BY <2>9, <3>3
  <2>14. Flows(x, e)'
    BY <2>1, <2>9, <2>11, <2>12, <2>13 DEF Flows
  <2>15. ChunkInv(x)'
    BY <2>3 DEF ChunkInv
  <2> QED BY <1>7, <2>9, <2>14, <2>15
<1>17. (\E i \in Chain : Fills(x, i) \/ Drains(x, i) \/ Rests(x, i))
         => Fills(x, 1) \/ Drains(x, 1) \/ Rests(x, 1)
  BY <1>1
<1> QED
  BY <1>10, <1>11, <1>12, <1>13, <1>14, <1>15, <1>16, <1>17 DEF Moves

LEMMA FlowInit == Init => FlowInv
<1> SUFFICES ASSUME Init, NEW x \in Side
             PROVE  InqInv(x) /\ UnitsInv(x) /\ StreamInv(x)
  BY DEF FlowInv
<1>1. /\ sent[x] = 0 /\ pieces = 0 /\ inq[x] = <<>> /\ buf[x] = <<>>
      /\ got[Other[x]] = <<>> /\ outq[Other[x]] = <<>>
      /\ chain[x][1].st = "off"
  BY SideIs DEF Init, Off, Chain
<1>2. Consumed(x) = 0
  <2>1. SentBy(x) = 0
    BY <1>1 DEF SentBy
  <2>2. Len(inq[x]) = 0
    BY <1>1
  <2> QED BY <2>1, <2>2 DEF Consumed
<1>3. Stream(Other[x]) = <<>>
  BY <1>1 DEF Stream
<1>4. DOMAIN Delivered(Other[x]) = {}
  BY <1>3 DEF Delivered
<1>5. ~Writes(x) /\ Following(x) = 1
  BY <1>1, <1>2 DEF Writes, Following
<1>6. InqInv(x)
  BY <1>1, <1>2 DEF InqInv
<1>7. UnitsInv(x)
  BY <1>1, <1>3 DEF UnitsInv
<1>8. StreamInv(x)
  BY <1>1, <1>4, <1>5 DEF StreamInv, ChunkInv, Flows, Below, Rising, Gapless, Begun
<1> QED BY <1>6, <1>7, <1>8

LEMMA FlowStep == TypeInv /\ TypeInv' /\ RunInv /\ FlowInv /\ [Next]_vars => FlowInv'
<1> SUFFICES ASSUME TypeInv, TypeInv', RunInv, FlowInv, [Next]_vars, NEW x \in Side
             PROVE  InqInv(x)' /\ UnitsInv(x)' /\ (~Doubled' => StreamInv(x)')
  BY DEF FlowInv
<1>1. Moves(x) /\ InqInv(x) /\ UnitsInv(x) /\ (~Doubled => StreamInv(x))
  BY EveryMove DEF FlowInv
<1>2. InqInv(x)' /\ UnitsInv(x)'
  BY <1>1, SourceStep, UnitsStep
<1>3. ~Doubled' => StreamInv(x)'
  BY <1>1, StreamStep
<1> QED BY <1>2, <1>3

LEMMA RunAlways == Spec => []RunInv
BY RunInit, RunStep, TypesHold, DueAlways, PTL DEF Spec

LEMMA FlowAlways == Spec => []FlowInv
BY FlowInit, FlowStep, TypesHold, RunAlways, PTL DEF Spec

-----------------------------------------------------------------------------
\* Every step is one of a stream, or changes nothing of it.

KeepsKind(x) == (Doubled' <=> Doubled) /\ KeepsTorn(x)

\* Sequence t begins with s.
Begins(s, t) == Len(s) <= Len(t) /\ SubSeq(s, 1, Len(s)) = SubSeq(t, 1, Len(s))

Rest(x) ==
  /\ SentBy(x)' = SentBy(x) /\ Delivered(Other[x])' = Delivered(Other[x])
  /\ KeepsKind(x) /\ KeepsGone(x)

Sending(x) ==
  /\ SentBy(x)' = SentBy(x) + 1 /\ Delivered(Other[x])' = Delivered(Other[x])
  /\ KeepsKind(x) /\ KeepsGone(x)

Delivering(x) ==
  LET e == Delivered(Other[x])'
  IN  /\ Other[x] \notin gone /\ KeepsGone(x)
      /\ Begins(Delivered(Other[x]), e)
      /\ \A i \in DOMAIN e : e[i] \in 0..SentBy(x)
      /\ ~Doubled => Rising(e)
      /\ ~Doubled /\ x \notin history.torn => Gapless(e)
      /\ x \notin history'.torn => x \notin history.torn
      /\ SentBy(x)' = SentBy(x) /\ (Doubled' <=> Doubled)

Doubling(x) ==
  /\ ~Doubled /\ Doubled'
  /\ \/ Delivered(Other[x])' = Delivered(Other[x])
     \/ Delivered(Other[x])' = Append(Delivered(Other[x]), 0)
  /\ SentBy(x)' = SentBy(x) /\ KeepsTorn(x) /\ KeepsGone(x)

Closing(x) ==
  /\ Other[x] \notin gone /\ Other[x] \in gone'
  /\ Begins(Delivered(Other[x])', Delivered(Other[x]))
  /\ SentBy(x)' = SentBy(x) /\ KeepsKind(x)

LEMMA BeginsIs ==
  ASSUME NEW S, NEW s \in Seq(S), NEW t \in Seq(S), Len(s) <= Len(t),
         \A i \in 1..Len(s) : t[i] = s[i]
  PROVE  Begins(s, t)
<1>1. SubSeq(s, 1, Len(s)) = SubSeq(t, 1, Len(s))
  OBVIOUS
<1> QED BY <1>1 DEF Begins

LEMMA DeliveredType ==
  ASSUME TypeInv, TypeInv', NEW y \in Side
  PROVE  /\ Delivered(y) \in Seq(Nat) /\ Delivered(y)' \in Seq(Nat)
         /\ Len(Delivered(y)) = Len(Stream(y)) /\ Len(Delivered(y)') = Len(Stream(y)')
<1>1. /\ DOMAIN Delivered(y) = 1..Len(Stream(y)) /\ DOMAIN Delivered(y)' = 1..Len(Stream(y)')
      /\ \A i \in 1..Len(Stream(y)) : Delivered(y)[i] \in Nat
      /\ \A i \in 1..Len(Stream(y)') : Delivered(y)'[i] \in Nat
      /\ Len(Stream(y)) \in Nat /\ Len(Stream(y)') \in Nat
  BY DeliveredIs
<1>2. /\ Delivered(y) \in [1..Len(Stream(y)) -> Nat]
      /\ Delivered(y)' \in [1..Len(Stream(y)') -> Nat]
  BY <1>1 DEF Delivered
<1> QED BY <1>1, <1>2, FunIsSeq, Zenon

LEMMA DirectionStep ==
  ASSUME TypeInv, TypeInv', RunInv, FlowInv, FlowInv', NEW x \in Side, Moves(x)
  PROVE  Rest(x) \/ Sending(x) \/ Delivering(x) \/ Doubling(x) \/ Closing(x)
<1>1. Other[x] \in Side /\ InqInv(x) /\ UnitsInv(x) /\ (~Doubled => StreamInv(x))
      /\ InqInv(x)' /\ UnitsInv(x)' /\ (~Doubled' => StreamInv(x)')
  BY SideIs DEF FlowInv
<1>a. /\ Len(Stream(Other[x])) \in Nat /\ Len(Stream(Other[x])') \in Nat
      /\ Delivered(Other[x]) \in Seq(Nat) /\ Delivered(Other[x])' \in Seq(Nat)
      /\ Len(Delivered(Other[x])) = Len(Stream(Other[x]))
      /\ Len(Delivered(Other[x])') = Len(Stream(Other[x])')
      /\ \A i \in 1..Len(Stream(Other[x])) : Delivered(Other[x])[i] = Stream(Other[x])[i].n
      /\ \A i \in 1..Len(Stream(Other[x])') : Delivered(Other[x])'[i] = Stream(Other[x])'[i].n
  BY <1>1, DeliveredIs, DeliveredType
<1>b. PICK d, e, p, q :
        /\ d = Delivered(Other[x]) /\ e = Delivered(Other[x])'
        /\ p = Len(Stream(Other[x])) /\ q = Len(Stream(Other[x])')
  OBVIOUS
<1>2. /\ d = Delivered(Other[x]) /\ e = Delivered(Other[x])'
      /\ p = Len(Stream(Other[x])) /\ q = Len(Stream(Other[x])')
      /\ p \in Nat /\ q \in Nat /\ d \in Seq(Nat) /\ e \in Seq(Nat) /\ Len(d) = p /\ Len(e) = q
      /\ \A i \in 1..p : d[i] = Stream(Other[x])[i].n
      /\ \A i \in 1..q : e[i] = Stream(Other[x])'[i].n
  BY <1>a, <1>b
<1>3. p \in Nat /\ q \in Nat /\ d \in Seq(Nat) /\ e \in Seq(Nat) /\ Len(d) = p /\ Len(e) = q
  BY <1>2
<1>4. ASSUME Stream(Other[x])' = Stream(Other[x]) PROVE e = d
  <2>1. q = p /\ \A i \in 1..p : e[i] = d[i]
    BY <1>2, <1>4
  <2> QED BY <1>3, <2>1, SameElements
\* What any step delivers was sent, and is in order while one relay runs.
<1>5. \A i \in DOMAIN e : e[i] \in 0..Consumed(x)'
  <2>1. Consumed(x)' \in Nat
    BY <1>1 DEF InqInv
  <2>2. ASSUME NEW i \in 1..q PROVE e[i] \in 0..Consumed(x)'
    <3>1. IsReply(Stream(Other[x])'[i]) \/ IsData(Stream(Other[x])'[i], Consumed(x)')
      BY <1>1, <1>2 DEF UnitsInv
    <3>2. e[i] = 0 \/ e[i] \in 1..Consumed(x)'
      BY <1>2, <3>1 DEF IsReply, IsData
    <3> QED BY <2>1, <3>2
  <2> QED BY <1>3, <2>2
<1>6. KeepsSource(x) => \A i \in DOMAIN e : e[i] \in 0..SentBy(x)
  <2>1. SUFFICES ASSUME KeepsSource(x) PROVE \A i \in DOMAIN e : e[i] \in 0..SentBy(x)
    OBVIOUS
  <2>2. Consumed(x)' <= SentBy(x) /\ Consumed(x)' \in Nat /\ SentBy(x) \in Nat
    <3>1. SentBy(x) \in Nat /\ SentBy(x)' \in Nat /\ Len(inq'[x]) \in Nat
      BY SourceIs
    <3>2. Consumed(x)' = SentBy(x)' - Len(inq'[x]) /\ SentBy(x)' = SentBy(x)
      BY <2>1 DEF Consumed, KeepsSource
    <3>3. Consumed(x)' \in Nat
      BY <1>1 DEF InqInv
    <3> QED BY <3>1, <3>2, <3>3
  <2> QED BY <1>5, <2>2
<1>7. ~Doubled' => Rising(e) /\ (x \notin history.torn => Gapless(e))
  <2>1. SUFFICES ASSUME ~Doubled' PROVE Rising(e) /\ (x \notin history.torn => Gapless(e))
    OBVIOUS
  <2>2. x \notin history.torn => Gapless(Delivered(Other[x])')
    BY <1>1, <2>1, StreamStep
  <2>3. Rising(Delivered(Other[x])')
    BY <1>1, <2>1 DEF StreamInv, Flows
  <2> QED BY <1>2, <2>2, <2>3
<1>8. ASSUME Told(x)
      PROVE  e = d \/ (Other[x] \notin gone /\ e = Append(d, 0) /\ Begins(d, e))
  <2>1. ASSUME NEW u \in Units, IsReply(u), Stream(Other[x])' = Append(Stream(Other[x]), u)
        PROVE  e = Append(d, 0) /\ Begins(d, e)
    <3>1. PICK s \in Seq(Units) : s = Stream(Other[x])
      BY <1>1, DeliveredIs
    <3>2. Len(Append(s, u)) = Len(s) + 1 /\ Append(s, u)[Len(s) + 1] = u
          /\ \A i \in 1..Len(s) : Append(s, u)[i] = s[i]
      BY AppendIs
    <3>3. PICK t : t = Stream(Other[x])' /\ t = Append(s, u)
      BY <2>1, <3>1
    <3>4. q = Len(t) /\ p = Len(s) /\ (\A i \in 1..p : d[i] = s[i].n) /\ \A i \in 1..q : e[i] = t[i].n
      BY <1>2, <3>1, <3>3
    <3>5. q = p + 1 /\ t[p + 1] = u /\ \A i \in 1..p : t[i] = s[i]
      BY <3>2, <3>3, <3>4
    <3>6. p + 1 \in 1..q /\ \A i \in 1..p : i \in 1..q
      BY <1>3, <3>5
    <3>7. e[p + 1] = 0 /\ \A i \in 1..p : e[i] = d[i]
      BY <2>1, <3>4, <3>5, <3>6 DEF IsReply
    <3>8. /\ Append(d, 0) \in Seq(Nat) /\ Len(Append(d, 0)) = Len(d) + 1
          /\ Append(d, 0)[Len(d) + 1] = 0 /\ \A i \in 1..Len(d) : Append(d, 0)[i] = d[i]
      BY <1>3
    <3>9. Len(e) = Len(Append(d, 0)) /\ \A i \in 1..Len(e) : e[i] = Append(d, 0)[i]
      <4>1. Len(e) = p + 1 /\ Len(Append(d, 0)) = p + 1
        BY <1>3, <3>5, <3>8
      <4>2. ASSUME NEW i \in 1..(p + 1) PROVE e[i] = Append(d, 0)[i]
        <5>1. i = p + 1 \/ i \in 1..p
          BY <1>3
        <5>2. Append(d, 0)[p + 1] = 0 /\ \A j \in 1..p : Append(d, 0)[j] = d[j]
          BY <1>3, <3>8
        <5> QED BY <3>7, <5>1, <5>2
      <4> QED BY <4>1, <4>2
    <3>10. e = Append(d, 0)
      BY <1>3, <3>8, <3>9, SameElements
    <3>11. Begins(d, e)
      BY <1>3, <3>5, <3>7, BeginsIs
    <3> QED BY <3>10, <3>11
  <2> QED BY <1>4, <1>8, <2>1 DEF Told
<1>9. ASSUME Told(x), KeepsSource(x), KeepsKind(x), KeepsGone(x)
      PROVE  Rest(x) \/ Delivering(x)
  <2>1. CASE e = d
    BY <1>2, <1>9, <2>1 DEF Rest, KeepsSource
  <2>2. CASE Other[x] \notin gone /\ Begins(d, e)
    BY <1>2, <1>6, <1>7, <1>9, <2>2 DEF Delivering, KeepsKind, KeepsTorn, KeepsSource
  <2> QED BY <1>8, <1>9, <2>1, <2>2
<1>10. CASE Still(x) \/ Loses(x)
  BY <1>2, <1>4, <1>10 DEF Still, Loses, KeepsSource, KeepsRelay, KeepsSink, Rest, KeepsKind
<1>11. CASE Sends(x)
  BY <1>2, <1>4, <1>11 DEF Sends, KeepsRelay, KeepsSink, Sending, KeepsKind
<1>12. CASE Asks(x)
  BY <1>2, <1>4, <1>12 DEF Asks, Takes, KeepsRelay, KeepsSink, Rest, KeepsKind
<1>13. CASE \E i \in Chain : Fills(x, i)
  BY <1>2, <1>4, <1>13 DEF Fills, Takes, KeepsSink, Rest, KeepsKind
<1>14. CASE \E i \in Chain : Rests(x, i)
  BY <1>2, <1>4, <1>14 DEF Rests, KeepsSource, KeepsSink, Rest, KeepsKind
<1>15. CASE Speaks(x)
  BY <1>9, <1>15 DEF Speaks, KeepsRelay, KeepsKind
<1>16. CASE Starts(x)
  <2>1. Told(x) /\ KeepsSource(x) /\ KeepsGone(x) /\ KeepsTorn(x) /\ ((Doubled' <=> Doubled) \/ Doubled')
    BY <1>16 DEF Starts
  <2>2. CASE Doubled' <=> Doubled
    BY <1>9, <2>1, <2>2 DEF KeepsKind
  <2>3. CASE ~Doubled /\ Doubled'
    BY <1>2, <1>8, <2>1, <2>3 DEF Doubling, KeepsSource
  <2> QED BY <2>1, <2>2, <2>3
<1>17. CASE Closes(x)
  <2>1. q <= p /\ \A i \in 1..q : e[i] = d[i]
    <3>1. Len(Stream(Other[x])') <= Len(Stream(Other[x]))
          /\ \A j \in 1..Len(Stream(Other[x])') : Stream(Other[x])'[j] = Stream(Other[x])[j]
      BY <1>17 DEF Closes
    <3>2. q <= p
      BY <1>2, <3>1
    <3>3. \A i \in 1..q : i \in 1..p
      BY <1>3, <3>2
    <3> QED BY <1>2, <3>1, <3>2, <3>3
  <2>2. Begins(e, d)
    BY <1>3, <2>1, BeginsIs
  <2> QED BY <1>2, <1>17, <2>2 DEF Closes, Closing, KeepsSource, KeepsRelay, KeepsKind
<1>18. CASE \E i \in Chain : Drains(x, i)
  <2>1. PICK i \in Chain : Drains(x, i)
    BY <1>18
  <2>2. PICK k \in 1..chain[x][i].len :
          /\ KeepsSource(x) /\ (Doubled' <=> Doubled)
          /\ Other[x] \notin gone /\ KeepsGone(x)
          /\ Len(Stream(Other[x])') = Len(Stream(Other[x])) + k
          /\ \A j \in 1..Len(Stream(Other[x])) : Stream(Other[x])'[j] = Stream(Other[x])[j]
          /\ (x \in history'.torn <=> x \in history.torn \/ k < chain[x][i].len)
    BY <2>1 DEF Drains
  <2>3. k \in Nat
    <3>1. chain[x][i].len \in Nat
      BY SourceIs DEF RelayType
    <3> QED BY <3>1
  <2>4. p <= q /\ \A j \in 1..p : e[j] = d[j]
    <3>1. q = p + k
      BY <1>2, <2>2
    <3>2. \A j \in 1..p : j \in 1..q
      BY <1>3, <2>3, <3>1
    <3>3. \A j \in 1..p : Stream(Other[x])'[j] = Stream(Other[x])[j]
      BY <1>2, <2>2
    <3>4. \A j \in 1..p : e[j] = Stream(Other[x])'[j].n /\ d[j] = Stream(Other[x])[j].n
      BY <1>2, <3>2
    <3>5. p <= q
      BY <1>3, <2>3, <3>1
    <3> QED BY <3>3, <3>4, <3>5
  <2>5. Begins(d, e)
    BY <1>3, <2>4, BeginsIs
  <2> QED BY <1>2, <1>6, <1>7, <2>2, <2>5 DEF Delivering, KeepsSource
<1> QED
  BY <1>10, <1>11, <1>12, <1>13, <1>14, <1>15, <1>16, <1>17, <1>18 DEF Moves

LEMMA ToServerInit == Init => ToServer!Init
<1> SUFFICES ASSUME Init PROVE ToServer!Init
  OBVIOUS
<1>1. /\ sent["client"] = 0 /\ pieces = 0 /\ got["server"] = <<>> /\ outq["server"] = <<>>
      /\ chain["client"][2].st = "off" /\ history.torn = {} /\ gone = {}
  BY SideIs DEF Init, Off, Chain, NoHistory
<1>2. SentBy("client") = 0 /\ ~Doubled
  BY <1>1 DEF SentBy, Doubled
<1>3. Delivered("server") = <<>>
  <2>1. Stream("server") = <<>>
    BY <1>1 DEF Stream
  <2> QED BY <2>1 DEF Delivered
<1> QED BY <1>1, <1>2, <1>3 DEF ToServer!Init

LEMMA ToClientInit == Init => ToClient!Init
<1> SUFFICES ASSUME Init PROVE ToClient!Init
  OBVIOUS
<1>1. /\ sent["server"] = 0 /\ got["client"] = <<>> /\ outq["client"] = <<>>
      /\ chain["client"][2].st = "off" /\ history.torn = {} /\ gone = {}
  BY SideIs DEF Init, Off, Chain, NoHistory
<1>2. SentBy("server") = 0 /\ ~Doubled
  BY <1>1 DEF SentBy, Doubled
<1>3. Delivered("client") = <<>>
  <2>1. Stream("client") = <<>>
    BY <1>1 DEF Stream
  <2> QED BY <2>1 DEF Delivered
<1> QED BY <1>1, <1>2, <1>3 DEF ToClient!Init

LEMMA ToServerStep ==
  ASSUME \/ Rest("client") \/ Sending("client") \/ Delivering("client") \/ Doubling("client")
         \/ Closing("client")
  PROVE  [ToServer!Next]_(ToServer!svars)
<1>1. Other["client"] = "server"
  BY DEF Other
<1> USE DEF KeepsKind, KeepsTorn, KeepsGone
<1>2. CASE Rest("client")
  BY <1>1, <1>2 DEF Rest, ToServer!svars
<1>3. CASE Sending("client")
  BY <1>1, <1>3 DEF Sending, ToServer!Next, ToServer!Send
<1>4. CASE Delivering("client")
  <2>1. ToServer!Deliver
    BY <1>1, <1>4 DEF Delivering, Begins, Rising, Gapless, Pairs, ToServer!Deliver, ToServer!IsPrefix,
       ToServer!Increasing, ToServer!NoGap, ToServer!Both
  <2> QED BY <2>1 DEF ToServer!Next
<1>5. CASE Doubling("client")
  BY <1>1, <1>5 DEF Doubling, ToServer!Next, ToServer!Second
<1>6. CASE Closing("client")
  BY <1>1, <1>6 DEF Closing, Begins, ToServer!Next, ToServer!Close, ToServer!IsPrefix
<1> QED BY <1>2, <1>3, <1>4, <1>5, <1>6

LEMMA ToClientStep ==
  ASSUME \/ Rest("server") \/ Sending("server") \/ Delivering("server") \/ Doubling("server")
         \/ Closing("server")
  PROVE  [ToClient!Next]_(ToClient!svars)
<1>1. Other["server"] = "client"
  BY DEF Other
<1> USE DEF KeepsKind, KeepsTorn, KeepsGone
<1>2. CASE Rest("server")
  BY <1>1, <1>2 DEF Rest, ToClient!svars
<1>3. CASE Sending("server")
  BY <1>1, <1>3 DEF Sending, ToClient!Next, ToClient!Send
<1>4. CASE Delivering("server")
  <2>1. ToClient!Deliver
    BY <1>1, <1>4 DEF Delivering, Begins, Rising, Gapless, Pairs, ToClient!Deliver, ToClient!IsPrefix,
       ToClient!Increasing, ToClient!NoGap, ToClient!Both
  <2> QED BY <2>1 DEF ToClient!Next
<1>5. CASE Doubling("server")
  BY <1>1, <1>5 DEF Doubling, ToClient!Next, ToClient!Second
<1>6. CASE Closing("server")
  BY <1>1, <1>6 DEF Closing, Begins, ToClient!Next, ToClient!Close, ToClient!IsPrefix
<1> QED BY <1>2, <1>3, <1>4, <1>5, <1>6

\* Whatever is sent, read, written, lost or closed, in whatever order: each direction is a
\* stream of what its side sent, as RelayedStream promises it, while one relay runs, and
\* delivers nothing that was not sent when there are two.
THEOREM RelaysRefineStreams == Spec => ToServer!Spec /\ ToClient!Spec
<1>1. ASSUME TypeInv, TypeInv', RunInv, FlowInv, FlowInv', [Next]_vars
      PROVE  [ToServer!Next]_(ToServer!svars) /\ [ToClient!Next]_(ToClient!svars)
  <2>1. ASSUME NEW x \in Side
        PROVE  Rest(x) \/ Sending(x) \/ Delivering(x) \/ Doubling(x) \/ Closing(x)
    <3>1. Moves(x)
      BY <1>1, EveryMove
    <3> QED BY <1>1, <3>1, DirectionStep
  <2>2. "client" \in Side /\ "server" \in Side
    BY SideIs
  <2> QED BY <2>1, <2>2, ToServerStep, ToClientStep
<1> QED
  BY <1>1, ToServerInit, ToClientInit, TypesHold, RunAlways, FlowAlways, PTL
  DEF Spec, ToServer!Spec, ToClient!Spec

-----------------------------------------------------------------------------
\* Data follows the ACCEPT.

HasAccept(s) == \E i \in 1..Len(s) : s[i].is = "ACCEPT"

\* Until it is told ACCEPT, a client that is there has had at most the REJECTs that were
\* given, all at once, and no relay has started.
Calm ==
  /\ late = 0 /\ Len(outq["client"]) <= Len(history.answers)
  /\ \A i \in 1..Len(history.answers) : history.answers[i] # "ACCEPT"
  /\ chain["client"][1].st = "off"

AcceptInv ==
  /\ DataFollowsAccept
  /\ "client" \notin gone /\ ~HasAccept(Stream("client")) => Calm

\* The replies so far, and one more, have room.
LEMMA AnswersFit ==
  ASSUME TypeInv, DueInv, RunInv,
         (todo # <<>> /\ Len(Head(todo)) = 4) \/ waiting \/ posted # <<>>
  PROVE  Len(history.answers) < Window
<1>1. /\ pc \notin {"request", "resolve"} /\ Len(todo) <= Len(Found) /\ Len(Found) \in Nat
      /\ todo \in Seq(Seq(Byte)) /\ Due = Cardinality(V4(Behind))
      /\ \A i \in 1..Len(todo) : todo[i] = Found[Behind + i]
  BY FoundIs DEF DueInv, RunInv
<1>2. Len(history.answers) \in Nat /\ Len(posted) \in Nat /\ posted \in Seq({"ok", "error"})
  BY DEF TypeInv, HistoryType, TypeOK
<1>3. Behind \in Nat /\ Behind <= Len(Found) /\ Window \in Nat
  BY <1>1, SocksBoundAssumption DEF Behind
<1>4. Len(history.answers) <= Due /\ (waiting \/ posted # <<>> => Len(history.answers) + 1 <= Due)
  <2> DEFINE w == IF waiting THEN 1 ELSE 0
  <2>1. (waiting => w = 1) /\ (~waiting => w = 0)
    BY Zenon
  <2>2. Due = Len(history.answers) + Len(posted) + w
    BY Zenon DEF Due
  <2> HIDE DEF w
  <2>3. posted # <<>> => Len(posted) > 0
    BY <1>2
  <2> QED BY <1>2, <2>1, <2>2, <2>3
<1>5. Cardinality(V4(Len(Found))) <= Window
  <2>1. CASE Host(request) \in DOMAIN Lookup
    BY <2>1, SocksRoomAssumption DEF V4, Found
  <2>2. CASE Host(request) \notin DOMAIN Lookup
    <3>1. V4(Len(Found)) = {}
      BY <2>2 DEF V4, Found
    <3> QED BY <1>3, <3>1, FS_EmptySet
  <2> QED BY <2>1, <2>2
<1>6. ASSUME NEW n \in Nat, n <= Len(Found)
      PROVE  Cardinality(V4(n)) <= Window /\ Cardinality(V4(n)) \in Nat
  <2>1. \A i \in 1..n : i \in 1..Len(Found)
    BY <1>1, <1>6
  <2>2. V4(n) \subseteq V4(Len(Found))
    BY <2>1 DEF V4
  <2>3. IsFiniteSet(V4(Len(Found))) /\ Cardinality(V4(Len(Found))) \in Nat
    BY <1>1, V4Is
  <2>4. Cardinality(V4(n)) \in Nat
    BY <1>6, V4Is
  <2>5. Cardinality(V4(n)) <= Cardinality(V4(Len(Found)))
    BY <2>2, <2>3, FS_Subset
  <2> QED BY <1>3, <1>5, <2>3, <2>4, <2>5
<1>7. CASE waiting \/ posted # <<>>
  BY <1>1, <1>2, <1>3, <1>4, <1>6, <1>7
<1>8. CASE todo # <<>> /\ Len(Head(todo)) = 4
  <2>1. Len(todo) > 0 /\ Len(todo) \in Nat /\ Head(todo) = todo[1]
    BY <1>1, <1>8
  <2>2. Behind + 1 <= Len(Found) /\ Found[Behind + 1] = Head(todo)
    BY <1>1, <2>1 DEF Behind
  <2>3. Cardinality(V4(Behind + 1)) = Cardinality(V4(Behind)) + 1
    BY <1>3, <1>8, <2>2, V4Is
  <2>4. Cardinality(V4(Behind + 1)) <= Window
    BY <1>3, <1>6, <2>2
  <2> QED BY <1>1, <1>2, <1>3, <1>4, <1>6, <2>3, <2>4
<1> QED BY <1>7, <1>8

LEMMA AcceptInit == Init => AcceptInv
<1> SUFFICES ASSUME Init PROVE AcceptInv
  OBVIOUS
<1>1. /\ got["client"] = <<>> /\ outq["client"] = <<>> /\ late = 0 /\ history.answers = <<>>
      /\ chain["client"][1].st = "off"
  BY SideIs DEF Init, Off, Chain, NoHistory
<1>2. Stream("client") = <<>>
  BY <1>1 DEF Stream
<1>3. DataFollowsAccept
  BY <1>2 DEF DataFollowsAccept
<1> QED BY <1>1, <1>3 DEF AcceptInv, Calm

\* A reply to a client that has been told no ACCEPT: it is one, or no relay starts.
LEMMA CalmReply ==
  ASSUME TypeInv, TypeInv', RunInv, Calm, NEW a \in {"ACCEPT", "REJECT"}, DoReply(a),
         "client" \notin gone, Len(history.answers) < Window, UNCHANGED got,
         a = "REJECT" => UNCHANGED chain
  PROVE  HasAccept(Stream("client"))' \/ Calm'
<1>1. /\ outq \in [Side -> Seq(Units)] /\ got \in [Side -> Seq(Units)] /\ Window \in Nat
      /\ history.answers \in Seq({"ACCEPT", "REJECT"})
  BY SocksBoundAssumption DEF TypeInv, TypeOK, HistoryType
<1>2. "client" \notin shut
  BY DEF Calm, RunInv
<1>3. Len(outq["client"]) < Window /\ Len(outq["client"]) \in Nat /\ Len(history.answers) \in Nat
  BY <1>1, SideIs DEF Calm
<1>4. /\ outq' = [outq EXCEPT !["client"] = Append(@, Reply(a))] /\ late' = late
      /\ history'.answers = Append(history.answers, a)
  BY <1>2, <1>3, ReplyIs DEF DoReply
<1>5. PICK o \in Seq(Units) : o = outq["client"]
  BY <1>1, SideIs
<1>6. outq'["client"] = Append(o, Reply(a)) /\ Reply(a) \in Units /\ Reply(a).is = a
  BY <1>1, <1>4, <1>5, SideIs, UnitIs DEF Reply
<1>7. Len(outq'["client"]) = Len(o) + 1 /\ outq'["client"][Len(o) + 1] = Reply(a)
  BY <1>5, <1>6, AppendIs
<1>8. CASE a = "ACCEPT"
  <2>1. /\ Len(Stream("client")') = Len(got'["client"]) + Len(outq'["client"])
        /\ \A i \in 1..Len(outq'["client"]) :
             Stream("client")'[Len(got'["client"]) + i] = outq'["client"][i]
        /\ Len(got'["client"]) \in Nat
    <3>1. PICK g \in Seq(Units), r \in Seq(Units) : g = got'["client"] /\ r = outq'["client"]
      BY SideIs DEF TypeInv, TypeOK
    <3>2. Len(g \o r) = Len(g) + Len(r) /\ \A i \in 1..Len(r) : (g \o r)[Len(g) + i] = r[i]
      BY JoinIs
    <3>3. Len(g) \in Nat
      BY <3>1
    <3>4. Stream("client")' = g \o r
      BY <3>1 DEF Stream
    <3> QED BY <3>1, <3>2, <3>3, <3>4
  <2>2. PICK m, n : m = Len(got'["client"]) /\ n = Len(o) + 1
    OBVIOUS
  <2>3. m \in Nat /\ n \in Nat /\ n > 0 /\ Len(Stream("client")') = m + n /\ n \in 1..Len(outq'["client"])
    <3>1. Len(o) \in Nat
      BY <1>5
    <3>2. n \in Nat /\ n > 0
      BY <2>2, <3>1
    <3>3. Len(outq'["client"]) = n
      BY <1>7, <2>2
    <3>4. m \in Nat /\ Len(Stream("client")') = m + n
      BY <2>1, <2>2, <3>3
    <3>5. n \in 1..n
      BY <3>2
    <3> QED BY <3>2, <3>3, <3>4, <3>5
  <2>4. Stream("client")'[m + n].is = "ACCEPT" /\ m + n \in 1..Len(Stream("client")')
    <3>1. Stream("client")'[m + n] = outq'["client"][n]
      BY <2>1, <2>2, <2>3
    <3>2. outq'["client"][n].is = "ACCEPT"
      BY <1>6, <1>7, <1>8, <2>2
    <3>3. m + n \in 1..(m + n)
      BY <2>3
    <3> QED BY <2>3, <3>1, <3>2, <3>3
  <2> QED BY <2>4 DEF HasAccept
<1>9. CASE a = "REJECT"
  <2>1. /\ Len(history'.answers) = Len(history.answers) + 1
        /\ \A i \in 1..Len(history'.answers) : history'.answers[i] # "ACCEPT"
    <3>1. PICK s \in Seq({"ACCEPT", "REJECT"}) : s = history.answers
      BY <1>1
    <3>2. /\ Len(Append(s, a)) = Len(s) + 1
          /\ \A i \in 1..Len(Append(s, a)) : Append(s, a)[i] = a \/ \E j \in 1..Len(s) : Append(s, a)[i] = s[j]
      OBVIOUS
    <3> QED BY <1>4, <1>9, <3>1, <3>2 DEF Calm
  <2>2. late' = 0 /\ chain' = chain /\ chain["client"][1].st = "off"
    BY <1>4, <1>9 DEF Calm
  <2>3. Len(outq'["client"]) <= Len(history'.answers)
    BY <1>3, <1>5, <1>7, <2>1 DEF Calm
  <2> QED BY <2>1, <2>2, <2>3 DEF Calm
<1> QED BY <1>8, <1>9

LEMMA CalmStep ==
  ASSUME TypeInv, TypeInv', DueInv, RunInv, [Next]_vars, Calm,
         "client" \notin gone, "client" \notin gone'
  PROVE  HasAccept(Stream("client"))' \/ Calm'
<1> USE DEF peers, connecting, relay
<1>0. ASSUME UNCHANGED <<late, chain>>, history'.answers = history.answers,
             outq'["client"] = outq["client"]
      PROVE  Calm'
  BY <1>0 DEF Calm
<1>1. CASE UNCHANGED vars
  BY <1>0, <1>1 DEF vars
<1>2. CASE \/ SendPiece \/ HostAnswers \/ HostCalls \/ NoRequestComes \/ DoResolve \/ SkipV6 \/ End
           \/ \E z \in Side : SendData(z)
  BY <1>0, <1>2
  DEF SendPiece, HostAnswers, HostCalls, NoRequestComes, DoResolve, SkipV6, End, SendData
<1>3. CASE ReadRequest
  <2>1. history'.answers = history.answers
    BY <1>3, ReadIs
  <2> QED BY <1>0, <1>3, <2>1 DEF ReadRequest
<1>4. CASE Connect
  <2>0. AsyncConnect(Head(todo))
    BY <1>4 DEF Connect
  <2>1. history'.answers = history.answers
    BY ONLY <2>0, TypeInv, AsyncIs, Zenon
  <2> QED BY <1>0, <1>4, <2>1 DEF Connect
<1>5. ASSUME NEW z \in Side, PeerReads(z) PROVE Calm'
  <2>1. outq \in [Side -> Seq(Units)] /\ outq[z] # <<>> /\ outq' = [outq EXCEPT ![z] = Tail(@)]
        /\ UNCHANGED <<late, chain, history>>
    BY <1>5 DEF PeerReads, TypeInv, TypeOK
  <2>2. CASE z = "client"
    <3>1. PICK o \in Seq(Units) : o = outq["client"] /\ o # <<>> /\ outq'["client"] = Tail(o)
      BY <2>1, <2>2
    <3>2. Len(Tail(o)) <= Len(o) /\ Len(o) \in Nat /\ Len(Tail(o)) \in Nat
      BY <3>1
    <3>3. Len(history.answers) \in Nat
      BY DEF TypeInv, HistoryType
    <3> QED BY <2>1, <3>1, <3>2, <3>3 DEF Calm
  <2>3. CASE z # "client"
    BY <1>0, <2>1, <2>3, SideIs
  <2> QED BY <2>2, <2>3
<1>6. ASSUME NEW z \in Side, PeerCloses(z) PROVE Calm'
  <2>1. z # "client" /\ outq \in [Side -> Seq(Units)]
    BY <1>6 DEF PeerCloses, TypeInv, TypeOK
  <2>2. outq'["client"] = outq["client"] /\ UNCHANGED <<late, chain, history>>
    BY <1>6, <2>1, SideIs DEF PeerCloses
  <2> QED BY <1>0, <2>2
<1>7. CASE Bind \/ Refuse
  <2>1. PICK a \in {"ACCEPT", "REJECT"} : DoReply(a)
    BY <1>7 DEF Bind, Refuse
  <2>2. todo # <<>> /\ Len(Head(todo)) = 4 /\ UNCHANGED <<got, chain>>
    BY <1>7 DEF Bind, Refuse
  <2>3. Len(history.answers) < Window
    BY <2>2, AnswersFit
  <2> QED BY <2>1, <2>2, <2>3, CalmReply
<1>8. CASE ConnectDone \/ ConnectPosted
  <2>1. waiting \/ posted # <<>>
    BY <1>8 DEF ConnectDone, ConnectPosted
  <2>2. Len(history.answers) < Window
    BY <2>1, AnswersFit
  <2>3. PICK a \in {"ACCEPT", "REJECT"} : DoReply(a) /\ (a = "REJECT" => UNCHANGED chain)
    BY <1>8 DEF ConnectDone, ConnectPosted, Connected, Answer
  <2>4. UNCHANGED got
    BY <1>8 DEF ConnectDone, ConnectPosted, Connected
  <2> QED BY <2>2, <2>3, <2>4, CalmReply
<1>9. CASE AcceptDone
  BY <1>9 DEF AcceptDone, RunInv, Calm
<1>10. CASE LateReply
  BY <1>10 DEF LateReply, Calm
<1>11. ASSUME NEW z \in Side, Relay(z) PROVE FALSE
  <2>1. \A i \in Chain : chain["client"][i].st = "off" /\ chain["server"][i].st = "off"
    BY DEF Calm, RunInv, Chain
  <2>2. PICK i \in Chain : chain[z][i].st \in {"read", "write"}
    BY <1>11 DEF Relay, RelayReads, RelayEnds, RelayWrites, RelayFails
  <2> QED BY <2>1, <2>2, SideIs
<1> QED
  BY <1>1, <1>2, <1>3, <1>4, <1>5, <1>6, <1>7, <1>8, <1>9, <1>10, <1>11
  DEF Next, Handler, Peer

\* Each unit of s is a REJECT, or an ACCEPT, or there is an ACCEPT before it.
Orderly(s) ==
  \A i \in 1..Len(s) : s[i].is # "ACCEPT" =>
    s[i].is = "REJECT" \/ \E j \in 1..(i - 1) : s[j].is = "ACCEPT"

LEMMA OrderlyIs ==
  ASSUME NEW s \in Seq(Units), NEW t \in Seq(Units), Orderly(s)
  PROVE  /\ Len(t) <= Len(s) /\ (\A i \in 1..Len(t) : t[i] = s[i]) => Orderly(t)
         /\ Len(s) <= Len(t) /\ (\A i \in 1..Len(s) : t[i] = s[i]) =>
              (HasAccept(s) => HasAccept(t) /\ Orderly(t))
         /\ \A u \in Units : u.is \in {"ACCEPT", "REJECT"} => Orderly(Append(s, u))
<1>1. Len(s) \in Nat /\ Len(t) \in Nat
  OBVIOUS
<1>2. ASSUME Len(t) <= Len(s), \A i \in 1..Len(t) : t[i] = s[i] PROVE Orderly(t)
  <2>1. ASSUME NEW i \in 1..Len(t), t[i].is # "ACCEPT", t[i].is # "REJECT"
        PROVE  \E j \in 1..(i - 1) : t[j].is = "ACCEPT"
    <3>1. i \in 1..Len(s) /\ t[i] = s[i]
      BY <1>1, <1>2
    <3>2. PICK j \in 1..(i - 1) : s[j].is = "ACCEPT"
      BY <2>1, <3>1 DEF Orderly
    <3>3. j \in 1..Len(t)
      BY <1>1
    <3> QED BY <1>2, <3>2, <3>3
  <2> QED BY <2>1 DEF Orderly
<1>3. ASSUME Len(s) <= Len(t), \A i \in 1..Len(s) : t[i] = s[i], HasAccept(s)
      PROVE  HasAccept(t) /\ Orderly(t)
  <2>1. PICK k \in 1..Len(s) : s[k].is = "ACCEPT"
    BY <1>3 DEF HasAccept
  <2>2. k \in 1..Len(t) /\ t[k].is = "ACCEPT"
    BY <1>1, <1>3, <2>1
  <2>3. ASSUME NEW i \in 1..Len(t), t[i].is # "ACCEPT", t[i].is # "REJECT"
        PROVE  \E j \in 1..(i - 1) : t[j].is = "ACCEPT"
    <3>1. CASE i > k
      <4>1. k \in 1..(i - 1)
        BY <1>1, <3>1
      <4> QED BY <2>2, <4>1
    <3>2. CASE i <= k
      <4>1. i \in 1..Len(s) /\ t[i] = s[i]
        BY <1>1, <1>3, <3>2
      <4>2. PICK j \in 1..(i - 1) : s[j].is = "ACCEPT"
        BY <2>3, <4>1 DEF Orderly
      <4>3. j \in 1..Len(s)
        BY <1>1, <4>1
      <4> QED BY <1>3, <4>2, <4>3
    <3> QED BY <1>1, <3>1, <3>2
  <2> QED BY <2>2, <2>3 DEF HasAccept, Orderly
<1>4. ASSUME NEW u \in Units, u.is \in {"ACCEPT", "REJECT"} PROVE Orderly(Append(s, u))
  <2>0. PICK v : v = Append(s, u)
    OBVIOUS
  <2>1. Len(v) = Len(s) + 1 /\ v[Len(s) + 1] = u /\ \A i \in 1..Len(s) : v[i] = s[i]
    BY <2>0, AppendIs
  <2>2. ASSUME NEW i \in 1..Len(v), v[i].is # "ACCEPT", v[i].is # "REJECT"
        PROVE  \E j \in 1..(i - 1) : v[j].is = "ACCEPT"
    <3>1. i \in 1..Len(s)
      BY <1>1, <1>4, <2>1, <2>2
    <3>2. PICK j \in 1..(i - 1) : s[j].is = "ACCEPT"
      BY <2>1, <2>2, <3>1 DEF Orderly
    <3>3. j \in 1..Len(s)
      BY <1>1, <3>1
    <3> QED BY <2>1, <3>2, <3>3
  <2> QED BY <2>0, <2>2 DEF Orderly
<1> QED BY <1>2, <1>3, <1>4

LEMMA AcceptStep == TypeInv /\ TypeInv' /\ DueInv /\ RunInv /\ AcceptInv /\ [Next]_vars => AcceptInv'
<1> SUFFICES ASSUME TypeInv, TypeInv', DueInv, RunInv, AcceptInv, [Next]_vars PROVE AcceptInv'
  OBVIOUS
<1>1. PICK s \in Seq(Units), t \in Seq(Units) : s = Stream("client") /\ t = Stream("client")'
  BY SideIs, DeliveredIs
<1>2. Orderly(s) /\ (("client" \notin gone /\ ~HasAccept(s)) => Calm)
  BY <1>1 DEF AcceptInv, DataFollowsAccept, Orderly
<1>3. SUFFICES Orderly(t) /\ ("client" \notin gone' => HasAccept(t) \/ Calm')
  BY <1>1 DEF AcceptInv, DataFollowsAccept, Orderly
<1>4. Moves("server") /\ Other["server"] = "client" /\ Len(s) \in Nat /\ Len(t) \in Nat
  BY <1>1, SideIs, EveryMove DEF Other
\* What the client is told extends what it was told, unless it closes.
<1>5. \/ Len(s) <= Len(t) /\ (\A i \in 1..Len(s) : t[i] = s[i]) /\ ("client" \in gone' => "client" \in gone)
      \/ Len(t) <= Len(s) /\ (\A i \in 1..Len(t) : t[i] = s[i]) /\ "client" \in gone'
  <2>1. CASE t = s /\ KeepsGone("server")
    BY <1>4, <2>1 DEF KeepsGone
  <2>2. CASE Told("server") /\ KeepsGone("server")
    <3>1. CASE \E u \in Units : t = Append(s, u)
      <4>1. PICK u \in Units : t = Append(s, u)
        BY <3>1
      <4>2. Len(Append(s, u)) = Len(s) + 1 /\ \A i \in 1..Len(s) : Append(s, u)[i] = s[i]
        BY AppendIs
      <4>3. Len(s) <= Len(t) /\ \A i \in 1..Len(s) : t[i] = s[i]
        BY <1>4, <4>1, <4>2
      <4> QED BY <1>4, <2>2, <4>3 DEF KeepsGone
    <3> QED BY <1>1, <1>4, <2>1, <2>2, <3>1 DEF Told
  <2>3. CASE Closes("server")
    BY <1>1, <1>4, <2>3 DEF Closes
  <2>4. ASSUME NEW i \in Chain, Drains("server", i)
        PROVE  Len(s) <= Len(t) /\ (\A j \in 1..Len(s) : t[j] = s[j]) /\ KeepsGone("server")
    <3>1. PICK k \in 1..chain["server"][i].len :
            /\ KeepsGone("server") /\ Len(t) = Len(s) + k /\ \A j \in 1..Len(s) : t[j] = s[j]
      BY <1>1, <1>4, <2>4 DEF Drains
    <3>2. k \in Nat
      <4>1. chain["server"][i].len \in Nat
        BY SourceIs, SideIs DEF RelayType
      <4> QED BY <4>1
    <3> QED BY <1>4, <3>1, <3>2
  <2>5. \/ t = s /\ KeepsGone("server")
        \/ Told("server") /\ KeepsGone("server")
        \/ Closes("server")
        \/ \E i \in Chain : Drains("server", i)
    BY <1>1, <1>4 DEF Moves, Still, Sends, Loses, Asks, Fills, Takes, Rests, Speaks, Starts, KeepsSink
  <2> QED BY <1>4, <2>1, <2>2, <2>3, <2>4, <2>5 DEF KeepsGone
<1>6. CASE Len(t) <= Len(s) /\ (\A i \in 1..Len(t) : t[i] = s[i]) /\ "client" \in gone'
  BY <1>2, <1>6, OrderlyIs
<1>7. CASE Len(s) <= Len(t) /\ (\A i \in 1..Len(s) : t[i] = s[i]) /\ HasAccept(s)
  BY <1>2, <1>7, OrderlyIs
<1>8. CASE "client" \notin gone' /\ "client" \notin gone /\ ~HasAccept(s)
           /\ Len(s) <= Len(t) /\ (\A i \in 1..Len(s) : t[i] = s[i])
  <2>1. Calm
    BY <1>2, <1>8
  <2>2. HasAccept(t) \/ Calm'
    BY <1>1, <1>8, <2>1, CalmStep
  <2>3. t = s \/ \E u \in Units : u.is \in {"ACCEPT", "REJECT"} /\ t = Append(s, u)
    <3>1. ASSUME Told("server")
          PROVE  t = s \/ \E u \in Units : u.is \in {"ACCEPT", "REJECT"} /\ t = Append(s, u)
      <4>1. ASSUME NEW u \in Units, IsReply(u), u.is = "garbage" => late > 0
            PROVE  u.is \in {"ACCEPT", "REJECT"}
        BY <2>1, <4>1 DEF Units, IsReply, Calm
      <4> QED BY <1>1, <1>4, <3>1, <4>1 DEF Told
    <3>2. ~Closes("server")
      BY <1>4, <1>8 DEF Closes
    <3>3. ASSUME NEW i \in Chain, Drains("server", i) PROVE FALSE
      <4>1. chain["server"][i].st = "off"
        BY <2>1, SideIs DEF Calm, RunInv, Chain
      <4> QED BY <3>3, <4>1 DEF Drains
    <3> QED BY <1>1, <1>4, <3>1, <3>2, <3>3
            DEF Moves, Still, Sends, Loses, Asks, Fills, Takes, Rests, Speaks, Starts, KeepsSink
  <2>4. Orderly(t)
    BY <1>2, <2>3, OrderlyIs
  <2> QED BY <2>2, <2>4
<1>9. CASE /\ "client" \in gone /\ "client" \in gone' /\ ~HasAccept(s)
           /\ Len(s) <= Len(t) /\ (\A i \in 1..Len(s) : t[i] = s[i])
  <2>1. t = s
    <3>1. ASSUME Told("server") PROVE t = s
      BY <1>1, <1>4, <1>9, <3>1 DEF Told
    <3>2. ~Closes("server") /\ \A i \in Chain : ~Drains("server", i)
      BY <1>4, <1>9 DEF Closes, Drains
    <3> QED BY <1>1, <1>4, <3>1, <3>2
            DEF Moves, Still, Sends, Loses, Asks, Fills, Takes, Rests, Speaks, Starts, KeepsSink
  <2> QED BY <1>2, <1>9, <2>1
<1>10. "client" \in gone => "client" \in gone'
  <2>1. KeepsGone("server") \/ Closes("server")
    BY <1>4 DEF Moves, Still, Sends, Loses, Asks, Fills, Takes, Drains, Rests, Speaks, Starts, KeepsSink
  <2> QED BY <1>4, <2>1 DEF KeepsGone, Closes
<1> QED BY <1>5, <1>6, <1>7, <1>8, <1>9, <1>10

\* The streams of both directions are kept, and the client gets no data before an ACCEPT:
\* for every request, every resolver's answer that a socket has room to reply to, and any
\* amount of data.
THEOREM RelaysStream == Spec => RelaysAreStreams
<1>1. AcceptInv => DataFollowsAccept
  BY DEF AcceptInv
<1>2. Spec => []DataFollowsAccept
  BY <1>1, AcceptInit, AcceptStep, TypesHold, DueAlways, RunAlways, PTL DEF Spec
<1> QED BY <1>2, RelaysRefineStreams DEF RelaysAreStreams
=============================================================================
