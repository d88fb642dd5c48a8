----------------------- MODULE VerifierProtocolProofs -----------------------
(***************************************************************************)
(* The packets of the verifier protocol for every message, every sequence  *)
(* of bytes and every limit.  The text validator and the reader of the     *)
(* secret pipe are loops; what they compute is proved by the least number  *)
(* that contradicts it.                                                    *)
(***************************************************************************)
EXTENDS MCVerifier, WellFoundedInduction, TLAPS

\* A leaf that names no prover is for Zenon.
USE ZenonT(60)

-----------------------------------------------------------------------------
(* Loops.                                                                  *)

\* Every set of numbers that is not empty has a least one.
LEMMA Least ==
    ASSUME NEW T, T \subseteq Nat, T # {}
    PROVE  \E x \in T : \A y \in T : x <= y
<1>1. \E x \in T : \A y \in T : ~(y < x)
  <2> DEFINE R == OpToRel(<, Nat)
  <2>1. IsWellFoundedOn(R, Nat)
    BY NatLessThanWellFounded
  <2>2. \A x \in Nat, y \in Nat : <<y, x>> \in R <=> y < x
    BY SMTT(60) DEF OpToRel
  <2> HIDE DEF R
  <2>3. \E x \in T : \A y \in T : ~(<<y, x>> \in R)
    BY <2>1, WFMin
  <2> QED
    BY <2>2, <2>3
<1> QED
  BY SMTT(60), <1>1

\* The characters that may begin at each byte of a text of length n.
Jumps(n) == {J \in [1 .. n -> SUBSET Nat] : \A i \in 1 .. n : \A k \in J[i] : k >= 1 /\ i + k <= n + 1}

\* The text from a byte on is a sequence of characters.
Reaches(n, J, f, i) == f[i] = (i <= n => \E k \in J[i] : f[i + k])

Loops(n, J, f) == \A i \in 1 .. n + 1 : Reaches(n, J, f, i)

\* The loop over the characters computes something,
LEMMA LoopExists ==
    ASSUME NEW n \in Nat, NEW J \in Jumps(n)
    PROVE  \E f \in [1 .. n + 1 -> BOOLEAN] : \A i \in 1 .. n + 1 : Reaches(n, J, f, i)
<1> DEFINE From1(m) == \E f \in [1 .. n + 1 -> BOOLEAN] : \A i \in n + 1 - m .. n + 1 : Reaches(n, J, f, i)
           T == {m \in 0 .. n : ~From1(m)}
<1>0. J \in [1 .. n -> SUBSET Nat] /\ \A i \in 1 .. n : \A k \in J[i] : k >= 1 /\ i + k <= n + 1
  BY SMTT(60) DEF Jumps
<1>1. From1(0)
  <2> DEFINE f == [i \in 1 .. n + 1 |-> TRUE]
  <2>1. f \in [1 .. n + 1 -> BOOLEAN]
    BY SMTT(60)
  <2>2. \A i \in n + 1 - 0 .. n + 1 : ~(i <= n) /\ i \in 1 .. n + 1
    BY SMTT(30)
  <2>3. \A i \in n + 1 - 0 .. n + 1 : Reaches(n, J, f, i)
    BY <2>2 DEF Reaches
  <2> QED
    BY <2>1, <2>3
<1>2. ASSUME NEW m \in 1 .. n, From1(m - 1) PROVE From1(m)
  <2>1. PICK f \in [1 .. n + 1 -> BOOLEAN] : \A i \in n + 1 - (m - 1) .. n + 1 : Reaches(n, J, f, i)
    BY SMTT(60), <1>2
  <2>2. PICK p \in 1 .. n : p = n + 1 - m /\ p \in 1 .. n + 1
    BY SMTT(30)
  <2>3. PICK v \in BOOLEAN : v = \E k \in J[p] : f[p + k]
    OBVIOUS
  <2>4. PICK g \in [1 .. n + 1 -> BOOLEAN] : g[p] = v /\ \A i \in 1 .. n + 1 : i # p => g[i] = f[i]
    <3>1. [f EXCEPT ![p] = v] \in [1 .. n + 1 -> BOOLEAN]
      OBVIOUS
    <3>2. /\ [f EXCEPT ![p] = v][p] = v
          /\ \A i \in 1 .. n + 1 : i # p => [f EXCEPT ![p] = v][i] = f[i]
      BY <2>2
    <3> QED
      BY <3>1, <3>2
  <2>5. ASSUME NEW i \in 1 .. n, i >= p, NEW k \in J[i] PROVE g[i + k] = f[i + k]
    <3>1. k \in Nat /\ k >= 1 /\ i + k <= n + 1
      BY SMTT(60), <1>0, <2>5
    <3>2. i + k \in 1 .. n + 1 /\ i + k # p
      BY SMTT(30), <2>5, <3>1
    <3> QED
      BY <2>4, <3>2
  <2>6. ASSUME NEW i \in n + 1 - m .. n + 1 PROVE Reaches(n, J, g, i)
    <3>1. CASE i = p
      <4>1. i <= n /\ i >= p /\ i \in 1 .. n
        BY SMTT(30), <3>1
      <4>2. \A k \in J[i] : g[i + k] = f[i + k]
        BY <2>5, <4>1
      <4> QED
        BY <2>3, <2>4, <3>1, <4>1, <4>2 DEF Reaches
    <3>2. CASE i # p
      <4>1. i \in n + 1 - (m - 1) .. n + 1 /\ i \in 1 .. n + 1 /\ i >= p /\ (i <= n => i \in 1 .. n)
        BY SMTT(30), <2>2, <3>2
      <4>2. Reaches(n, J, f, i) /\ g[i] = f[i]
        BY <2>1, <2>4, <3>2, <4>1
      <4>3. i <= n => \A k \in J[i] : g[i + k] = f[i + k]
        BY <2>5, <4>1
      <4> QED
        BY <4>2, <4>3 DEF Reaches
    <3> QED
      BY SMTT(60), <3>1, <3>2
  <2> QED
    BY <2>6
<1> HIDE DEF From1
<1>3. ASSUME T # {} PROVE FALSE
  <2>1. T \subseteq Nat
    BY SMTT(30)
  <2>2. PICK m \in T : \A y \in T : m <= y
    BY <1>3, <2>1, Least
  <2>3. m \in 0 .. n /\ ~From1(m)
    BY SMTT(60)
  <2>4. m # 0 /\ m \in 1 .. n /\ m - 1 \in 0 .. n /\ ~(m <= m - 1)
    BY SMTT(30), <1>1, <2>3
  <2>5. m - 1 \notin T
    BY SMTT(60), <2>2, <2>4
  <2> QED
    BY SMTT(60), <1>2, <2>3, <2>4, <2>5
<1>4. From1(n)
  BY SMTT(30), <1>3
<1>5. n + 1 - n = 1
  BY SMTT(30)
<1> QED
  BY SMTT(60), <1>4, <1>5 DEF From1

\* and nothing else.
LEMMA LoopUnique ==
    ASSUME NEW n \in Nat, NEW J \in Jumps(n), NEW f, NEW g,
           Loops(n, J, f), Loops(n, J, g)
    PROVE  \A i \in 1 .. n + 1 : f[i] = g[i]
<1> DEFINE T == {m \in 0 .. n : f[n + 1 - m] # g[n + 1 - m]}
<1>0. J \in [1 .. n -> SUBSET Nat] /\ \A i \in 1 .. n : \A k \in J[i] : k >= 1 /\ i + k <= n + 1
  BY SMTT(60) DEF Jumps
<1>1. ASSUME T # {} PROVE FALSE
  <2>1. T \subseteq Nat
    BY SMTT(30)
  <2>2. PICK m \in T : \A y \in T : m <= y
    BY <1>1, <2>1, Least
  <2>3. PICK p \in 1 .. n + 1 : p = n + 1 - m /\ f[p] # g[p]
    BY SMTT(30)
  <2>4. ASSUME p <= n, NEW k \in J[p] PROVE f[p + k] = g[p + k]
    <3>1. p \in 1 .. n
      BY SMTT(30), <2>4
    <3>2. k \in Nat /\ k >= 1 /\ p + k <= n + 1
      BY SMTT(60), <1>0, <2>4, <3>1
    <3>3. n + 1 - (p + k) \in 0 .. n /\ ~(m <= n + 1 - (p + k)) /\ n + 1 - (n + 1 - (p + k)) = p + k
      BY SMTT(30), <2>3, <3>2
    <3>4. n + 1 - (p + k) \notin T
      BY <2>2, <3>3
    <3> QED
      BY <3>3, <3>4
  <2>5. f[p] = g[p]
    BY <2>4 DEF Loops, Reaches
  <2> QED
    BY SMTT(60), <2>3, <2>5
<1> QED
  <2> SUFFICES ASSUME NEW i \in 1 .. n + 1 PROVE f[i] = g[i]
    BY SMTT(60)
  <2>1. n + 1 - i \in 0 .. n /\ n + 1 - (n + 1 - i) = i
    BY SMTT(30)
  <2>2. n + 1 - i \notin T
    BY <1>1
  <2> QED
    BY <2>1, <2>2

-----------------------------------------------------------------------------
(* Characters.                                                             *)

\* The first byte of a character of each size.
Lead1(f) == f \in 32 .. 126
Lead2(f) == f \in 194 .. 223
Lead3(f) == f \in 224 .. 239
Lead4(f) == f \in 240 .. 244

\* The second bytes, as inequalities.
LEMMA SecondByteRanges ==
    ASSUME NEW a \in Bytes, NEW b \in Bytes
    PROVE  b \in SecondByte(a) <=>
             /\ 128 <= b /\ b <= 191
             /\ a = 194 => 160 <= b
             /\ a = 224 => 160 <= b
             /\ a = 237 => b <= 159
             /\ a = 240 => 144 <= b
             /\ a = 244 => b <= 143
<1>1. CASE a = 194 
  <2>1. SecondByte(a) = 160 .. 191
    BY SMTT(30), <1>1 DEF SecondByte
  <2> QED
    BY SMTT(30), <1>1, <2>1 DEF Bytes
<1>2. CASE a = 224
  <2>1. SecondByte(a) = 160 .. 191
    BY SMTT(30), <1>2 DEF SecondByte
  <2> QED
    BY SMTT(30), <1>2, <2>1 DEF Bytes
<1>3. CASE a = 237
  <2>1. SecondByte(a) = 128 .. 159
    BY SMTT(30), <1>3 DEF SecondByte
  <2> QED
    BY SMTT(30), <1>3, <2>1 DEF Bytes
<1>4. CASE a = 240
  <2>1. SecondByte(a) = 144 .. 191
    BY SMTT(30), <1>4 DEF SecondByte
  <2> QED
    BY SMTT(30), <1>4, <2>1 DEF Bytes
<1>5. CASE a = 244
  <2>1. SecondByte(a) = 128 .. 143
    BY SMTT(30), <1>5 DEF SecondByte
  <2> QED
    BY SMTT(30), <1>5, <2>1 DEF Bytes
<1>6. CASE a \notin {194, 224, 237, 240, 244}
  <2>1. SecondByte(a) = 128 .. 191
    BY SMTT(30), <1>6 DEF SecondByte
  <2> QED
    BY SMTT(30), <1>6, <2>1 DEF Bytes
<1> QED
  BY <1>1, <1>2, <1>3, <1>4, <1>5, <1>6

\* The code point by the number of bytes.
LEMMA CodePointCases ==
    ASSUME NEW b
    PROVE  /\ Len(b) = 1 => CodePoint(b) = b[1]
           /\ Len(b) = 2 => CodePoint(b) = (b[1] % 32) * 64 + (b[2] % 64)
           /\ Len(b) = 3 => CodePoint(b) = (b[1] % 16) * 64^2 + (b[2] % 64) * 64 + (b[3] % 64)
           /\ Len(b) = 4 => CodePoint(b) = (b[1] % 8) * 64^3 + (b[2] % 64) * 64^2 + (b[3] % 64) * 64 + (b[4] % 64)
<1>1. 1 # 2 /\ 1 # 3 /\ 1 # 4 /\ 2 # 3 /\ 2 # 4 /\ 3 # 4
  BY SMTT(30)
<1> QED
  BY <1>1 DEF CodePoint

\* A character of one byte,
LEMMA OneByte == ASSUME NEW a \in Bytes PROVE IsCharacter(<<a>>) <=> Lead1(a)
<1>1. CodePoint(<<a>>) = a
  <2>1. Len(<<a>>) = 1 /\ <<a>>[1] = a
    BY SMTT(30)
  <2> QED
    BY <2>1, CodePointCases
<1>2. a \in Nat /\ a <= 255
  BY SMTT(30) DEF Bytes
<1>3. CASE a < 128
  <2>1. Utf8(a) = <<a>>
    BY SMTT(30), <1>3 DEF Utf8
  <2>2. Displayable(a) <=> Lead1(a)
    BY SMTT(30), <1>2, <1>3 DEF Displayable, Lead1
  <2> QED
    BY <1>1, <2>1, <2>2 DEF IsCharacter
<1>4. CASE ~(a < 128)
  <2>1. Len(Utf8(a)) = 2
    BY SMTT(30), <1>2, <1>4 DEF Utf8
  <2>2. Len(<<a>>) # 2 /\ ~Lead1(a)
    BY SMTT(30), <1>2, <1>4 DEF Lead1
  <2> QED
    BY <1>1, <2>1, <2>2 DEF IsCharacter
<1> QED
  BY <1>3, <1>4

\* The digits of a number of base 64.
LEMMA Digits ==
    ASSUME NEW u \in Nat, NEW v \in Nat
    PROVE  /\ v < 64 => (u * 64 + v) \div 64 = u /\ (u * 64 + v) % 64 = v
           /\ v < 64^2 => (u * 64^2 + v) \div 64^2 = u
           /\ v < 64^3 => (u * 64^3 + v) \div 64^3 = u
<1>1. v < 64 => (u * 64 + v) \div 64 = u /\ (u * 64 + v) % 64 = v
  BY SMTT(30)
<1>2. v < 64^2 => (u * 64^2 + v) \div 64^2 = u
  BY SMTT(30)
<1>3. v < 64^3 => (u * 64^3 + v) \div 64^3 = u
  BY SMTT(30)
<1> QED
  BY SMTT(60), <1>1, <1>2, <1>3

\* of two,
LEMMA TwoBytes ==
    ASSUME NEW a \in Bytes, NEW b \in Bytes
    PROVE  IsCharacter(<<a, b>>) <=> Lead2(a) /\ b \in SecondByte(a)
<1>0. a \in Nat /\ a <= 255 /\ b \in Nat /\ b <= 255
  BY SMTT(30) DEF Bytes
<1>1. PICK x \in Nat : x = a % 32 /\ x <= 31
  BY SMTT(30), <1>0
<1>2. PICK y \in Nat : y = b % 64 /\ y <= 63
  BY SMTT(30), <1>0
<1>3. PICK c \in Nat : c = x * 64 + y
  BY SMTT(30)
<1>4. CodePoint(<<a, b>>) = c
  <2>1. Len(<<a, b>>) = 2 /\ <<a, b>>[1] = a /\ <<a, b>>[2] = b
    BY SMTT(30)
  <2> QED
    BY <1>1, <1>2, <1>3, <2>1, CodePointCases
<1>5. c \div 64 = x /\ c % 64 = y
  BY SMTT(30), <1>1, <1>2, <1>3
<1>10. c < 2048
  BY SMTT(30), <1>1, <1>2, <1>3
<1>6. Utf8(c) = <<a, b>> <=> c >= 128 /\ a = 192 + x /\ b = 128 + y
  <2>1. CASE c < 128
    <3>1. Utf8(c) = <<c>>
      BY SMTT(30), <2>1 DEF Utf8
    <3>2. <<c>> # <<a, b>> /\ ~(c >= 128)
      BY SMTT(30), <2>1
    <3> QED
      BY <3>1, <3>2
  <2>2. CASE c >= 128
    <3>1. Utf8(c) = <<192 + c \div 64, 128 + (c % 64)>>
      BY SMTT(30), <1>10, <2>2 DEF Utf8
    <3>2. Utf8(c) = <<192 + x, 128 + y>>
      BY <1>5, <3>1
    <3> QED
      BY SMTT(30), <2>2, <3>2
  <2> QED
    BY SMTT(30), <2>1, <2>2
<1>7. Displayable(c) /\ c >= 128 <=> c >= 160
  BY SMTT(30), <1>10 DEF Displayable
<1>8. Lead2(a) /\ b \in SecondByte(a) <=>
        194 <= a /\ a <= 223 /\ 128 <= b /\ b <= 191 /\ (a = 194 => 160 <= b)
  BY SMTT(30), <1>0, SecondByteRanges DEF Lead2
<1>9. c >= 160 /\ a = 192 + x /\ b = 128 + y <=>
        194 <= a /\ a <= 223 /\ 128 <= b /\ b <= 191 /\ (a = 194 => 160 <= b)
  BY SMTT(30), <1>0, <1>1, <1>2, <1>3
<1> QED
  BY <1>4, <1>6, <1>7, <1>8, <1>9 DEF IsCharacter

\* of three,
LEMMA ThreeBytes ==
    ASSUME NEW a \in Bytes, NEW b \in Bytes, NEW d \in Bytes
    PROVE  IsCharacter(<<a, b, d>>) <=>
             Lead3(a) /\ b \in SecondByte(a) /\ IsContinuationByte(d)
<1>0. a \in Nat /\ a <= 255 /\ b \in Nat /\ b <= 255 /\ d \in Nat /\ d <= 255
  BY SMTT(30) DEF Bytes
<1>1. PICK x \in Nat : x = a % 16 /\ x <= 15
  BY SMTT(30), <1>0
<1>2. PICK y \in Nat : y = b % 64 /\ y <= 63
  BY SMTT(30), <1>0
<1>3. PICK z \in Nat : z = d % 64 /\ z <= 63
  BY SMTT(30), <1>0
<1>4. PICK c \in Nat : c = x * 64^2 + y * 64 + z
  BY SMTT(30)
<1>5. CodePoint(<<a, b, d>>) = c
  <2>1. Len(<<a, b, d>>) = 3 /\ <<a, b, d>>[1] = a /\ <<a, b, d>>[2] = b /\ <<a, b, d>>[3] = d
    BY SMTT(30)
  <2> QED
    BY <1>1, <1>2, <1>3, <1>4, <2>1, CodePointCases
<1>6. c \div 64^2 = x /\ (c \div 64) % 64 = y /\ c % 64 = z
  <2>1. c = x * 64^2 + (y * 64 + z) /\ y * 64 + z \in Nat /\ y * 64 + z < 64^2
    BY SMTT(30), <1>2, <1>3, <1>4
  <2>2. c = (x * 64 + y) * 64 + z /\ x * 64 + y \in Nat /\ y < 64 /\ z < 64
    BY SMTT(30), <1>2, <1>3, <1>4
  <2>3. c \div 64^2 = x
    BY <2>1, Digits
  <2>4. c \div 64 = x * 64 + y /\ c % 64 = z
    BY <2>2, Digits
  <2>5. (x * 64 + y) % 64 = y
    BY <2>2, Digits
  <2> QED
    BY <2>3, <2>4, <2>5
<1>7. c < 65536
  BY SMTT(30), <1>1, <1>2, <1>3, <1>4
<1>8. Utf8(c) = <<a, b, d>> <=> c >= 2^11 /\ a = 224 + x /\ b = 128 + y /\ d = 128 + z
  <2>1. CASE ~(c >= 2^11)
    <3>1. Len(Utf8(c)) # 3
      BY SMTT(30), <2>1 DEF Utf8
    <3>2. Len(<<a, b, d>>) = 3
      BY SMTT(30)
    <3> QED
      BY <2>1, <3>1, <3>2
  <2>2. CASE c >= 2^11
    <3>1. Utf8(c) = <<224 + c \div 64^2, 128 + ((c \div 64) % 64), 128 + (c % 64)>>
      BY SMTT(30), <1>7, <2>2 DEF Utf8
    <3>2. Utf8(c) = <<224 + x, 128 + y, 128 + z>>
      BY <1>6, <3>1
    <3> QED
      BY SMTT(30), <2>2, <3>2
  <2> QED
    BY <2>1, <2>2
<1>9. Displayable(c) /\ c >= 2^11 <=> c >= 2^11 /\ ~(c >= 27 * 2^11 /\ c < 28 * 2^11)
  BY SMTT(30), <1>7 DEF Displayable
<1>10. Lead3(a) /\ b \in SecondByte(a) /\ IsContinuationByte(d) <=>
         /\ 224 <= a /\ a <= 239 /\ 128 <= b /\ b <= 191 /\ 128 <= d /\ d <= 191
         /\ (a = 224 => 160 <= b) /\ (a = 237 => b <= 159)
  BY SMTT(30), <1>0, SecondByteRanges DEF IsContinuationByte, Lead3
<1>11. /\ a = 224 + x <=> 224 <= a /\ a <= 239
       /\ b = 128 + y <=> 128 <= b /\ b <= 191
       /\ d = 128 + z <=> 128 <= d /\ d <= 191
  BY SMTT(30), <1>0, <1>1, <1>2, <1>3
<1>12. ASSUME a = 224 + x, b = 128 + y
       PROVE  c >= 2^11 /\ ~(c >= 27 * 2^11 /\ c < 28 * 2^11) <=>
                (a = 224 => 160 <= b) /\ (a = 237 => b <= 159)
  BY SMTT(30), <1>0, <1>1, <1>2, <1>3, <1>4, <1>12
<1> QED
  BY <1>5, <1>8, <1>9, <1>10, <1>11, <1>12 DEF IsCharacter

\* and of four.
LEMMA FourBytes ==
    ASSUME NEW a \in Bytes, NEW b \in Bytes, NEW d \in Bytes, NEW e \in Bytes
    PROVE  IsCharacter(<<a, b, d, e>>) <=>
             /\ Lead4(a) /\ b \in SecondByte(a)
             /\ IsContinuationByte(d) /\ IsContinuationByte(e)
<1>0. a \in Nat /\ a <= 255 /\ b \in Nat /\ b <= 255 /\ d \in Nat /\ d <= 255 /\ e \in Nat /\ e <= 255
  BY SMTT(30) DEF Bytes
<1>1. PICK x \in Nat : x = a % 8 /\ x <= 7
  BY SMTT(30), <1>0
<1>2. PICK y \in Nat : y = b % 64 /\ y <= 63
  BY SMTT(30), <1>0
<1>3. PICK z \in Nat : z = d % 64 /\ z <= 63
  BY SMTT(30), <1>0
<1>4. PICK w \in Nat : w = e % 64 /\ w <= 63
  BY SMTT(30), <1>0
<1>5. PICK c \in Nat : c = x * 64^3 + y * 64^2 + z * 64 + w
  BY SMTT(30)
<1>6. CodePoint(<<a, b, d, e>>) = c
  <2>1. /\ Len(<<a, b, d, e>>) = 4 /\ <<a, b, d, e>>[1] = a /\ <<a, b, d, e>>[2] = b
        /\ <<a, b, d, e>>[3] = d /\ <<a, b, d, e>>[4] = e
    BY SMTT(30)
  <2> QED
    BY <1>1, <1>2, <1>3, <1>4, <1>5, <2>1, CodePointCases
<1>7. c \div 64^3 = x /\ (c \div 64^2) % 64 = y /\ (c \div 64) % 64 = z /\ c % 64 = w
  <2>1. /\ c = x * 64^3 + (y * 64^2 + z * 64 + w) /\ y * 64^2 + z * 64 + w \in Nat
        /\ y * 64^2 + z * 64 + w < 64^3
    BY SMTT(30), <1>2, <1>3, <1>4, <1>5
  <2>2. /\ c = (x * 64 + y) * 64^2 + (z * 64 + w) /\ x * 64 + y \in Nat
        /\ z * 64 + w \in Nat /\ z * 64 + w < 64^2 /\ y < 64
    BY SMTT(30), <1>2, <1>3, <1>4, <1>5
  <2>3. /\ c = ((x * 64 + y) * 64 + z) * 64 + w /\ (x * 64 + y) * 64 + z \in Nat
        /\ z < 64 /\ w < 64
    BY SMTT(30), <1>2, <1>3, <1>4, <1>5
  <2>4. c \div 64^3 = x
    BY <2>1, Digits
  <2>5. c \div 64^2 = x * 64 + y
    BY <2>2, Digits
  <2>6. (x * 64 + y) % 64 = y
    BY <2>2, Digits
  <2>7. c \div 64 = (x * 64 + y) * 64 + z /\ c % 64 = w
    BY <2>3, Digits
  <2>8. ((x * 64 + y) * 64 + z) % 64 = z
    BY <2>2, <2>3, Digits
  <2> QED
    BY <2>4, <2>5, <2>6, <2>7, <2>8
<1>8. Utf8(c) = <<a, b, d, e>> <=>
        c >= 2^16 /\ a = 240 + x /\ b = 128 + y /\ d = 128 + z /\ e = 128 + w
  <2>1. CASE ~(c >= 2^16)
    <3>1. Len(Utf8(c)) # 4
      BY SMTT(30), <2>1 DEF Utf8
    <3>2. Len(<<a, b, d, e>>) = 4
      BY SMTT(30)
    <3> QED
      BY <2>1, <3>1, <3>2
  <2>2. CASE c >= 2^16
    <3>1. Utf8(c) = <<240 + c \div 64^3, 128 + ((c \div 64^2) % 64), 128 + ((c \div 64) % 64), 128 + (c % 64)>>
      BY SMTT(30), <2>2 DEF Utf8
    <3>2. Utf8(c) = <<240 + x, 128 + y, 128 + z, 128 + w>>
      BY <1>7, <3>1
    <3> QED
      BY SMTT(30), <2>2, <3>2
  <2> QED
    BY <2>1, <2>2
<1>9. Displayable(c) /\ c >= 2^16 <=> c >= 2^16 /\ c < 17 * 2^16
  BY SMTT(30) DEF Displayable
<1>10. Lead4(a) /\ b \in SecondByte(a) /\ IsContinuationByte(d) /\ IsContinuationByte(e) <=>
         /\ 240 <= a /\ a <= 244 /\ 128 <= b /\ b <= 191 /\ 128 <= d /\ d <= 191
         /\ 128 <= e /\ e <= 191 /\ (a = 240 => 144 <= b) /\ (a = 244 => b <= 143)
  BY SMTT(30), <1>0, SecondByteRanges DEF IsContinuationByte, Lead4
<1>11. /\ a = 240 + x <=> 240 <= a /\ a <= 247
       /\ b = 128 + y <=> 128 <= b /\ b <= 191
       /\ d = 128 + z <=> 128 <= d /\ d <= 191
       /\ e = 128 + w <=> 128 <= e /\ e <= 191
  BY SMTT(30), <1>0, <1>1, <1>2, <1>3, <1>4
<1>12. ASSUME a = 240 + x, b = 128 + y
       PROVE  c >= 2^16 /\ c < 17 * 2^16 <=>
                a <= 244 /\ (a = 240 => 144 <= b) /\ (a = 244 => b <= 143)
  BY SMTT(30), <1>0, <1>1, <1>2, <1>3, <1>4, <1>5, <1>12
<1>13. a <= 244 => a <= 247
  BY SMTT(30), <1>0
<1>14. IsCharacter(<<a, b, d, e>>) <=>
         /\ c >= 2^16 /\ c < 17 * 2^16
         /\ a = 240 + x /\ b = 128 + y /\ d = 128 + z /\ e = 128 + w
  BY <1>6, <1>8, <1>9 DEF IsCharacter
<1>15. IsCharacter(<<a, b, d, e>>) <=>
         /\ a <= 244 /\ (a = 240 => 144 <= b) /\ (a = 244 => b <= 143)
         /\ a = 240 + x /\ b = 128 + y /\ d = 128 + z /\ e = 128 + w
  BY <1>12, <1>14
<1>16. IsCharacter(<<a, b, d, e>>) <=>
         /\ a <= 244 /\ (a = 240 => 144 <= b) /\ (a = 244 => b <= 143)
         /\ 240 <= a /\ a <= 247 /\ 128 <= b /\ b <= 191 /\ d = 128 + z /\ e = 128 + w
  BY <1>11, <1>15
<1>17. IsCharacter(<<a, b, d, e>>) <=>
         /\ a <= 244 /\ (a = 240 => 144 <= b) /\ (a = 244 => b <= 143)
         /\ 240 <= a /\ a <= 247 /\ 128 <= b /\ b <= 191
         /\ 128 <= d /\ d <= 191 /\ 128 <= e /\ e <= 191
  BY <1>11, <1>16
<1> QED
  BY <1>10, <1>13, <1>17

\* The first bytes tell the sizes apart.
LEMMA FirstBytes ==
    ASSUME NEW f \in Bytes
    PROVE  /\ Lead1(f) => ~Lead2(f) /\ ~Lead3(f) /\ ~Lead4(f)
           /\ Lead2(f) => ~Lead3(f) /\ ~Lead4(f)
           /\ Lead3(f) => ~Lead4(f)
  BY SMTT(30) DEF Bytes, Lead1, Lead2, Lead3, Lead4

\* The first byte decides the size.
LEMMA CharacterSizes ==
    ASSUME NEW f \in Bytes
    PROVE  /\ Lead1(f) => CharacterSize(f) = 1
           /\ Lead2(f) => CharacterSize(f) = 2
           /\ Lead3(f) => CharacterSize(f) = 3
           /\ Lead4(f) => CharacterSize(f) = 4
           /\ ~Lead1(f) /\ ~Lead2(f) /\ ~Lead3(f) /\ ~Lead4(f) => CharacterSize(f) = 0
<1>1. CharacterSize(f) =
        CASE Lead1(f) -> 1 [] Lead2(f) -> 2 [] Lead3(f) -> 3 [] Lead4(f) -> 4 [] OTHER -> 0
  BY SMTT(60) DEF CharacterSize, Lead1, Lead2, Lead3, Lead4
<1> QED
  BY <1>1, FirstBytes

\* What CharacterAt answers, by the first byte.
LEMMA CharacterAtCases ==
    ASSUME NEW text \in Seq(Bytes), NEW i \in 1 .. Len(text)
    PROVE  /\ Lead1(text[i]) => CharacterAt(text, i) = 1
           /\ Lead2(text[i]) =>
                CharacterAt(text, i) =
                    IF i + 1 <= Len(text) /\ text[i + 1] \in SecondByte(text[i]) THEN 2 ELSE 0
           /\ Lead3(text[i]) =>
                CharacterAt(text, i) =
                    IF /\ i + 2 <= Len(text) /\ text[i + 1] \in SecondByte(text[i])
                       /\ IsContinuationByte(text[i + 2]) THEN 3 ELSE 0
           /\ Lead4(text[i]) =>
                CharacterAt(text, i) =
                    IF /\ i + 3 <= Len(text) /\ text[i + 1] \in SecondByte(text[i])
                       /\ IsContinuationByte(text[i + 2]) /\ IsContinuationByte(text[i + 3]) THEN 4 ELSE 0
           /\ ~Lead1(text[i]) /\ ~Lead2(text[i]) /\ ~Lead3(text[i]) /\ ~Lead4(text[i]) => CharacterAt(text, i) = 0
<1>0. i \in Nat /\ Len(text) \in Nat /\ i <= Len(text) /\ text[i] \in Bytes
  BY SMTT(30)
<1>1. ASSUME Lead1(text[i]) PROVE CharacterAt(text, i) = 1
  <2>1. CharacterSize(text[i]) = 1
    BY <1>0, <1>1, CharacterSizes
  <2>2. i + 1 - 1 <= Len(text) /\ ~(1 >= 2) /\ 2 .. 1 - 1 = {}
    BY SMTT(30), <1>0
  <2> QED
    BY <2>1, <2>2 DEF CharacterAt
<1>2. ASSUME Lead2(text[i])
      PROVE  CharacterAt(text, i) =
                    IF i + 1 <= Len(text) /\ text[i + 1] \in SecondByte(text[i]) THEN 2 ELSE 0
  <2>1. CharacterSize(text[i]) = 2
    BY <1>0, <1>2, CharacterSizes
  <2>2. i + 2 - 1 = i + 1 /\ 2 >= 2 /\ 2 .. 2 - 1 = {}
    BY SMTT(30), <1>0
  <2> QED
    BY <2>1, <2>2 DEF CharacterAt
<1>3. ASSUME Lead3(text[i])
      PROVE  CharacterAt(text, i) =
                    IF /\ i + 2 <= Len(text) /\ text[i + 1] \in SecondByte(text[i])
                       /\ IsContinuationByte(text[i + 2]) THEN 3 ELSE 0
  <2>1. CharacterSize(text[i]) = 3
    BY <1>0, <1>3, CharacterSizes
  <2>2. i + 3 - 1 = i + 2 /\ 3 >= 2 /\ 2 .. 3 - 1 = {2}
    BY SMTT(30), <1>0
  <2> QED
    BY <2>1, <2>2 DEF CharacterAt
<1>4. ASSUME Lead4(text[i])
      PROVE  CharacterAt(text, i) =
                    IF /\ i + 3 <= Len(text) /\ text[i + 1] \in SecondByte(text[i])
                       /\ IsContinuationByte(text[i + 2]) /\ IsContinuationByte(text[i + 3]) THEN 4 ELSE 0
  <2>1. CharacterSize(text[i]) = 4
    BY <1>0, <1>4, CharacterSizes
  <2>2. i + 4 - 1 = i + 3 /\ 4 >= 2 /\ 2 .. 4 - 1 = {2, 3}
    BY SMTT(30), <1>0
  <2> QED
    BY <2>1, <2>2 DEF CharacterAt
<1>5. ASSUME ~Lead1(text[i]) /\ ~Lead2(text[i]) /\ ~Lead3(text[i]) /\ ~Lead4(text[i]) PROVE CharacterAt(text, i) = 0
  <2>1. CharacterSize(text[i]) = 0
    BY <1>0, <1>5, CharacterSizes
  <2> QED
    BY <2>1 DEF CharacterAt
<1> QED
  BY <1>1, <1>2, <1>3, <1>4, <1>5

\* Sequences of the same length with the same members are the same.
LEMMA SameMembers ==
    ASSUME NEW S, NEW s \in Seq(S), NEW t \in Seq(S), Len(s) = Len(t),
           \A k \in 1 .. Len(s) : s[k] = t[k]
    PROVE  s = t
BY SMTT(60)

\* A few bytes of a text.
LEMMA Slice ==
    ASSUME NEW text \in Seq(Bytes), NEW i \in Nat \ {0}, NEW n \in Nat, i + n - 1 <= Len(text)
    PROVE  /\ SubSeq(text, i, i + n - 1) \in Seq(Bytes) /\ Len(SubSeq(text, i, i + n - 1)) = n
           /\ \A k \in 1 .. n : SubSeq(text, i, i + n - 1)[k] = text[i + k - 1]
<1>1. \A k \in i .. i + n - 1 : text[k] \in Bytes
  BY SMTT(30)
<1>2. i \in Int /\ i + n - 1 \in Int
  BY SMTT(30)
<1>3. PICK j \in Int : j = i + n - 1
  BY <1>2
<1>4. \A k \in i .. j : text[k] \in Bytes
  BY <1>1, <1>3
<1>5. /\ SubSeq(text, i, j) \in Seq(Bytes) /\ Len(SubSeq(text, i, j)) = IF i <= j THEN j - i + 1 ELSE 0
      /\ \A k \in 1 .. j - i + 1 : SubSeq(text, i, j)[k] = text[i + k - 1]
  BY SMTT(30), <1>2, <1>4
<1>6. j - i + 1 = n /\ (IF i <= j THEN j - i + 1 ELSE 0) = n
  BY SMTT(30), <1>3
<1> QED
  BY <1>3, <1>5, <1>6

\* A short sequence is the tuple of its members.
LEMMA Tuples ==
    ASSUME NEW u \in Seq(Bytes)
    PROVE  /\ Len(u) = 1 => u = <<u[1]>>
           /\ Len(u) = 2 => u = <<u[1], u[2]>>
           /\ Len(u) = 3 => u = <<u[1], u[2], u[3]>>
           /\ Len(u) = 4 => u = <<u[1], u[2], u[3], u[4]>>
<1>1. ASSUME Len(u) = 1 PROVE u = <<u[1]>>
  <2>1. PICK t \in Seq(Bytes) : t = <<u[1]>> /\ Len(u) = Len(t) /\ \A k \in 1 .. Len(u) : u[k] = t[k]
    BY SMTT(30), <1>1
  <2> QED
    BY <2>1, SameMembers
<1>2. ASSUME Len(u) = 2 PROVE u = <<u[1], u[2]>>
  <2>1. PICK t \in Seq(Bytes) : t = <<u[1], u[2]>> /\ Len(u) = Len(t) /\ \A k \in 1 .. Len(u) : u[k] = t[k]
    BY SMTT(30), <1>2
  <2> QED
    BY <2>1, SameMembers
<1>3. ASSUME Len(u) = 3 PROVE u = <<u[1], u[2], u[3]>>
  <2>1. PICK t \in Seq(Bytes) : t = <<u[1], u[2], u[3]>> /\ Len(u) = Len(t) /\ \A k \in 1 .. Len(u) : u[k] = t[k]
    BY SMTT(30), <1>3
  <2> QED
    BY <2>1, SameMembers
<1>4. ASSUME Len(u) = 4 PROVE u = <<u[1], u[2], u[3], u[4]>>
  <2>1. PICK t \in Seq(Bytes) : t = <<u[1], u[2], u[3], u[4]>> /\ Len(u) = Len(t) /\ \A k \in 1 .. Len(u) : u[k] = t[k]
    BY SMTT(30), <1>4
  <2> QED
    BY <2>1, SameMembers
<1> QED
  BY SMTT(60), <1>1, <1>2, <1>3, <1>4

\* The slices of one to four bytes are tuples.
LEMMA Slices ==
    ASSUME NEW text \in Seq(Bytes), NEW i \in 1 .. Len(text)
    PROVE  /\ SubSeq(text, i, i + 1 - 1) = <<text[i]>>
           /\ i + 1 <= Len(text) => SubSeq(text, i, i + 2 - 1) = <<text[i], text[i + 1]>>
           /\ i + 2 <= Len(text) => SubSeq(text, i, i + 3 - 1) = <<text[i], text[i + 1], text[i + 2]>>
           /\ i + 3 <= Len(text) =>
                SubSeq(text, i, i + 4 - 1) = <<text[i], text[i + 1], text[i + 2], text[i + 3]>>
<1>0. /\ i \in Nat \ {0} /\ 1 \in Nat /\ 2 \in Nat /\ 3 \in Nat /\ 4 \in Nat
      /\ Len(text) \in Nat /\ i <= Len(text)
      /\ i + 1 - 1 = i /\ i + 2 - 1 = i + 1 /\ i + 3 - 1 = i + 2 /\ i + 4 - 1 = i + 3
  BY SMTT(30)
<1>1. SubSeq(text, i, i + 1 - 1) = <<text[i]>>
  <2>1. PICK u \in Seq(Bytes) : u = SubSeq(text, i, i + 1 - 1) /\ Len(u) = 1 /\ \A k \in 1 .. 1 : u[k] = text[i + k - 1]
    BY <1>0, Slice
  <2>2. u[1] = text[i]
    BY SMTT(30), <1>0, <2>1
  <2> QED
    BY <2>1, <2>2, Tuples
<1>2. ASSUME i + 1 <= Len(text) PROVE SubSeq(text, i, i + 2 - 1) = <<text[i], text[i + 1]>>
  <2>1. PICK u \in Seq(Bytes) : u = SubSeq(text, i, i + 2 - 1) /\ Len(u) = 2 /\ \A k \in 1 .. 2 : u[k] = text[i + k - 1]
    BY <1>0, <1>2, Slice
  <2>2. u[1] = text[i] /\ u[2] = text[i + 1]
    BY SMTT(30), <1>0, <2>1
  <2> QED
    BY <2>1, <2>2, Tuples
<1>3. ASSUME i + 2 <= Len(text)
      PROVE  SubSeq(text, i, i + 3 - 1) = <<text[i], text[i + 1], text[i + 2]>>
  <2>1. PICK u \in Seq(Bytes) : u = SubSeq(text, i, i + 3 - 1) /\ Len(u) = 3 /\ \A k \in 1 .. 3 : u[k] = text[i + k - 1]
    BY <1>0, <1>3, Slice
  <2>2. u[1] = text[i] /\ u[2] = text[i + 1] /\ u[3] = text[i + 2]
    BY SMTT(30), <1>0, <2>1
  <2> QED
    BY <2>1, <2>2, Tuples
<1>4. ASSUME i + 3 <= Len(text)
      PROVE  SubSeq(text, i, i + 4 - 1) = <<text[i], text[i + 1], text[i + 2], text[i + 3]>>
  <2>1. PICK u \in Seq(Bytes) : u = SubSeq(text, i, i + 4 - 1) /\ Len(u) = 4 /\ \A k \in 1 .. 4 : u[k] = text[i + k - 1]
    BY <1>0, <1>4, Slice
  <2>2. u[1] = text[i] /\ u[2] = text[i + 1] /\ u[3] = text[i + 2] /\ u[4] = text[i + 3]
    BY SMTT(30), <1>0, <2>1
  <2> QED
    BY <2>1, <2>2, Tuples
<1> QED
  BY SMTT(60), <1>1, <1>2, <1>3, <1>4

\* The lengths of the characters that begin at i, by the definition of UTF-8.
Characters(text, i) ==
    {n \in 1 .. 4 : i + n - 1 <= Len(text) /\ IsCharacter(SubSeq(text, i, i + n - 1))}

\* There is at most one, and validate_display_text finds it.
LEMMA CharacterFound ==
    ASSUME NEW text \in Seq(Bytes), NEW i \in 1 .. Len(text)
    PROVE  /\ CharacterAt(text, i) \in 0 .. 4
           /\ \A n \in 1 .. 4 : n \in Characters(text, i) <=> n = CharacterAt(text, i)
<1>0. PICK a \in Bytes : a = text[i]
  BY SMTT(30)
<1>1. /\ i + 1 - 1 <= Len(text)
      /\ i + 2 - 1 <= Len(text) <=> i + 1 <= Len(text)
      /\ i + 3 - 1 <= Len(text) <=> i + 2 <= Len(text)
      /\ i + 4 - 1 <= Len(text) <=> i + 3 <= Len(text)
      /\ i + 3 <= Len(text) => i + 2 <= Len(text)
      /\ i + 2 <= Len(text) => i + 1 <= Len(text)
      /\ i + 1 <= Len(text) => text[i + 1] \in Bytes
      /\ i + 2 <= Len(text) => text[i + 2] \in Bytes
      /\ i + 3 <= Len(text) => text[i + 3] \in Bytes
  BY SMTT(30)
<1>9. 1 \in 1 .. 4 /\ 2 \in 1 .. 4 /\ 3 \in 1 .. 4 /\ 4 \in 1 .. 4
  BY SMTT(30)
<1>2. 1 \in Characters(text, i) <=> Lead1(a)
  BY <1>0, <1>1, <1>9, Slices, OneByte DEF Characters
<1>3. 2 \in Characters(text, i) <=>
        i + 1 <= Len(text) /\ Lead2(a) /\ text[i + 1] \in SecondByte(a)
  BY <1>0, <1>1, <1>9, Slices, TwoBytes DEF Characters
<1>4. 3 \in Characters(text, i) <=>
        /\ i + 2 <= Len(text) /\ Lead3(a) /\ text[i + 1] \in SecondByte(a)
        /\ IsContinuationByte(text[i + 2])
  BY <1>0, <1>1, <1>9, Slices, ThreeBytes DEF Characters
<1>5. 4 \in Characters(text, i) <=>
        /\ i + 3 <= Len(text) /\ Lead4(a) /\ text[i + 1] \in SecondByte(a)
        /\ IsContinuationByte(text[i + 2]) /\ IsContinuationByte(text[i + 3])
  <2>1. 4 \in Characters(text, i) <=> i + 3 <= Len(text) /\ IsCharacter(SubSeq(text, i, i + 4 - 1))
    BY <1>1, <1>9 DEF Characters
  <2>2. i + 3 <= Len(text) =>
            /\ text[i + 1] \in Bytes /\ text[i + 2] \in Bytes /\ text[i + 3] \in Bytes
            /\ SubSeq(text, i, i + 4 - 1) = <<a, text[i + 1], text[i + 2], text[i + 3]>>
    BY <1>0, <1>1, Slices
  <2> QED
    BY <2>1, <2>2, FourBytes
<1>6. PICK c : c = CharacterAt(text, i)
  OBVIOUS
<1>7. /\ c \in {0, 1, 2, 3, 4}
      /\ 1 \in Characters(text, i) <=> c = 1
      /\ 2 \in Characters(text, i) <=> c = 2
      /\ 3 \in Characters(text, i) <=> c = 3
      /\ 4 \in Characters(text, i) <=> c = 4
  <2>0. 0 # 1 /\ 0 # 2 /\ 0 # 3 /\ 0 # 4 /\ 1 # 2 /\ 1 # 3 /\ 1 # 4 /\ 2 # 3 /\ 2 # 4 /\ 3 # 4
    BY SMTT(30)
  <2>1. CASE Lead1(a)
    <3>1. c = 1
      BY <1>0, <1>6, <2>1, CharacterAtCases
    <3> QED
      BY <1>2, <1>3, <1>4, <1>5, <2>0, <2>1, <3>1, FirstBytes
  <2>2. CASE Lead2(a)
    <3>1. c = IF i + 1 <= Len(text) /\ text[i + 1] \in SecondByte(a) THEN 2 ELSE 0
      BY <1>0, <1>6, <2>2, CharacterAtCases
    <3> QED
      BY <1>2, <1>3, <1>4, <1>5, <2>0, <2>2, <3>1, FirstBytes
  <2>3. CASE Lead3(a)
    <3>1. c = IF /\ i + 2 <= Len(text) /\ text[i + 1] \in SecondByte(a)
                 /\ IsContinuationByte(text[i + 2]) THEN 3 ELSE 0
      BY <1>0, <1>6, <2>3, CharacterAtCases
    <3> QED
      BY <1>2, <1>3, <1>4, <1>5, <2>0, <2>3, <3>1, FirstBytes
  <2>4. CASE Lead4(a)
    <3>1. c = IF /\ i + 3 <= Len(text) /\ text[i + 1] \in SecondByte(a)
                 /\ IsContinuationByte(text[i + 2]) /\ IsContinuationByte(text[i + 3]) THEN 4 ELSE 0
      BY <1>0, <1>6, <2>4, CharacterAtCases
    <3> QED
      BY <1>2, <1>3, <1>4, <1>5, <2>0, <2>4, <3>1, FirstBytes
  <2>5. CASE ~Lead1(a) /\ ~Lead2(a) /\ ~Lead3(a) /\ ~Lead4(a)
    <3>1. c = 0
      BY <1>0, <1>6, <2>5, CharacterAtCases
    <3> QED
      BY <1>2, <1>3, <1>4, <1>5, <2>0, <2>5, <3>1, FirstBytes
  <2> QED
    BY <2>1, <2>2, <2>3, <2>4, <2>5
<1>8. /\ 0 .. 4 = {0, 1, 2, 3, 4}
      /\ \A n \in 1 .. 4 : n = 1 \/ n = 2 \/ n = 3 \/ n = 4
  BY SMTT(30)
<1> QED
  BY <1>6, <1>7, <1>8

-----------------------------------------------------------------------------
(* Texts.                                                                  *)

\* The loops of validate_display_text and of the definition compute the same.
LEMMA TextsAgree ==
    ASSUME NEW text \in Seq(Bytes)
    PROVE  DisplayTextValid(text) <=> IsText(text)
<1> DEFINE n == Len(text)
           J == [i \in 1 .. n |-> Characters(text, i)]
           Validates(f) == [i \in 1 .. n + 1 |->
                               i <= n => CharacterAt(text, i) # 0 /\ f[i + CharacterAt(text, i)]]
           Reads(f) == [i \in 1 .. n + 1 |->
                           i <= n => \E k \in 1 .. 4 :
                                        /\ i + k - 1 <= n
                                        /\ IsCharacter(SubSeq(text, i, i + k - 1))
                                        /\ f[i + k]]
<1>1. DisplayTextValid(text) <=>
        n <= MAX_VERIFICATION_TEXT_SIZE /\ (CHOOSE f : f = Validates(f))[1]
  BY DEF DisplayTextValid
<1>2. IsText(text) <=>
        n <= MAX_VERIFICATION_TEXT_SIZE /\ (CHOOSE f : f = Reads(f))[1]
  BY DEF IsText
<1>3. n \in Nat
  BY SMTT(30)
<1>4. \A i \in 1 .. n : J[i] = Characters(text, i)
  OBVIOUS
<1>5. \A i \in 1 .. n : \A k \in Characters(text, i) : k \in Nat /\ k >= 1 /\ i + k <= n + 1
  <2>1. \A i \in 1 .. n, k \in 1 .. 4 : i + k - 1 <= n => k \in Nat /\ k >= 1 /\ i + k <= n + 1
    BY SMTT(30), <1>3
  <2> QED
    BY <2>1 DEF Characters
<1>6. J \in Jumps(n)
  <2>1. J \in [1 .. n -> SUBSET Nat]
    BY <1>5
  <2> QED
    BY <1>4, <1>5, <2>1 DEF Jumps
<1>7. ASSUME NEW f, NEW i \in 1 .. n + 1 PROVE Validates(f)[i] = (i <= n => \E k \in J[i] : f[i + k])
  <2>1. Validates(f)[i] = (i <= n => CharacterAt(text, i) # 0 /\ f[i + CharacterAt(text, i)])
    OBVIOUS
  <2>2. ASSUME i <= n
        PROVE  CharacterAt(text, i) # 0 /\ f[i + CharacterAt(text, i)] <=> \E k \in J[i] : f[i + k]
    <3>1. i \in 1 .. n
      BY SMTT(30), <1>3, <2>2
    <3>2. PICK c \in 0 .. 4 : c = CharacterAt(text, i)
      BY <3>1, CharacterFound
    <3>3. c # 0 <=> c \in 1 .. 4
      BY SMTT(30)
    <3>4. \A k : k \in Characters(text, i) <=> k \in 1 .. 4 /\ k = c
      BY <3>1, <3>2, CharacterFound DEF Characters
    <3> QED
      BY <1>4, <3>1, <3>2, <3>3, <3>4
  <2> QED
    BY <2>1, <2>2
<1>8. ASSUME NEW f, NEW i \in 1 .. n + 1 PROVE Reads(f)[i] = (i <= n => \E k \in J[i] : f[i + k])
  <2>1. i <= n => i \in 1 .. n
    BY SMTT(30), <1>3
  <2> QED
    BY <1>4, <2>1 DEF Characters
<1>9. PICK f \in [1 .. n + 1 -> BOOLEAN] : \A i \in 1 .. n + 1 : Reaches(n, J, f, i)
  BY <1>3, <1>6, LoopExists
<1>10. f = Validates(f) /\ f = Reads(f)
  <2>1. \A i \in 1 .. n + 1 : f[i] = Validates(f)[i] /\ f[i] = Reads(f)[i]
    BY <1>7, <1>8, <1>9 DEF Reaches
  <2>2. f = [i \in 1 .. n + 1 |-> f[i]]
    OBVIOUS
  <2> QED
    BY <2>1, <2>2
<1> DEFINE validates == CHOOSE g : g = Validates(g)
           reads == CHOOSE g : g = Reads(g)
<1>11. validates = Validates(validates) /\ reads = Reads(reads)
  BY <1>10
<1> HIDE DEF J, Validates, Reads, validates, reads
<1>12. Loops(n, J, validates)
  <2>1. \A i \in 1 .. n + 1 : Validates(validates)[i] = (i <= n => \E k \in J[i] : validates[i + k])
    BY <1>7
  <2>2. \A i \in 1 .. n + 1 : validates[i] = Validates(validates)[i]
    <3>1. \A g, h : g = h => \A i \in 1 .. n + 1 : g[i] = h[i]
      OBVIOUS
    <3> QED
      BY <1>11, <3>1
  <2> QED
    BY <2>1, <2>2 DEF Loops, Reaches
<1>13. Loops(n, J, reads)
  <2>1. \A i \in 1 .. n + 1 : Reads(reads)[i] = (i <= n => \E k \in J[i] : reads[i + k])
    BY <1>8
  <2>2. \A i \in 1 .. n + 1 : reads[i] = Reads(reads)[i]
    <3>1. \A g, h : g = h => \A i \in 1 .. n + 1 : g[i] = h[i]
      OBVIOUS
    <3> QED
      BY <1>11, <3>1
  <2> QED
    BY <2>1, <2>2 DEF Loops, Reaches
<1>15. \A i \in 1 .. n + 1 : validates[i] = reads[i]
  <2>1. \A g, h : Loops(n, J, g) /\ Loops(n, J, h) => \A i \in 1 .. n + 1 : g[i] = h[i]
    BY SMTT(60), <1>3, <1>6, LoopUnique
  <2> QED
    BY <1>12, <1>13, <2>1
<1>14. 1 \in 1 .. n + 1
  BY SMTT(30), <1>3
<1> QED
  BY <1>1, <1>2, <1>14, <1>15 DEF validates, reads

-----------------------------------------------------------------------------
(* Packets.                                                                *)

\* A message of each type.
StartMessage(uid, id) == [type |-> "start", targetUid |-> uid, sessionId |-> id]
SecretMessage(secret) == [type |-> "secret_response", secret |-> secret]
CancelMessage == [type |-> "cancel"]
StatusMessage(kind, text) == [type |-> "status", kind |-> kind, message |-> text]
PromptMessage(text) == [type |-> "secret_required", prompt |-> text]
CompleteMessage(result) == [type |-> "complete", result |-> result]

\* encode_verifier_message, type by type.
LEMMA Encodings ==
    ASSUME NEW u, NEW s, NEW k
    PROVE  /\ Encode(StartMessage(u, s)) = IF SessionIdValid(s) THEN <<1, 1>> \o (WriteUint32(u) \o s) ELSE <<>>
           /\ Encode(SecretMessage(s)) = IF SecretValid(s) THEN <<1, 2>> \o s ELSE <<>>
           /\ Encode(CancelMessage) = <<1, 3>> \o <<>>
           /\ Encode(StatusMessage(k, s)) =
                IF k \in {1, 2} /\ DisplayTextValid(s) THEN <<1, 4>> \o (<<k>> \o s) ELSE <<>>
           /\ Encode(PromptMessage(s)) = IF DisplayTextValid(s) THEN <<1, 5>> \o s ELSE <<>>
           /\ Encode(CompleteMessage(k)) = IF k \in {1, 2, 3} THEN <<1, 6>> \o <<k>> ELSE <<>>
<1>1. /\ MessageType["start"] = 1 /\ MessageType["secret_response"] = 2 /\ MessageType["cancel"] = 3
      /\ MessageType["status"] = 4 /\ MessageType["secret_required"] = 5 /\ MessageType["complete"] = 6
  BY SMTT(30) DEF MessageType
<1>2. Encode(StartMessage(u, s)) = IF SessionIdValid(s) THEN <<1, 1>> \o (WriteUint32(u) \o s) ELSE <<>>
  BY <1>1 DEF Encode, StartMessage, Checked, Packet, VERIFIER_PROTOCOL_VERSION, NoPacket
<1>3. Encode(SecretMessage(s)) = IF SecretValid(s) THEN <<1, 2>> \o s ELSE <<>>
  BY <1>1 DEF Encode, SecretMessage, Checked, Packet, VERIFIER_PROTOCOL_VERSION, NoPacket
<1>4. Encode(CancelMessage) = <<1, 3>> \o <<>>
  BY <1>1 DEF Encode, CancelMessage, Checked, Packet, VERIFIER_PROTOCOL_VERSION, NoPacket
<1>5. Encode(StatusMessage(k, s)) =
                IF k \in {1, 2} /\ DisplayTextValid(s) THEN <<1, 4>> \o (<<k>> \o s) ELSE <<>>
  BY <1>1 DEF Encode, StatusMessage, Checked, Packet, VERIFIER_PROTOCOL_VERSION, NoPacket
<1>6. Encode(PromptMessage(s)) = IF DisplayTextValid(s) THEN <<1, 5>> \o s ELSE <<>>
  BY <1>1 DEF Encode, PromptMessage, Checked, Packet, VERIFIER_PROTOCOL_VERSION, NoPacket
<1>7. Encode(CompleteMessage(k)) = IF k \in {1, 2, 3} THEN <<1, 6>> \o <<k>> ELSE <<>>
  BY <1>1 DEF Encode, CompleteMessage, Checked, Packet, VERIFIER_PROTOCOL_VERSION, NoPacket
<1> QED
  BY SMTT(60), <1>2, <1>3, <1>4, <1>5, <1>6, <1>7

\* What makes each of them valid.
LEMMA Validities ==
    ASSUME NEW u, NEW s, NEW k
    PROVE  /\ MessageValid(StartMessage(u, s)) <=> SessionIdValid(s)
           /\ MessageValid(SecretMessage(s)) <=> SecretValid(s)
           /\ MessageValid(CancelMessage)
           /\ MessageValid(StatusMessage(k, s)) <=> k \in {1, 2} /\ IsText(s)
           /\ MessageValid(PromptMessage(s)) <=> IsText(s)
           /\ MessageValid(CompleteMessage(k)) <=> k \in {1, 2, 3}
<1>1. MessageValid(StartMessage(u, s)) <=> SessionIdValid(s)
  BY DEF MessageValid, StartMessage
<1>2. MessageValid(SecretMessage(s)) <=> SecretValid(s)
  BY DEF MessageValid, SecretMessage
<1>3. MessageValid(CancelMessage)
  BY DEF MessageValid, CancelMessage
<1>4. MessageValid(StatusMessage(k, s)) <=> k \in {1, 2} /\ IsText(s)
  BY DEF MessageValid, StatusMessage
<1>5. MessageValid(PromptMessage(s)) <=> IsText(s)
  BY DEF MessageValid, PromptMessage
<1>6. MessageValid(CompleteMessage(k)) <=> k \in {1, 2, 3}
  BY DEF MessageValid, CompleteMessage
<1> QED
  BY SMTT(60), <1>1, <1>2, <1>3, <1>4, <1>5, <1>6

\* decode_verifier_message, type by type.
LEMMA Decodings ==
    ASSUME NEW p
    PROVE  /\ DecodePayload(1, p) =
                IF /\ Len(p) > 4 /\ Len(p) <= 4 + MAX_SESSION_ID_SIZE
                   /\ SessionIdValid(From(p, 4)) THEN StartMessage(ReadUint32(p), From(p, 4)) ELSE Throws
           /\ DecodePayload(2, p) = IF SecretValid(p) THEN SecretMessage(p) ELSE Throws
           /\ DecodePayload(3, p) = IF p = <<>> THEN CancelMessage ELSE Throws
           /\ DecodePayload(4, p) =
                IF /\ p # <<>> /\ Len(p) <= 1 + MAX_VERIFICATION_TEXT_SIZE
                   /\ p[1] \in {1, 2} /\ DisplayTextValid(From(p, 1)) THEN StatusMessage(p[1], From(p, 1)) ELSE Throws
           /\ DecodePayload(5, p) = IF DisplayTextValid(p) THEN PromptMessage(p) ELSE Throws
           /\ DecodePayload(6, p) = IF Len(p) = 1 /\ p[1] \in {1, 2, 3} THEN CompleteMessage(p[1]) ELSE Throws
           /\ \A code : code \notin {1, 2, 3, 4, 5, 6} => DecodePayload(code, p) = Throws
<1>0. /\ 1 # 2 /\ 1 # 3 /\ 1 # 4 /\ 1 # 5 /\ 1 # 6 /\ 2 # 3 /\ 2 # 4 /\ 2 # 5 /\ 2 # 6
      /\ 3 # 4 /\ 3 # 5 /\ 3 # 6 /\ 4 # 5 /\ 4 # 6 /\ 5 # 6
  BY SMTT(30)
<1>1. DecodePayload(1, p) =
                IF /\ Len(p) > 4 /\ Len(p) <= 4 + MAX_SESSION_ID_SIZE
                   /\ SessionIdValid(From(p, 4)) THEN StartMessage(ReadUint32(p), From(p, 4)) ELSE Throws
  BY <1>0 DEF DecodePayload, StartMessage
<1>2. DecodePayload(2, p) = IF SecretValid(p) THEN SecretMessage(p) ELSE Throws
  BY <1>0 DEF DecodePayload, SecretMessage
<1>3. DecodePayload(3, p) = IF p = <<>> THEN CancelMessage ELSE Throws
  BY <1>0 DEF DecodePayload, CancelMessage
<1>4. DecodePayload(4, p) =
                IF /\ p # <<>> /\ Len(p) <= 1 + MAX_VERIFICATION_TEXT_SIZE
                   /\ p[1] \in {1, 2} /\ DisplayTextValid(From(p, 1)) THEN StatusMessage(p[1], From(p, 1)) ELSE Throws
  BY <1>0 DEF DecodePayload, StatusMessage
<1>5. DecodePayload(5, p) = IF DisplayTextValid(p) THEN PromptMessage(p) ELSE Throws
  BY <1>0 DEF DecodePayload, PromptMessage
<1>6. DecodePayload(6, p) = IF Len(p) = 1 /\ p[1] \in {1, 2, 3} THEN CompleteMessage(p[1]) ELSE Throws
  BY <1>0 DEF DecodePayload, CompleteMessage
<1>7. \A code : code \notin {1, 2, 3, 4, 5, 6} => DecodePayload(code, p) = Throws
  BY <1>0 DEF DecodePayload
<1> QED
  BY <1>1, <1>2, <1>3, <1>4, <1>5, <1>6, <1>7

\* A number of 32 bits and its four bytes.
LEMMA Uint32 ==
    ASSUME NEW a \in Bytes, NEW b \in Bytes, NEW c \in Bytes, NEW d \in Bytes
    PROVE  WriteUint32(a * 2^24 + b * 2^16 + c * 2^8 + d) = <<a, b, c, d>>
<1>0. /\ a \in Nat /\ a < 256 /\ b \in Nat /\ b < 256 /\ c \in Nat /\ c < 256 /\ d \in Nat /\ d < 256
  BY SMTT(30) DEF Bytes
<1>1. PICK u \in Nat : u = a * 2^24 + b * 2^16 + c * 2^8 + d
  BY SMTT(30), <1>0
<1>2. (u \div 2^24) % 256 = a
  <2>1. u \div 2^24 = a
    BY SMTT(30), <1>0, <1>1
  <2> QED
    BY SMTT(30), <1>0, <2>1
<1>3. (u \div 2^16) % 256 = b
  <2>1. PICK v \in Nat : v = a * 256 + b
    BY SMTT(30), <1>0
  <2>2. u \div 2^16 = v
    BY SMTT(30), <1>0, <1>1, <2>1
  <2>3. v % 256 = b
    BY SMTT(30), <1>0, <2>1
  <2> QED
    BY SMTT(30), <2>2, <2>3
<1>4. (u \div 2^8) % 256 = c
  <2>1. PICK v \in Nat : v = a * 2^16 + b * 256 + c
    BY SMTT(30), <1>0
  <2>2. u \div 2^8 = v
    BY SMTT(30), <1>0, <1>1, <2>1
  <2>3. v % 256 = c
    BY SMTT(30), <1>0, <2>1
  <2> QED
    BY SMTT(30), <2>2, <2>3
<1>5. u % 256 = d
  BY SMTT(30), <1>0, <1>1
<1>6. WriteUint32(u) = <<(u \div 2^24) % 256, (u \div 2^16) % 256, (u \div 2^8) % 256, u % 256>>
  BY DEF WriteUint32
<1> QED
  BY SMTT(30), <1>1, <1>2, <1>3, <1>4, <1>5, <1>6

\* write_uint32 gives the four digits of the number to the base 256.
LEMMA Uint32Bytes ==
    ASSUME NEW u \in Nat, u < 2^32
    PROVE  \E a, b, c, d \in Bytes :
             WriteUint32(u) = <<a, b, c, d>> /\ u = a * 2^24 + b * 2^16 + c * 2^8 + d
<1>1. PICK x \in Nat, d \in Bytes : u = x * 256 + d /\ x < 2^24
  <2>1. u \div 256 \in Nat /\ u % 256 \in Bytes /\ u = (u \div 256) * 256 + (u % 256) /\ u \div 256 < 2^24
    BY SMTT(30) DEF Bytes
  <2> QED
    BY SMTT(30), <2>1
<1>2. PICK y \in Nat, c \in Bytes : x = y * 256 + c /\ y < 2^16
  <2>1. x \div 256 \in Nat /\ x % 256 \in Bytes /\ x = (x \div 256) * 256 + (x % 256) /\ x \div 256 < 2^16
    BY SMTT(30), <1>1 DEF Bytes
  <2> QED
    BY SMTT(30), <2>1
<1>3. PICK a \in Bytes, b \in Bytes : y = a * 256 + b
  <2>1. y \div 256 \in Bytes /\ y % 256 \in Bytes /\ y = (y \div 256) * 256 + (y % 256)
    BY SMTT(30), <1>2 DEF Bytes
  <2> QED
    BY SMTT(30), <2>1
<1>4. u = a * 2^24 + b * 2^16 + c * 2^8 + d
  BY SMTT(30), <1>1, <1>2, <1>3 DEF Bytes
<1>5. WriteUint32(u) = <<a, b, c, d>>
  BY <1>4, Uint32
<1> QED
  BY <1>4, <1>5

\* A concatenation, member by member.
LEMMA Concatenated ==
    ASSUME NEW h \in Seq(Bytes), NEW p \in Seq(Bytes)
    PROVE  \E q \in Seq(Bytes) :
             /\ q = h \o p /\ Len(q) = Len(h) + Len(p)
             /\ \A i \in 1 .. Len(h) + Len(p) : q[i] = IF i <= Len(h) THEN h[i] ELSE p[i - Len(h)]
<1>1. h \o p \in Seq(Bytes) /\ Len(h \o p) = Len(h) + Len(p)
  BY SMTT(30)
<1>2. \A i \in 1 .. Len(h) + Len(p) : (h \o p)[i] = IF i <= Len(h) THEN h[i] ELSE p[i - Len(h)]
  BY SMTT(30)
<1> QED
  BY <1>1, <1>2

\* What is in front of a payload, and the payload.
LEMMA Behind ==
    ASSUME NEW h \in Seq(Bytes), NEW p \in Seq(Bytes)
    PROVE  /\ h \o p \in Seq(Bytes) /\ Len(h \o p) = Len(h) + Len(p)
           /\ \A i \in 1 .. Len(h) : (h \o p)[i] = h[i]
           /\ From(h \o p, Len(h)) = p
<1>1. Len(h) \in Nat /\ Len(p) \in Nat
  BY SMTT(30)
<1>2. PICK q \in Seq(Bytes) : /\ q = h \o p /\ Len(q) = Len(h) + Len(p)
                              /\ \A i \in 1 .. Len(h) + Len(p) : q[i] = IF i <= Len(h) THEN h[i] ELSE p[i - Len(h)]
  BY Concatenated
<1>3. \A i \in 1 .. Len(h) : q[i] = h[i]
  BY SMTT(30), <1>1, <1>2
<1>4. \A i \in 1 .. Len(p) : q[Len(h) + i] = p[i]
  BY SMTT(30), <1>1, <1>2
<1>5. From(q, Len(h)) = p
  <2>1. /\ Len(h) + 1 \in Nat \ {0} /\ Len(h) + 1 + Len(p) - 1 <= Len(q)
        /\ Len(h) + 1 + Len(p) - 1 = Len(q) /\ \A k \in 1 .. Len(p) : Len(h) + 1 + k - 1 = Len(h) + k
    BY SMTT(30), <1>1, <1>2
  <2>2. PICK t \in Seq(Bytes) : /\ t = SubSeq(q, Len(h) + 1, Len(h) + 1 + Len(p) - 1) /\ Len(t) = Len(p)
                                /\ \A k \in 1 .. Len(p) : t[k] = q[Len(h) + 1 + k - 1]
    <3>1. PICK i \in Nat \ {0} : i = Len(h) + 1
      BY <2>1
    <3>2. PICK m \in Nat : m = Len(p)
      BY <1>1
    <3>3. /\ SubSeq(q, i, i + m - 1) \in Seq(Bytes) /\ Len(SubSeq(q, i, i + m - 1)) = m
          /\ \A k \in 1 .. m : SubSeq(q, i, i + m - 1)[k] = q[i + k - 1]
      BY <2>1, <3>1, <3>2, Slice
    <3> QED
      BY <3>1, <3>2, <3>3
  <2>3. \A k \in 1 .. Len(t) : t[k] = p[k]
    BY <1>4, <2>1, <2>2
  <2>4. t = p
    BY <2>2, <2>3, SameMembers
  <2> QED
    BY <2>1, <2>2, <2>4 DEF From
<1> QED
  BY <1>2, <1>3, <1>5

\* A packet is its header followed by the rest.
LEMMA Split ==
    ASSUME NEW q \in Seq(Bytes), NEW n \in Nat, n <= Len(q)
    PROVE  /\ From(q, n) \in Seq(Bytes) /\ Len(From(q, n)) = Len(q) - n
           /\ \A h \in Seq(Bytes) : Len(h) = n /\ (\A i \in 1 .. n : h[i] = q[i]) => q = h \o From(q, n)
<1>1. /\ n + 1 \in Nat \ {0} /\ Len(q) - n \in Nat /\ n + 1 + (Len(q) - n) - 1 <= Len(q)
      /\ n + 1 + (Len(q) - n) - 1 = Len(q) /\ Len(q) \in Nat
  BY SMTT(30)
<1>2. PICK t \in Seq(Bytes) : /\ t = From(q, n) /\ Len(t) = Len(q) - n
                              /\ \A k \in 1 .. Len(q) - n : t[k] = q[n + 1 + k - 1]
  <2>1. PICK i \in Nat \ {0} : i = n + 1
    BY <1>1
  <2>2. PICK m \in Nat : m = Len(q) - n
    BY <1>1
  <2>3. i + m - 1 = Len(q) /\ i + m - 1 <= Len(q)
    BY SMTT(30), <1>1, <2>1, <2>2
  <2>4. /\ SubSeq(q, i, i + m - 1) \in Seq(Bytes) /\ Len(SubSeq(q, i, i + m - 1)) = m
        /\ \A k \in 1 .. m : SubSeq(q, i, i + m - 1)[k] = q[i + k - 1]
    BY <2>3, Slice
  <2> QED
    BY <2>1, <2>2, <2>3, <2>4 DEF From
<1>3. ASSUME NEW h \in Seq(Bytes), Len(h) = n, \A i \in 1 .. n : h[i] = q[i] PROVE q = h \o t
  <2>1. PICK r \in Seq(Bytes) : /\ r = h \o t /\ Len(r) = Len(h) + Len(t)
                                /\ \A i \in 1 .. Len(h) + Len(t) : r[i] = IF i <= Len(h) THEN h[i] ELSE t[i - Len(h)]
    BY Concatenated
  <2>2. Len(q) = Len(r)
    BY SMTT(30), <1>1, <1>2, <1>3, <2>1
  <2>3. \A i \in 1 .. Len(q) : q[i] = r[i]
    BY SMTT(30), <1>1, <1>2, <1>3, <2>1
  <2> QED
    BY <2>1, <2>2, <2>3, SameMembers
<1> QED
  BY <1>2, <1>3

\* The same for a header that is known.
LEMMA SplitBehind ==
    ASSUME NEW q \in Seq(Bytes), NEW h \in Seq(Bytes), NEW n \in Nat, n = Len(h), n <= Len(q),
           \A i \in 1 .. n : h[i] = q[i]
    PROVE  q = h \o From(q, n) /\ From(q, n) \in Seq(Bytes)
<1>1. /\ From(q, n) \in Seq(Bytes)
      /\ \A g \in Seq(Bytes) : Len(g) = n /\ (\A i \in 1 .. n : g[i] = q[i]) => q = g \o From(q, n)
  BY Split
<1> QED
  BY <1>1

\* The largest packet.
LEMMA PacketSize ==
    /\ MAX_VERIFIER_PACKET_SIZE \in Nat
    /\ 2 + (4 + MAX_SESSION_ID_SIZE) <= MAX_VERIFIER_PACKET_SIZE
    /\ 2 + MAX_SECRET_SIZE <= MAX_VERIFIER_PACKET_SIZE
    /\ 2 + (1 + MAX_VERIFICATION_TEXT_SIZE) <= MAX_VERIFIER_PACKET_SIZE
  BY SMTT(30), LimitsPositive DEF MAX_VERIFIER_PACKET_SIZE, Larger

\* Tuples of bytes.
LEMMA Written ==
    ASSUME NEW a \in Bytes, NEW b \in Bytes, NEW c \in Bytes, NEW d \in Bytes
    PROVE  /\ <<a>> \in Seq(Bytes) /\ Len(<<a>>) = 1 /\ <<a>>[1] = a
           /\ <<a, b>> \in Seq(Bytes) /\ Len(<<a, b>>) = 2 /\ <<a, b>>[1] = a /\ <<a, b>>[2] = b
           /\ <<a, b, c, d>> \in Seq(Bytes) /\ Len(<<a, b, c, d>>) = 4
           /\ <<a, b, c, d>>[1] = a /\ <<a, b, c, d>>[2] = b
           /\ <<a, b, c, d>>[3] = c /\ <<a, b, c, d>>[4] = d
  BY SMTT(30)

\* The codes of types, kinds and results are bytes.
LEMMA SmallBytes ==
    /\ 1 \in Bytes /\ 2 \in Bytes /\ 3 \in Bytes /\ 4 \in Bytes /\ 5 \in Bytes /\ 6 \in Bytes
    /\ {1, 2} \subseteq Bytes /\ {1, 2, 3} \subseteq Bytes
  BY SMTT(30) DEF Bytes

\* The version and the type are in front of the payload.
LEMMA Header ==
    ASSUME NEW code \in Bytes, NEW p \in Seq(Bytes), 2 + Len(p) <= MAX_VERIFIER_PACKET_SIZE
    PROVE  Decode(<<1, code>> \o p) = DecodePayload(code, p)
<1>0. <<1, code>> \in Seq(Bytes) /\ Len(<<1, code>>) = 2 /\ <<1, code>>[1] = 1 /\ <<1, code>>[2] = code
  BY Written, SmallBytes
<1>1. PICK h \in Seq(Bytes) : h = <<1, code>> /\ Len(h) = 2 /\ h[1] = 1 /\ h[2] = code
  BY <1>0
<1>2. PICK q \in Seq(Bytes) : /\ q = h \o p /\ Len(q) = 2 + Len(p) /\ From(q, 2) = p
                              /\ \A i \in 1 .. 2 : q[i] = h[i]
  BY <1>1, Behind
<1>3. ~(Len(q) < 2) /\ ~(Len(q) > MAX_VERIFIER_PACKET_SIZE) /\ 1 \in 1 .. 2 /\ 2 \in 1 .. 2
  BY SMTT(30), <1>2, PacketSize
<1>4. q[1] = 1 /\ q[2] = code
  BY <1>1, <1>2, <1>3
<1>5. Decode(q) = DecodePayload(code, p)
  BY <1>2, <1>3, <1>4 DEF Decode, VERIFIER_PROTOCOL_VERSION
<1> QED
  BY <1>1, <1>2, <1>5

\* start, encoded and decoded.
LEMMA StartExact ==
    ASSUME NEW u \in Nat, u < 2^32, NEW s \in Seq(Bytes), SessionIdValid(s)
    PROVE  Decode(Encode(StartMessage(u, s))) = StartMessage(u, s)
<1>1. PICK a \in Bytes, b \in Bytes, c \in Bytes, d \in Bytes :
        WriteUint32(u) = <<a, b, c, d>> /\ u = a * 2^24 + b * 2^16 + c * 2^8 + d
  BY Uint32Bytes
<1>0. /\ <<a, b, c, d>> \in Seq(Bytes) /\ Len(<<a, b, c, d>>) = 4
      /\ <<a, b, c, d>>[1] = a /\ <<a, b, c, d>>[2] = b
      /\ <<a, b, c, d>>[3] = c /\ <<a, b, c, d>>[4] = d
  BY Written
<1>2. PICK h \in Seq(Bytes) : /\ h = <<a, b, c, d>> /\ Len(h) = 4
                              /\ h[1] = a /\ h[2] = b /\ h[3] = c /\ h[4] = d
  BY <1>0
<1>3. PICK p \in Seq(Bytes) : /\ p = h \o s /\ Len(p) = 4 + Len(s) /\ From(p, 4) = s
                              /\ \A i \in 1 .. 4 : p[i] = h[i]
  BY <1>2, Behind
<1>4. ReadUint32(p) = u
  <2>1. 1 \in 1 .. 4 /\ 2 \in 1 .. 4 /\ 3 \in 1 .. 4 /\ 4 \in 1 .. 4
    BY SMTT(30)
  <2>2. p[1] = a /\ p[2] = b /\ p[3] = c /\ p[4] = d
    BY <1>2, <1>3, <2>1
  <2> QED
    BY <1>1, <2>2 DEF ReadUint32
<1>5. Len(s) \in Nat /\ Len(s) > 0 /\ Len(s) <= MAX_SESSION_ID_SIZE
  <2>1. s # <<>> /\ Len(s) <= MAX_SESSION_ID_SIZE
    BY DEF SessionIdValid
  <2> QED
    BY SMTT(30), <2>1
<1>6. Len(p) > 4 /\ Len(p) <= 4 + MAX_SESSION_ID_SIZE /\ 2 + Len(p) <= MAX_VERIFIER_PACKET_SIZE /\ 1 \in Bytes
  BY SMTT(30), <1>3, <1>5, PacketSize, LimitsPositive DEF Bytes
<1>7. Decode(<<1, 1>> \o p) = StartMessage(u, s)
  <2>1. Decode(<<1, 1>> \o p) = DecodePayload(1, p)
    BY <1>6, Header
  <2>2. DecodePayload(1, p) = StartMessage(ReadUint32(p), From(p, 4))
    <3>1. SessionIdValid(From(p, 4))
      BY <1>3
    <3> QED
      BY <1>6, <3>1, Decodings
  <2> QED
    BY <1>3, <1>4, <2>1, <2>2
<1>8. Encode(StartMessage(u, s)) = <<1, 1>> \o (WriteUint32(u) \o s)
  BY Encodings
<1>9. WriteUint32(u) \o s = p
  BY <1>1, <1>2, <1>3
<1> QED
  BY <1>7, <1>8, <1>9

\* secret_response.
LEMMA SecretExact ==
    ASSUME NEW s \in Seq(Bytes), SecretValid(s)
    PROVE  Decode(Encode(SecretMessage(s))) = SecretMessage(s)
<1>1. Len(s) <= MAX_SECRET_SIZE
  BY DEF SecretValid
<1>2. 2 + Len(s) <= MAX_VERIFIER_PACKET_SIZE /\ 2 \in Bytes
  BY SMTT(30), <1>1, PacketSize, LimitsPositive DEF Bytes
<1>3. Decode(<<1, 2>> \o s) = DecodePayload(2, s)
  BY <1>2, Header
<1>4. DecodePayload(2, s) = SecretMessage(s)
  BY Decodings
<1>5. Encode(SecretMessage(s)) = <<1, 2>> \o s
  BY Encodings
<1> QED
  BY <1>3, <1>4, <1>5

\* cancel.
LEMMA CancellationExact == Decode(Encode(CancelMessage)) = CancelMessage
<1>1. <<>> \in Seq(Bytes) /\ 2 + Len(<<>>) <= MAX_VERIFIER_PACKET_SIZE /\ 3 \in Bytes
  BY SMTT(30), PacketSize, LimitsPositive DEF Bytes
<1>2. Decode(<<1, 3>> \o <<>>) = DecodePayload(3, <<>>)
  BY <1>1, Header
<1>3. DecodePayload(3, <<>>) = CancelMessage
  BY Decodings
<1>4. Encode(CancelMessage) = <<1, 3>> \o <<>>
  BY Encodings
<1> QED
  BY <1>2, <1>3, <1>4

\* status.
LEMMA StatusExact ==
    ASSUME NEW k \in {1, 2}, NEW s \in Seq(Bytes), DisplayTextValid(s)
    PROVE  Decode(Encode(StatusMessage(k, s))) = StatusMessage(k, s)
<1>1. PICK h \in Seq(Bytes) : h = <<k>> /\ Len(h) = 1 /\ h[1] = k
  BY Written, SmallBytes
<1>2. PICK p \in Seq(Bytes) : /\ p = h \o s /\ Len(p) = 1 + Len(s) /\ From(p, 1) = s
                              /\ \A i \in 1 .. 1 : p[i] = h[i]
  BY <1>1, Behind
<1>3. Len(s) <= MAX_VERIFICATION_TEXT_SIZE
  BY DEF DisplayTextValid
<1>4. /\ p # <<>> /\ Len(p) <= 1 + MAX_VERIFICATION_TEXT_SIZE
      /\ 2 + Len(p) <= MAX_VERIFIER_PACKET_SIZE /\ 4 \in Bytes /\ 1 \in 1 .. 1
  BY SMTT(30), <1>2, <1>3, PacketSize, LimitsPositive DEF Bytes
<1>5. p[1] = k
  BY <1>1, <1>2, <1>4
<1>6. Decode(<<1, 4>> \o p) = StatusMessage(k, s)
  <2>1. Decode(<<1, 4>> \o p) = DecodePayload(4, p)
    BY <1>4, Header
  <2>2. DecodePayload(4, p) = StatusMessage(p[1], From(p, 1))
    <3>1. DisplayTextValid(From(p, 1)) /\ p[1] \in {1, 2}
      BY <1>2, <1>5
    <3> QED
      BY <1>4, <3>1, Decodings
  <2> QED
    BY <1>2, <1>5, <2>1, <2>2
<1>7. Encode(StatusMessage(k, s)) = <<1, 4>> \o (<<k>> \o s)
  BY Encodings
<1>8. <<k>> \o s = p
  BY <1>1, <1>2
<1> QED
  BY <1>6, <1>7, <1>8

\* secret_required.
LEMMA PromptExact ==
    ASSUME NEW s \in Seq(Bytes), DisplayTextValid(s)
    PROVE  Decode(Encode(PromptMessage(s))) = PromptMessage(s)
<1>1. Len(s) <= MAX_VERIFICATION_TEXT_SIZE
  BY DEF DisplayTextValid
<1>2. 2 + Len(s) <= MAX_VERIFIER_PACKET_SIZE /\ 5 \in Bytes
  BY SMTT(30), <1>1, PacketSize, LimitsPositive DEF Bytes
<1>3. Decode(<<1, 5>> \o s) = DecodePayload(5, s)
  BY <1>2, Header
<1>4. DecodePayload(5, s) = PromptMessage(s)
  BY Decodings
<1>5. Encode(PromptMessage(s)) = <<1, 5>> \o s
  BY Encodings
<1> QED
  BY <1>3, <1>4, <1>5

\* complete.
LEMMA CompletionExact ==
    ASSUME NEW k \in {1, 2, 3} PROVE Decode(Encode(CompleteMessage(k))) = CompleteMessage(k)
<1>1. PICK p \in Seq(Bytes) : p = <<k>> /\ Len(p) = 1 /\ p[1] = k
  BY Written, SmallBytes
<1>2. 2 + Len(p) <= MAX_VERIFIER_PACKET_SIZE /\ 6 \in Bytes
  BY SMTT(30), <1>1, PacketSize, LimitsPositive DEF Bytes
<1>3. Decode(<<1, 6>> \o p) = CompleteMessage(k)
  <2>1. Decode(<<1, 6>> \o p) = DecodePayload(6, p)
    BY <1>2, Header
  <2>2. DecodePayload(6, p) = CompleteMessage(p[1])
    BY <1>1, Decodings
  <2> QED
    BY <1>1, <2>1, <2>2
<1>4. Encode(CompleteMessage(k)) = <<1, 6>> \o <<k>>
  BY Encodings
<1> QED
  BY <1>1, <1>3, <1>4

\* A payload that is accepted is the payload of the message it decodes to.
LEMMA PayloadExact ==
    ASSUME NEW code \in Bytes, NEW p \in Seq(Bytes), DecodePayload(code, p) # Throws
    PROVE  /\ MessageValid(DecodePayload(code, p))
           /\ Encode(DecodePayload(code, p)) = <<1, code>> \o p
<1> DEFINE m == DecodePayload(code, p)
<1>1. CASE code = 1
  <2>1. Len(p) > 4 /\ SessionIdValid(From(p, 4)) /\ m = StartMessage(ReadUint32(p), From(p, 4))
    BY <1>1, Decodings
  <2>2. 4 \in Nat /\ 4 <= Len(p) /\ 1 \in 1 .. Len(p) /\ 2 \in 1 .. Len(p) /\ 3 \in 1 .. Len(p) /\ 4 \in 1 .. Len(p)
    BY SMTT(30), <2>1
  <2>3. p[1] \in Bytes /\ p[2] \in Bytes /\ p[3] \in Bytes /\ p[4] \in Bytes
    BY SMTT(30), <2>2
  <2>4. PICK a \in Bytes, b \in Bytes, c \in Bytes, d \in Bytes :
          p[1] = a /\ p[2] = b /\ p[3] = c /\ p[4] = d
    BY <2>3
  <2>5. WriteUint32(ReadUint32(p)) = <<a, b, c, d>>
    <3>1. ReadUint32(p) = a * 2^24 + b * 2^16 + c * 2^8 + d
      BY <2>4 DEF ReadUint32
    <3>2. WriteUint32(a * 2^24 + b * 2^16 + c * 2^8 + d) = <<a, b, c, d>>
      BY SMTT(60), Uint32
    <3> QED
      BY <3>1, <3>2
  <2>6. /\ <<a, b, c, d>> \in Seq(Bytes) /\ Len(<<a, b, c, d>>) = 4
        /\ <<a, b, c, d>>[1] = a /\ <<a, b, c, d>>[2] = b
        /\ <<a, b, c, d>>[3] = c /\ <<a, b, c, d>>[4] = d
    BY Written
  <2>7. PICK h \in Seq(Bytes) : /\ h = <<a, b, c, d>> /\ Len(h) = 4
                                /\ h[1] = a /\ h[2] = b /\ h[3] = c /\ h[4] = d
    BY <2>6
  <2>8. \A i \in 1 .. 4 : h[i] = p[i]
    BY SMTT(30), <2>7, <2>4
  <2>9. PICK n \in Nat : n = 4 /\ n = Len(h) /\ n <= Len(p) /\ \A i \in 1 .. n : h[i] = p[i]
    BY <2>2, <2>7, <2>8
  <2>12. p = h \o From(p, n)
    BY <2>9, SplitBehind
  <2>10. Encode(m) = <<1, 1>> \o (WriteUint32(ReadUint32(p)) \o From(p, 4)) /\ MessageValid(m)
    <3>1. PICK u, s : u = ReadUint32(p) /\ s = From(p, 4)
      OBVIOUS
    <3>2. SessionIdValid(s) /\ m = StartMessage(u, s)
      BY <2>1, <3>1
    <3>3. Encode(StartMessage(u, s)) = <<1, 1>> \o (WriteUint32(u) \o s) /\ MessageValid(StartMessage(u, s))
      BY <3>2, Encodings, Validities
    <3> HIDE DEF m
    <3> QED
      BY <3>1, <3>2, <3>3
  <2>11. WriteUint32(ReadUint32(p)) \o From(p, 4) = p
    BY <2>5, <2>7, <2>9, <2>12
  <2> QED
    BY <2>10, <2>11, <1>1
<1>2. CASE code = 2
  <2>1. SecretValid(p) /\ m = SecretMessage(p)
    BY <1>2, Decodings
  <2> QED
    BY <2>1, <1>2, Encodings, Validities
<1>3. CASE code = 3
  <2>1. p = <<>> /\ m = CancelMessage
    BY <1>3, Decodings
  <2> QED
    BY <2>1, <1>3, Encodings, Validities
<1>4. CASE code = 4
  <2>1. p # <<>> /\ p[1] \in {1, 2} /\ DisplayTextValid(From(p, 1)) /\ m = StatusMessage(p[1], From(p, 1))
    BY <1>4, Decodings
  <2>2. 1 \in Nat /\ 1 <= Len(p)
    BY SMTT(30), <2>1
  <2>3. p[1] \in Bytes
    BY <2>1, SmallBytes
  <2>4. <<p[1]>> \in Seq(Bytes) /\ Len(<<p[1]>>) = 1 /\ <<p[1]>>[1] = p[1]
    BY <2>3, Written
  <2>5. PICK h \in Seq(Bytes) : h = <<p[1]>> /\ Len(h) = 1 /\ h[1] = p[1]
    BY <2>4
  <2>6. \A i \in 1 .. 1 : h[i] = p[i]
    BY SMTT(30), <2>5
  <2>11. PICK n \in Nat : n = 1 /\ n = Len(h) /\ n <= Len(p) /\ \A i \in 1 .. n : h[i] = p[i]
    BY <2>2, <2>5, <2>6
  <2>12. p = h \o From(p, n) /\ From(p, n) \in Seq(Bytes)
    BY <2>11, SplitBehind
  <2>7. p = h \o From(p, 1) /\ From(p, 1) \in Seq(Bytes)
    BY <2>11, <2>12
  <2>8. IsText(From(p, 1))
    BY <2>1, <2>7, TextsAgree
  <2>9. Encode(m) = <<1, 4>> \o (<<p[1]>> \o From(p, 1)) /\ MessageValid(m)
    BY <2>1, <2>8, Encodings, Validities
  <2>10. <<p[1]>> \o From(p, 1) = p
    BY <2>5, <2>7
  <2> QED
    BY <2>9, <2>10, <1>4
<1>5. CASE code = 5
  <2>1. DisplayTextValid(p) /\ m = PromptMessage(p)
    BY <1>5, Decodings
  <2>2. IsText(p)
    BY <2>1, TextsAgree
  <2> QED
    BY <2>1, <2>2, <1>5, Encodings, Validities
<1>6. CASE code = 6
  <2>1. Len(p) = 1 /\ p[1] \in {1, 2, 3} /\ m = CompleteMessage(p[1])
    BY <1>6, Decodings
  <2>2. p = <<p[1]>>
    BY <2>1, Tuples
  <2>3. Encode(m) = <<1, 6>> \o <<p[1]>> /\ MessageValid(m)
    BY <2>1, Encodings, Validities
  <2> QED
    BY <2>2, <2>3, <1>6
<1>7. code \in {1, 2, 3, 4, 5, 6}
  BY Decodings
<1> QED
  BY <1>1, <1>2, <1>3, <1>4, <1>5, <1>6, <1>7

\* A packet that is accepted is the one encoding of a valid message: decode
\* and encode are inverse on every packet, of any length and content.
LEMMA PacketsExact == Misdecoded = {}
<1>1. ASSUME NEW q \in Seq(Bytes), Decode(q) # Throws
      PROVE  MessageValid(Decode(q)) /\ Encode(Decode(q)) = q
  <2>1. ~(Len(q) < 2) /\ q[1] = 1 /\ Decode(q) = DecodePayload(q[2], From(q, 2))
    BY <1>1 DEF Decode, VERIFIER_PROTOCOL_VERSION
  <2>2. 2 \in Nat /\ 2 <= Len(q) /\ q[2] \in Bytes
    BY SMTT(30), <2>1
  <2>3. <<1, q[2]>> \in Seq(Bytes) /\ Len(<<1, q[2]>>) = 2 /\ <<1, q[2]>>[1] = 1 /\ <<1, q[2]>>[2] = q[2]
    BY <2>2, Written, SmallBytes
  <2>4. PICK h \in Seq(Bytes) : h = <<1, q[2]>> /\ Len(h) = 2 /\ h[1] = 1 /\ h[2] = q[2]
    BY <2>3
  <2>5. \A i \in 1 .. 2 : h[i] = q[i]
    BY SMTT(30), <2>4, <2>1
  <2>9. PICK n \in Nat : n = 2 /\ n = Len(h) /\ n <= Len(q) /\ \A i \in 1 .. n : h[i] = q[i]
    BY <2>2, <2>4, <2>5
  <2>10. q = h \o From(q, n) /\ From(q, n) \in Seq(Bytes)
    BY <2>9, SplitBehind
  <2>6. q = h \o From(q, 2) /\ From(q, 2) \in Seq(Bytes)
    BY <2>9, <2>10
  <2>7. /\ MessageValid(DecodePayload(q[2], From(q, 2)))
        /\ Encode(DecodePayload(q[2], From(q, 2))) = <<1, q[2]>> \o From(q, 2)
    BY <1>1, <2>1, <2>2, <2>6, PayloadExact
  <2>8. <<1, q[2]>> \o From(q, 2) = q
    BY <2>4, <2>6
  <2> QED
    BY <2>1, <2>7, <2>8
<1> QED
  BY <1>1, InputsTyped DEF Misdecoded

\* Every valid message decodes to itself, and encode refuses every other one:
\* what the two processes of a verification send is what they receive.
LEMMA MessagesExact == Misencoded = {}
<1> DEFINE Exact(m) == IF MessageValid(m) THEN Decode(Encode(m)) = m ELSE Encode(m) = NoPacket
<1>1. ASSUME NEW u \in Uint32s, NEW s \in Seq(Bytes) PROVE Exact(StartMessage(u, s))
  <2>1. u \in Nat /\ u < 2^32
    <3>1. u \in Nat /\ u \div 2^24 < 2^8
      BY DEF Uint32s
    <3> QED
      BY SMTT(30), <3>1
  <2> QED
    BY <2>1, StartExact, Encodings, Validities DEF NoPacket
<1>2. ASSUME NEW s \in Seq(Bytes) PROVE Exact(SecretMessage(s))
  BY SecretExact, Encodings, Validities DEF NoPacket
<1>3. Exact(CancelMessage)
  BY CancellationExact, Validities
<1>4. ASSUME NEW k \in Bytes, NEW s \in Seq(Bytes) PROVE Exact(StatusMessage(k, s))
  BY StatusExact, Encodings, Validities, TextsAgree DEF NoPacket
<1>5. ASSUME NEW s \in Seq(Bytes) PROVE Exact(PromptMessage(s))
  BY PromptExact, Encodings, Validities, TextsAgree DEF NoPacket
<1>6. ASSUME NEW k \in Bytes PROVE Exact(CompleteMessage(k))
  BY CompletionExact, Encodings, Validities DEF NoPacket
<1>7. ASSUME NEW m \in AllMessages PROVE Exact(m)
  <2> HIDE DEF Exact
  <2>1. CASE m \in [type : {"start"}, targetUid : Uint32s, sessionId : Seq(Bytes)]
    <3>1. PICK u \in Uint32s, s \in Seq(Bytes) : m = StartMessage(u, s)
      BY <2>1 DEF StartMessage
    <3> QED
      BY <3>1, <1>1
  <2>2. CASE m \in [type : {"secret_response"}, secret : Seq(Bytes)]
    <3>1. PICK s \in Seq(Bytes) : m = SecretMessage(s)
      BY <2>2 DEF SecretMessage
    <3> QED
      BY <3>1, <1>2
  <2>3. CASE m \in [type : {"cancel"}]
    <3>1. m = CancelMessage
      BY <2>3 DEF CancelMessage
    <3> QED
      BY <3>1, <1>3
  <2>4. CASE m \in [type : {"status"}, kind : Bytes, message : Seq(Bytes)]
    <3>1. PICK k \in Bytes, s \in Seq(Bytes) : m = StatusMessage(k, s)
      BY <2>4 DEF StatusMessage
    <3> QED
      BY <3>1, <1>4
  <2>5. CASE m \in [type : {"secret_required"}, prompt : Seq(Bytes)]
    <3>1. PICK s \in Seq(Bytes) : m = PromptMessage(s)
      BY <2>5 DEF PromptMessage
    <3> QED
      BY <3>1, <1>5
  <2>6. CASE m \in [type : {"complete"}, result : Bytes]
    <3>1. PICK k \in Bytes : m = CompleteMessage(k)
      BY <2>6 DEF CompleteMessage
    <3> QED
      BY <3>1, <1>6
  <2> QED
    BY <2>1, <2>2, <2>3, <2>4, <2>5, <2>6 DEF AllMessages
<1> QED
  BY <1>7, InputsTyped DEF Misencoded

-----------------------------------------------------------------------------
(* The secret pipe.                                                        *)

\* What one read() returns,
Count(data, most, used) == Smaller(Smaller(SecretBuffer - used, Len(data) - used), most[used])

\* what the reader returns at the end of the pipe,
AtEnd(data, closed, used) ==
    IF SecretBuffer - used > 0 /\ ~closed THEN Throws
    ELSE IF Contains(SubSeq(data, 1, used), 0) THEN Throws
    ELSE SecretMessage(SubSeq(data, 1, used))

\* one turn of its loop,
Turn(data, closed, most, f, used) ==
    IF used > MAX_SECRET_SIZE THEN Throws
    ELSE IF Count(data, most, used) > 0 THEN f[used + Count(data, most, used)]
    ELSE AtEnd(data, closed, used)

\* and what the loop computes, however the pipe is cut.
Outcome(data, closed, used) ==
    IF used > MAX_SECRET_SIZE \/ (used < Len(data) /\ Len(data) > MAX_SECRET_SIZE) THEN Throws
    ELSE IF used < Len(data) THEN AtEnd(data, closed, Len(data))
    ELSE AtEnd(data, closed, used)

\* A read() returns something until the pipe is empty or the buffer full, and
\* never more than either.
LEMMA CountCases ==
    ASSUME NEW data \in Seq(Bytes), NEW most \in [0 .. MAX_SECRET_SIZE -> 1 .. SecretBuffer],
           NEW used \in 0 .. SecretBuffer, ~(used > MAX_SECRET_SIZE)
    PROVE  /\ Count(data, most, used) > 0 <=> used < Len(data)
           /\ used < Len(data) => \E next \in 0 .. SecretBuffer :
                 next = used + Count(data, most, used) /\ used < next /\ next <= Len(data)
<1>1. MAX_SECRET_SIZE \in Nat /\ SecretBuffer = MAX_SECRET_SIZE + 1 /\ Len(data) \in Nat
  BY SMTT(30), LimitsPositive DEF SecretBuffer
<1>2. used \in Nat /\ used <= MAX_SECRET_SIZE /\ used \in 0 .. MAX_SECRET_SIZE
  BY SMTT(30), <1>1
<1>3. PICK b \in 1 .. SecretBuffer : b = most[used]
  BY <1>2
<1>4. b \in Nat /\ b >= 1
  BY SMTT(30), <1>1
<1>5. Count(data, most, used) = Smaller(Smaller(SecretBuffer - used, Len(data) - used), b)
  BY <1>3 DEF Count
<1>8. Smaller(Smaller(SecretBuffer - used, Len(data) - used), b) \in Int
  BY SMTT(30), <1>1, <1>2, <1>4 DEF Smaller
<1>6. PICK c \in Int : c = Smaller(Smaller(SecretBuffer - used, Len(data) - used), b)
  BY <1>8
<1>7. /\ c > 0 <=> used < Len(data)
      /\ used < Len(data) => used + c \in 0 .. SecretBuffer /\ used < used + c /\ used + c <= Len(data)
  BY SMTT(30), <1>1, <1>2, <1>4, <1>6 DEF Smaller
<1> QED
  BY <1>5, <1>6, <1>7

\* The outcome is a fixed point of the loop,
LEMMA OutcomeTurns ==
    ASSUME NEW data \in Seq(Bytes), NEW closed, NEW most \in [0 .. MAX_SECRET_SIZE -> 1 .. SecretBuffer],
           NEW used \in 0 .. SecretBuffer, NEW f,
           \A next \in 0 .. SecretBuffer : used < next => f[next] = Outcome(data, closed, next)
    PROVE  Turn(data, closed, most, f, used) = Outcome(data, closed, used)
<1>1. CASE used > MAX_SECRET_SIZE
  BY <1>1 DEF Turn, Outcome
<1>2. CASE ~(used > MAX_SECRET_SIZE) /\ ~(used < Len(data))
  <2>1. ~(Count(data, most, used) > 0)
    BY <1>2, CountCases
  <2> QED
    BY <1>2, <2>1 DEF Turn, Outcome
<1>3. CASE ~(used > MAX_SECRET_SIZE) /\ used < Len(data)
  <2>1. PICK next \in 0 .. SecretBuffer :
          next = used + Count(data, most, used) /\ used < next /\ next <= Len(data)
    BY <1>3, CountCases
  <2>2. Turn(data, closed, most, f, used) = Outcome(data, closed, next)
    <3>1. Count(data, most, used) > 0
      BY <1>3, CountCases
    <3> QED
      BY <1>3, <2>1, <3>1 DEF Turn
  <2>3. /\ Len(data) \in Nat /\ next \in Nat /\ MAX_SECRET_SIZE \in Nat
    BY SMTT(30), LimitsPositive DEF SecretBuffer
  <2>4. next > MAX_SECRET_SIZE => Len(data) > MAX_SECRET_SIZE
    BY SMTT(30), <2>1, <2>3
  <2>5. next < Len(data) \/ next = Len(data)
    BY SMTT(30), <2>1, <2>3
  <2>6. ~(next > MAX_SECRET_SIZE) /\ next = Len(data) => ~(Len(data) > MAX_SECRET_SIZE) /\ ~(next < Len(data))
    BY SMTT(30), <2>3
  <2>7. Outcome(data, closed, next) = Outcome(data, closed, used)
    <3>1. CASE Len(data) > MAX_SECRET_SIZE
      <4>1. next > MAX_SECRET_SIZE \/ next < Len(data)
        BY <2>5, <2>6, <3>1
      <4> QED
        BY <1>3, <3>1, <4>1 DEF Outcome
    <3>2. CASE ~(Len(data) > MAX_SECRET_SIZE)
      <4>1. ~(next > MAX_SECRET_SIZE)
        BY <2>4, <3>2
      <4>2. Outcome(data, closed, used) = AtEnd(data, closed, Len(data))
        BY <1>3, <3>2 DEF Outcome
      <4>3. CASE next < Len(data)
        BY <3>2, <4>1, <4>2, <4>3 DEF Outcome
      <4>4. CASE next = Len(data)
        <5>1. ~(next < Len(data))
          BY <2>6, <4>1, <4>4
        <5>2. Outcome(data, closed, next) = AtEnd(data, closed, next)
          BY <4>1, <5>1 DEF Outcome
        <5> QED
          BY <4>2, <4>4, <5>2
      <4> QED
        BY <2>5, <4>3, <4>4
    <3> QED
      BY <3>1, <3>2
  <2> QED
    BY <2>2, <2>7
<1> QED
  BY <1>1, <1>2, <1>3

\* and the only one.
LEMMA OutcomeUnique ==
    ASSUME NEW data \in Seq(Bytes), NEW closed, NEW most \in [0 .. MAX_SECRET_SIZE -> 1 .. SecretBuffer],
           NEW f, \A used \in 0 .. SecretBuffer : f[used] = Turn(data, closed, most, f, used)
    PROVE  f[0] = Outcome(data, closed, 0)
<1> DEFINE T == {m \in 0 .. SecretBuffer : f[SecretBuffer - m] # Outcome(data, closed, SecretBuffer - m)}
<1>1. SecretBuffer \in Nat
  BY SMTT(30), LimitsPositive DEF SecretBuffer
<1>2. ASSUME T # {} PROVE FALSE
  <2>1. T \subseteq Nat
    BY SMTT(30), <1>1
  <2>2. PICK m \in T : \A y \in T : m <= y
    BY <1>2, <2>1, Least
  <2>3. m \in 0 .. SecretBuffer /\ f[SecretBuffer - m] # Outcome(data, closed, SecretBuffer - m)
    OBVIOUS
  <2>4. PICK used \in 0 .. SecretBuffer : used = SecretBuffer - m
    BY SMTT(30), <1>1, <2>3
  <2>5. ASSUME NEW next \in 0 .. SecretBuffer, used < next PROVE f[next] = Outcome(data, closed, next)
    <3>1. PICK y \in 0 .. SecretBuffer : next = SecretBuffer - y /\ ~(m <= y)
      <4>1. SecretBuffer - next \in 0 .. SecretBuffer /\ next = SecretBuffer - (SecretBuffer - next)
            /\ ~(m <= SecretBuffer - next)
        BY SMTT(30), <1>1, <2>3, <2>4, <2>5
      <4> QED
        BY <4>1
    <3>2. y \notin T
      BY <2>2, <3>1
    <3> QED
      BY <3>1, <3>2
  <2>6. Turn(data, closed, most, f, used) = Outcome(data, closed, used)
    BY <2>5, OutcomeTurns
  <2> QED
    BY <2>3, <2>4, <2>6
<1>3. SecretBuffer \in 0 .. SecretBuffer /\ SecretBuffer - SecretBuffer = 0
  BY SMTT(30), <1>1
<1> QED
  BY <1>2, <1>3

\* read_secret_pipe returns the outcome.
LEMMA PipeRead ==
    ASSUME NEW data \in Seq(Bytes), NEW closed, NEW most \in [0 .. MAX_SECRET_SIZE -> 1 .. SecretBuffer]
    PROVE  ReadSecretPipe(data, closed, most) = Outcome(data, closed, 0)
<1> DEFINE F(f) == [used \in 0 .. SecretBuffer |-> Turn(data, closed, most, f, used)]
           read == CHOOSE f : f = F(f)
<1>1. ReadSecretPipe(data, closed, most) = read[0]
  BY DEF ReadSecretPipe, Turn, Count, AtEnd, SecretMessage
<1>2. PICK f : f = [used \in 0 .. SecretBuffer |-> Outcome(data, closed, used)]
  OBVIOUS
<1>3. \A used \in 0 .. SecretBuffer : f[used] = Outcome(data, closed, used)
  BY <1>2
<1>4. \A used \in 0 .. SecretBuffer : Turn(data, closed, most, f, used) = Outcome(data, closed, used)
  BY <1>3, OutcomeTurns
<1>5. f = F(f)
  BY <1>2, <1>4
<1>6. read = F(read)
  BY <1>5
<1> HIDE DEF read
<1>7. \A used \in 0 .. SecretBuffer : read[used] = Turn(data, closed, most, read, used)
  <2>1. \A used \in 0 .. SecretBuffer : F(read)[used] = Turn(data, closed, most, read, used)
    OBVIOUS
  <2> HIDE DEF F
  <2>2. \A g, h : g = h => \A used \in 0 .. SecretBuffer : g[used] = h[used]
    OBVIOUS
  <2> QED
    BY <1>6, <2>1, <2>2
<1>8. read[0] = Outcome(data, closed, 0)
  BY <1>7, OutcomeUnique
<1> QED
  BY <1>1, <1>8

\* A valid secret whose pipe was closed is the secret the verifier decodes, and
\* anything else is refused.
LEMMA SecretsExact == Misread = {}
<1>1. ASSUME NEW data \in Seq(Bytes), NEW closed \in BOOLEAN,
             NEW most \in [0 .. MAX_SECRET_SIZE -> 1 .. SecretBuffer]
      PROVE  IF closed /\ SecretValid(data)
             THEN Decode(Encode(ReadSecretPipe(data, closed, most))) = SecretMessage(data)
             ELSE ReadSecretPipe(data, closed, most) = Throws
  <2>1. ReadSecretPipe(data, closed, most) = Outcome(data, closed, 0)
    BY PipeRead
  <2>2. SubSeq(data, 1, Len(data)) = data
    BY SMTT(30)
  <2>3. Len(data) \in Nat /\ MAX_SECRET_SIZE \in Nat /\ SecretBuffer = MAX_SECRET_SIZE + 1
    BY SMTT(30), LimitsPositive DEF SecretBuffer
  <2>4. ~(0 > MAX_SECRET_SIZE) /\ (~(0 < Len(data)) => Len(data) = 0 /\ ~(Len(data) > MAX_SECRET_SIZE))
    BY SMTT(30), <2>3
  <2>5. CASE Len(data) > MAX_SECRET_SIZE
    <3>1. ~SecretValid(data)
      <4>1. ~(Len(data) <= MAX_SECRET_SIZE)
        BY SMTT(30), <2>3, <2>5
      <4> QED
        BY <4>1 DEF SecretValid
    <3>2. Outcome(data, closed, 0) = Throws
      BY <2>4, <2>5 DEF Outcome
    <3> QED
      BY <2>1, <3>1, <3>2
  <2>6. CASE ~(Len(data) > MAX_SECRET_SIZE)
    <3>1. Outcome(data, closed, 0) = AtEnd(data, closed, Len(data))
      BY <2>4, <2>6 DEF Outcome
    <3>2. SecretBuffer - Len(data) > 0 /\ Len(data) <= MAX_SECRET_SIZE
      BY SMTT(30), <2>3, <2>6
    <3>3. AtEnd(data, closed, Len(data)) =
            IF ~closed \/ Contains(data, 0) THEN Throws ELSE SecretMessage(data)
      BY <2>2, <3>2 DEF AtEnd
    <3>4. SecretValid(data) <=> ~Contains(data, 0)
      BY <3>2 DEF SecretValid
    <3>5. CASE closed /\ SecretValid(data)
      <4>1. ReadSecretPipe(data, closed, most) = SecretMessage(data)
        BY <2>1, <3>1, <3>3, <3>4, <3>5
      <4>2. Decode(Encode(SecretMessage(data))) = SecretMessage(data)
        BY <3>5, SecretExact
      <4> QED
        BY <3>5, <4>1, <4>2
    <3>6. CASE ~(closed /\ SecretValid(data))
      <4>1. ReadSecretPipe(data, closed, most) = Throws
        BY <2>1, <3>1, <3>3, <3>4, <3>6
      <4> QED
        BY <3>6, <4>1
    <3> QED
      BY <3>5, <3>6
  <2> QED
    BY <2>5, <2>6
<1> QED
  BY <1>1, InputsTyped DEF Misread, SecretMessage

\* Any messages and any packets of bytes, whatever their lengths: a valid
\* message is what decode_verifier_message makes of its encoding, no other is
\* encoded, and a packet that decodes is the one encoding of a valid message.
THEOREM EveryPacketExact == Spec => []CodecExact
<1>1. CodecExact
  BY MessagesExact, PacketsExact DEF CodecExact
<1> QED
  BY <1>1, PTL

\* Any secrets the agent writes, of any length, and however read() cuts them
\* into pieces: read_secret_pipe never hands PAM a part of a secret, or one
\* whose pipe failed, and never refuses a valid one.
THEOREM EverySecretUnchanged == Spec => []SecretUnchanged
<1>1. SecretUnchanged
  BY SecretsExact DEF SecretUnchanged
<1> QED
  BY <1>1, PTL
=============================================================================
