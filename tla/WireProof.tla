----------------------------- MODULE WireProof -----------------------------
(***************************************************************************)
(* Proofs about Wire, for every text, every code and every run of bytes:   *)
(* the header that is read is the one that was written, a message is the   *)
(* text of its fragments, and which codes come back in reply to a close.   *)
(*                                                                         *)
(* What recursive functions compute is proved with sets closed under the   *)
(* step of the induction (InductiveSet).                                   *)
(***************************************************************************)
EXTENDS WireInvariant, SequenceTheorems, WellFoundedInduction, TLAPS

-----------------------------------------------------------------------------
(* Induction.                                                              *)

NatLess == {p \in Nat \X Nat : p[1] < p[2]}

LEMMA LeastNat ==
  ASSUME NEW T \in SUBSET Nat, T # {}
  PROVE  \E x \in T : \A y \in T : x <= y
<1>1. IsWellFoundedOn(NatLess, Nat)
  BY NatLessThanWellFounded DEF NatLess, OpToRel
<1>2. PICK x \in T : \A y \in T : ~(<<y, x>> \in NatLess)
  BY <1>1, WFMin
<1>3. ASSUME NEW y \in T PROVE x <= y
  <2>1. x \in Nat /\ y \in Nat /\ <<y, x>> \in Nat \X Nat
    OBVIOUS
  <2>2. ~(<<y, x>>[1] < <<y, x>>[2])
    BY <1>2, <2>1 DEF NatLess
  <2>3. <<y, x>>[1] = y /\ <<y, x>>[2] = x
    OBVIOUS
  <2>4. ~(y < x)
    BY <2>2, <2>3, Zenon
  <2> QED BY <2>1, <2>4
<1> QED BY <1>3

LEMMA InductiveSet ==
  ASSUME NEW T \in SUBSET Nat, 0 \in T, \A n \in T : n + 1 \in T
  PROVE  T = Nat
<1>1. SUFFICES ASSUME Nat \ T # {} PROVE FALSE
  OBVIOUS
<1>2. PICK x \in Nat \ T : \A y \in Nat \ T : x <= y
  <2>1. Nat \ T \in SUBSET Nat
    OBVIOUS
  <2> QED BY <1>1, <2>1, LeastNat
<1>3. x - 1 \in Nat /\ ~(x <= x - 1) /\ (x - 1) + 1 = x
  BY <1>2
<1>4. x - 1 \in T
  BY <1>2, <1>3
<1> QED BY <1>2, <1>3, <1>4

(* The values of a function that is defined from one argument to the next. *)
LEMMA Stays ==
  ASSUME NEW n \in Nat, NEW v, v[0] \in Nat,
         \A k \in 1 .. n : v[k - 1] \in Nat => v[k] \in Nat
  PROVE  \A k \in 0 .. n : v[k] \in Nat
<1> DEFINE T == {m \in Nat : m <= n => v[m] \in Nat}
<1>1. 0 \in T
  OBVIOUS
<1>2. ASSUME NEW m \in T PROVE m + 1 \in T
  <2>1. m \in Nat /\ (m <= n => v[m] \in Nat)
    OBVIOUS
  <2>2. ASSUME m + 1 <= n PROVE v[m + 1] \in Nat
    <3>1. m + 1 \in 1 .. n /\ (m + 1) - 1 = m /\ m <= n
      BY <2>1, <2>2
    <3> QED BY <2>1, <3>1
  <2> QED BY <2>1, <2>2
<1>3. T = Nat
  <2>1. T \in SUBSET Nat
    OBVIOUS
  <2> HIDE DEF T
  <2> QED BY <1>1, <1>2, <2>1, InductiveSet
<1>4. ASSUME NEW k \in 0 .. n PROVE v[k] \in Nat
  <2>1. k \in T /\ k <= n
    BY <1>3
  <2> QED BY <2>1
<1> QED BY <1>4

(* There is one. *)
LEMMA Iterated ==
  ASSUME NEW b \in Nat, NEW n \in Nat, NEW step \in [Nat \X (1 .. n) -> Nat]
  PROVE  \E g \in [0 .. n -> Nat] :
           g[0] = b /\ \A k \in 1 .. n : g[k] = step[<<g[k - 1], k>>]
<1> DEFINE Up(m) == \E g \in [0 .. m -> Nat] :
                      g[0] = b /\ \A k \in 1 .. m : g[k] = step[<<g[k - 1], k>>]
           T == {m \in Nat : m <= n => Up(m)}
<1>1. 0 \in T
  <2> DEFINE g == [k \in 0 .. 0 |-> b]
  <2>1. g \in [0 .. 0 -> Nat] /\ g[0] = b /\ \A k \in 1 .. 0 : g[k] = step[<<g[k - 1], k>>]
    OBVIOUS
  <2> HIDE DEF g
  <2> QED BY <2>1
<1>2. ASSUME NEW m \in T PROVE m + 1 \in T
  <2>1. m \in Nat /\ m + 1 \in Nat /\ (m <= n => Up(m))
    BY SMTT(40)
  <2>2. ASSUME m + 1 <= n PROVE Up(m + 1)
    <3>1. m <= n /\ m + 1 \in 1 .. n
      BY <2>1, <2>2
    <3>2. PICK g \in [0 .. m -> Nat] :
            g[0] = b /\ \A k \in 1 .. m : g[k] = step[<<g[k - 1], k>>]
      BY <2>1, <3>1
    <3> DEFINE h == [k \in 0 .. m + 1 |-> IF k = m + 1 THEN step[<<g[m], m + 1>>] ELSE g[k]]
    <3>3. g[m] \in Nat /\ step[<<g[m], m + 1>>] \in Nat
      BY <2>1, <3>1
    <3>4. h \in [0 .. m + 1 -> Nat] /\ h[0] = b
      <4>1. ASSUME NEW k \in 0 .. m + 1 PROVE h[k] \in Nat
        BY <2>1, <3>3
      <4>2. 0 # m + 1 /\ 0 \in 0 .. m + 1
        BY <2>1
      <4>3. h[0] = b
        BY <3>2, <4>2
      <4> QED BY <4>1, <4>3
    <3>5. ASSUME NEW k \in 1 .. m + 1 PROVE h[k] = step[<<h[k - 1], k>>]
      <4>1. k - 1 \in 0 .. m + 1 /\ k - 1 # m + 1 /\ h[k - 1] = g[k - 1]
        BY <2>1
      <4>2. CASE k = m + 1
        <5>1. k - 1 = m /\ h[k] = step[<<g[m], m + 1>>]
          BY <2>1, <4>2
        <5> QED BY <4>1, <4>2, <5>1
      <4>3. CASE k # m + 1
        <5>1. k \in 1 .. m /\ h[k] = g[k]
          BY <2>1, <4>3
        <5> QED BY <3>2, <4>1, <5>1
      <4> QED BY <4>2, <4>3
    <3> HIDE DEF h
    <3> QED BY <3>4, <3>5
  <2> HIDE DEF Up
  <2> QED BY <2>1, <2>2
<1>3. T = Nat
  <2>1. T \in SUBSET Nat
    OBVIOUS
  <2> HIDE DEF T
  <2> QED BY <1>1, <1>2, <2>1, InductiveSet
<1>4. n \in T
  BY <1>3
<1> QED BY <1>4

-----------------------------------------------------------------------------
(* Numbers as bytes.                                                       *)

LEMMA ByteTypes ==
  ASSUME NEW x \in Nat
  PROVE  /\ LowByte(x) \in Bytes /\ LowByte(x) \in Nat /\ HighBytes(x) \in Nat
         /\ \A y \in Nat : Joined(x, y) \in Nat
         /\ Joined(HighBytes(x), LowByte(x)) = x
  BY DEF LowByte, HighBytes, Joined, Bytes

LEMMA NumberSteps ==
  ASSUME NEW bytes \in Seq(Nat)
  PROVE  \E v \in [0 .. Len(bytes) -> Nat] :
           /\ v[0] = 0
           /\ \A k \in 1 .. Len(bytes) : v[k] = Joined(v[k - 1], bytes[k])
           /\ Number(bytes) = v[Len(bytes)]
<1> DEFINE n == Len(bytes)
           Def(g) == g = [k \in 0 .. n |-> IF k = 0 THEN 0 ELSE Joined(g[k - 1], bytes[k])]
           v == CHOOSE g : Def(g)
<1>1. n \in Nat /\ 0 \in Nat /\ \A k \in 1 .. n : bytes[k] \in Nat
  OBVIOUS
<1>4. Number(bytes) = v[n]
  BY DEF Number
<1> HIDE DEF n
<1>2. \E g : Def(g)
  <2> DEFINE step == [p \in Nat \X (1 .. n) |-> Joined(p[1], bytes[p[2]])]
  <2>1. step \in [Nat \X (1 .. n) -> Nat]
    BY <1>1 DEF Joined
  <2>2. \A x \in Nat, k \in 1 .. n : step[<<x, k>>] = Joined(x, bytes[k])
    OBVIOUS
  <2> HIDE DEF step
  <2>3. PICK g \in [0 .. n -> Nat] :
          g[0] = 0 /\ \A k \in 1 .. n : g[k] = step[<<g[k - 1], k>>]
    BY <1>1, <2>1, Iterated, ZenonT(40)
  <2>4. ASSUME NEW k \in 0 .. n PROVE g[k] = IF k = 0 THEN 0 ELSE Joined(g[k - 1], bytes[k])
    <3>1. CASE k # 0
      <4>1. k \in 1 .. n /\ k - 1 \in 0 .. n /\ g[k - 1] \in Nat
        BY <1>1, <2>3, <3>1
      <4> QED BY <2>2, <2>3, <3>1, <4>1, Zenon
    <3> QED BY <2>3, <3>1
  <2>5. g = [k \in 0 .. n |-> g[k]]
    BY <2>3
  <2>6. Def(g)
    BY <2>4, <2>5
  <2> HIDE DEF Def
  <2> QED BY <2>6
<1>3. Def(v)
  <2> HIDE DEF Def
  <2> QED BY <1>2
<1> HIDE DEF v
<1>5. v[0] = 0 /\ \A k \in 1 .. n : v[k] = Joined(v[k - 1], bytes[k])
  <2>1. \A k \in 0 .. n : v[k] = IF k = 0 THEN 0 ELSE Joined(v[k - 1], bytes[k])
    BY <1>3
  <2>2. \A k \in 1 .. n : k \in 0 .. n /\ k # 0
    BY <1>1
  <2>3. 0 \in 0 .. n
    BY <1>1
  <2> QED BY <2>1, <2>2, <2>3
<1>6. \A k \in 0 .. n : v[k] \in Nat
  <2>1. ASSUME NEW k \in 1 .. n, v[k - 1] \in Nat PROVE v[k] \in Nat
    <3>1. v[k] = Joined(v[k - 1], bytes[k]) /\ bytes[k] \in Nat
      BY <1>1, <1>5, Zenon
    <3> QED BY <2>1, <3>1, ByteTypes
  <2> QED BY <1>1, <1>5, <2>1, Stays, Zenon
<1>7. v \in [0 .. n -> Nat]
  BY <1>3, <1>6
<1> QED BY <1>4, <1>5, <1>7 DEF n

LEMMA BytesSteps ==
  ASSUME NEW value \in Nat, NEW n \in Nat
  PROVE  \E v \in [0 .. n -> Nat] :
           /\ v[0] = value
           /\ \A k \in 1 .. n : v[k] = HighBytes(v[k - 1])
           /\ BigEndian(value, n) = [i \in 1 .. n |-> LowByte(v[n - i])]
<1> DEFINE Def(g) == g = [k \in 0 .. n |-> IF k = 0 THEN value ELSE HighBytes(g[k - 1])]
           v == CHOOSE g : Def(g)
<1>1. \E g : Def(g)
  <2> DEFINE step == [p \in Nat \X (1 .. n) |-> HighBytes(p[1])]
  <2>1. step \in [Nat \X (1 .. n) -> Nat]
    BY DEF HighBytes
  <2>2. \A x \in Nat, k \in 1 .. n : step[<<x, k>>] = HighBytes(x)
    OBVIOUS
  <2> HIDE DEF step
  <2>3. PICK g \in [0 .. n -> Nat] :
          g[0] = value /\ \A k \in 1 .. n : g[k] = step[<<g[k - 1], k>>]
    BY <2>1, Iterated, ZenonT(40)
  <2>4. ASSUME NEW k \in 0 .. n PROVE g[k] = IF k = 0 THEN value ELSE HighBytes(g[k - 1])
    <3>1. CASE k # 0
      <4>1. k \in 1 .. n /\ k - 1 \in 0 .. n /\ g[k - 1] \in Nat
        BY <2>3, <3>1
      <4> QED BY <2>2, <2>3, <3>1, <4>1, Zenon
    <3> QED BY <2>3, <3>1
  <2>5. g = [k \in 0 .. n |-> g[k]]
    BY <2>3
  <2>6. Def(g)
    BY <2>4, <2>5
  <2> HIDE DEF Def
  <2> QED BY <2>6
<1>2. Def(v)
  <2> HIDE DEF Def
  <2> QED BY <1>1
<1>3. BigEndian(value, n) = [i \in 1 .. n |-> LowByte(v[n - i])]
  BY DEF BigEndian
<1> HIDE DEF v
<1>4. v[0] = value /\ \A k \in 1 .. n : v[k] = HighBytes(v[k - 1])
  BY <1>2
<1>5. \A k \in 0 .. n : v[k] \in Nat
  <2>1. ASSUME NEW k \in 1 .. n, v[k - 1] \in Nat PROVE v[k] \in Nat
    <3>1. v[k] = HighBytes(v[k - 1])
      BY <1>4
    <3> QED BY <2>1, <3>1, ByteTypes
  <2> QED BY <1>4, <2>1, Stays, Zenon
<1>6. v \in [0 .. n -> Nat]
  BY <1>2, <1>5
<1> QED BY <1>3, <1>4, <1>6

(* Bytes are bytes, and as many as were asked for. *)
LEMMA BytesType ==
  ASSUME NEW value \in Nat, NEW n \in Nat
  PROVE  /\ BigEndian(value, n) \in Seq(Bytes) /\ Len(BigEndian(value, n)) = n
         /\ BigEndian(value, n) \in Seq(Int)
<1>1. PICK v \in [0 .. n -> Nat] :
        /\ v[0] = value
        /\ \A k \in 1 .. n : v[k] = HighBytes(v[k - 1])
        /\ BigEndian(value, n) = [i \in 1 .. n |-> LowByte(v[n - i])]
  BY BytesSteps, Zenon
<1>2. ASSUME NEW i \in 1 .. n PROVE LowByte(v[n - i]) \in Bytes /\ LowByte(v[n - i]) \in Int
  <2>1. n - i \in 0 .. n
    OBVIOUS
  <2>2. v[n - i] \in Nat
    BY <2>1
  <2>3. LowByte(v[n - i]) \in Bytes /\ LowByte(v[n - i]) \in Nat
    BY <2>2, ByteTypes
  <2> QED BY <2>3
<1>3. BigEndian(value, n) \in Seq(Bytes) /\ Len(BigEndian(value, n)) = n
  BY <1>1, <1>2
<1>4. BigEndian(value, n) \in Seq(Int)
  BY <1>1, <1>2
<1> QED BY <1>3, <1>4

(* What is written in enough bytes is read. *)
LEMMA ReadBack ==
  ASSUME NEW value \in Nat, NEW n \in Nat, NEW v \in [0 .. n -> Nat],
         v[0] = value, \A k \in 1 .. n : v[k] = HighBytes(v[k - 1]), v[n] = 0,
         BigEndian(value, n) = [i \in 1 .. n |-> LowByte(v[n - i])]
  PROVE  Number(BigEndian(value, n)) = value
<1> DEFINE bytes == BigEndian(value, n)
<1>1. bytes \in Seq(Nat) /\ Len(bytes) = n
  <2>1. ASSUME NEW i \in 1 .. n PROVE LowByte(v[n - i]) \in Nat
    <3>1. v[n - i] \in Nat
      OBVIOUS
    <3> QED BY <3>1, ByteTypes
  <2>2. bytes = [i \in 1 .. n |-> LowByte(v[n - i])]
    OBVIOUS
  <2> HIDE DEF bytes
  <2> QED BY <2>1, <2>2
<1>2. \A i \in 1 .. n : bytes[i] = LowByte(v[n - i])
  OBVIOUS
<1> HIDE DEF bytes
<1>3. PICK w \in [0 .. Len(bytes) -> Nat] :
        /\ w[0] = 0
        /\ \A k \in 1 .. Len(bytes) : w[k] = Joined(w[k - 1], bytes[k])
        /\ Number(bytes) = w[Len(bytes)]
  BY <1>1, NumberSteps
<1> DEFINE T == {m \in Nat : m <= n => w[m] = v[n - m]}
<1>4. 0 \in T
  <2>1. n - 0 = n
    OBVIOUS
  <2> QED BY <1>3, <2>1
<1>5. ASSUME NEW m \in T PROVE m + 1 \in T
  <2>1. m \in Nat /\ m + 1 \in Nat /\ (m <= n => w[m] = v[n - m])
    OBVIOUS
  <2>2. ASSUME m + 1 <= n PROVE w[m + 1] = v[n - (m + 1)]
    <3> DEFINE k == m + 1
               j == n - m
    <3>1. k \in 1 .. n /\ k - 1 = m /\ j \in 1 .. n /\ j - 1 = n - k /\ n - k \in 0 .. n /\ m <= n
      BY <2>1, <2>2
    <3> HIDE DEF k, j
    <3>2. w[k] = Joined(w[m], bytes[k]) /\ bytes[k] = LowByte(v[n - k])
      BY <1>1, <1>2, <1>3, <3>1
    <3>3. w[m] = v[j]
      BY <2>1, <3>1 DEF j
    <3>4. v[j] = HighBytes(v[n - k]) /\ v[n - k] \in Nat
      BY <3>1
    <3>5. w[k] = v[n - k]
      BY <3>2, <3>3, <3>4, ByteTypes
    <3> QED BY <3>5 DEF k
  <2> QED BY <2>1, <2>2
<1>6. T = Nat
  <2>1. T \in SUBSET Nat
    OBVIOUS
  <2> HIDE DEF T
  <2> QED BY <1>4, <1>5, <2>1, InductiveSet
<1>7. w[n] = v[n - n] /\ n - n = 0
  <2>1. n \in T
    BY <1>6
  <2> QED BY <2>1
<1> QED BY <1>1, <1>3, <1>7 DEF bytes

(* A u16, and a u64. *)
LEMMA HighOfSmall ==
  ASSUME NEW value \in Nat, value < 65536
  PROVE  HighBytes(HighBytes(value)) = 0
  BY DEF HighBytes

LEMMA TwoBytes ==
  ASSUME NEW value \in Nat, HighBytes(HighBytes(value)) = 0
  PROVE  Number(BigEndian(value, 2)) = value
<1>1. 2 \in Nat
  OBVIOUS
<1>2. PICK v \in [0 .. 2 -> Nat] :
        /\ v[0] = value
        /\ \A k \in 1 .. 2 : v[k] = HighBytes(v[k - 1])
        /\ BigEndian(value, 2) = [i \in 1 .. 2 |-> LowByte(v[2 - i])]
  BY <1>1, BytesSteps
<1>3. v[1] = HighBytes(v[0]) /\ v[2] = HighBytes(v[1])
  <2>1. 1 \in 1 .. 2 /\ 1 - 1 = 0 /\ 2 \in 1 .. 2 /\ 2 - 1 = 1
    OBVIOUS
  <2> QED BY <1>2, <2>1
<1>4. v[2] = 0
  BY <1>2, <1>3
<1> QED BY <1>1, <1>2, <1>4, ReadBack

LEMMA EightBytes ==
  ASSUME NEW value \in Nat, IsU64(value)
  PROVE  Number(BigEndian(value, 8)) = value
<1>1. 8 \in Nat
  OBVIOUS
<1>2. PICK v \in [0 .. 8 -> Nat] :
        /\ v[0] = value
        /\ \A k \in 1 .. 8 : v[k] = HighBytes(v[k - 1])
        /\ BigEndian(value, 8) = [i \in 1 .. 8 |-> LowByte(v[8 - i])]
  BY <1>1, BytesSteps
<1>3. \A x \in Nat : HighBytes(x) \in Nat /\ 256 * HighBytes(x) <= x
  BY DEF HighBytes
<1>4. ASSUME NEW k \in 1 .. 8 PROVE v[k - 1] \in Nat /\ v[k] \in Nat /\ 256 * v[k] <= v[k - 1]
  <2>1. k \in 0 .. 8 /\ k - 1 \in 0 .. 8 /\ v[k] = HighBytes(v[k - 1])
    BY <1>2
  <2>2. v[k - 1] \in Nat
    BY <2>1
  <2> QED BY <1>3, <2>1, <2>2
<1>5. /\ 256 * v[1] <= v[0] /\ 256 * v[2] <= v[1] /\ 256 * v[3] <= v[2] /\ 256 * v[4] <= v[3]
      /\ 256 * v[5] <= v[4] /\ 256 * v[6] <= v[5] /\ 256 * v[7] <= v[6] /\ 256 * v[8] <= v[7]
      /\ \A k \in 0 .. 8 : v[k] \in Nat
  <2>1. \A k \in 0 .. 8 : k = 0 \/ (k \in 1 .. 8)
    OBVIOUS
  <2>2. 256 * v[1] <= v[1 - 1] /\ 256 * v[2] <= v[2 - 1] /\ 256 * v[3] <= v[3 - 1]
    BY <1>4
  <2>3. 256 * v[4] <= v[4 - 1] /\ 256 * v[5] <= v[5 - 1] /\ 256 * v[6] <= v[6 - 1]
    BY <1>4
  <2>4. 256 * v[7] <= v[7 - 1] /\ 256 * v[8] <= v[8 - 1]
    BY <1>4
  <2>5. \A k \in 0 .. 8 : v[k] \in Nat
    OBVIOUS
  <2> QED BY <2>2, <2>3, <2>4, <2>5
<1>6. v[8] = 0
  <2>1. \A a, b, c, d, e, f, g, h, i \in Nat :
          /\ 256 * b <= a /\ 256 * c <= b /\ 256 * d <= c /\ 256 * e <= d
          /\ 256 * f <= e /\ 256 * g <= f /\ 256 * h <= g /\ 256 * i <= h
          /\ a < 65536 * 65536 * 65536 * 65536
          => i = 0
    OBVIOUS
  <2> QED BY <1>2, <1>5, <2>1 DEF IsU64
<1> QED BY <1>1, <1>2, <1>6, ReadBack

-----------------------------------------------------------------------------
(* Closes.                                                                 *)

(* What into_close makes of the payload of a close frame. *)
LEMMA CloseRead ==
  ASSUME NEW c \in [code : Nat, reason : {"text", "other"}], HighBytes(HighBytes(c.code)) = 0
  PROVE  /\ c # NoClose
         /\ c.reason = "text" => IntoClose(ClosePayload(c)) = [err |-> "Ok", close |-> c]
         /\ c.reason = "other" => IntoClose(ClosePayload(c)).err = "Utf8"
<1>1. c # NoClose
  BY DEF NoClose
<1> DEFINE bytes == BigEndian(c.code, 2)
<1>2. Len(bytes) = 2 /\ Number(bytes) = c.code
  <2>1. c.code \in Nat /\ 2 \in Nat
    OBVIOUS
  <2>2. Len(bytes) = 2
    BY <2>1, BytesType
  <2>3. Number(bytes) = c.code
    BY <2>1, TwoBytes
  <2> QED BY <2>2, <2>3
<1>3. ClosePayload(c) = [bytes |-> bytes, reason |-> c.reason]
  BY <1>1 DEF ClosePayload
<1> HIDE DEF bytes
<1>4. bytes # <<>> /\ Len(bytes) # 1
  BY <1>2, SMTT(40)
<1>5. IntoClose(ClosePayload(c)) =
        IF c.reason = "text"
        THEN [err |-> "Ok", close |-> [code |-> c.code, reason |-> "text"]]
        ELSE [err |-> "Utf8", close |-> NoClose]
  BY <1>2, <1>3, <1>4 DEF IntoClose
<1>6. c = [code |-> c.code, reason |-> c.reason]
  OBVIOUS
<1> QED BY <1>1, <1>5, <1>6

LEMMA EmptyCloseRead ==
  /\ IntoClose(ClosePayload(NoClose)) = [err |-> "Ok", close |-> NoClose]
  /\ IntoClose([bytes |-> <<3>>, reason |-> "text"]).err = "Protocol"
<1>1. <<3>> # <<>> /\ Len(<<3>>) = 1
  OBVIOUS
<1> QED BY <1>1 DEF IntoClose, ClosePayload

LEMMA ReplyCode ==
  ASSUME NEW c \in Closes \union {NoClose}
  PROVE  /\ Reply(c) \in {c, [code |-> 1002, reason |-> "text"]}
         /\ Reply(c) # NoClose =>
              Reply(c).code \in Sendable
         /\ c = NoClose => Reply(c) = NoClose
         /\ c # NoClose => Reply(c) # NoClose
<1>1. \A code : IsAllowed(code) => code \in Sendable
  BY DEF IsAllowed, Named, Sendable
<1>2. [code |-> 1002, reason |-> "text"].code \in Sendable
  BY DEF Sendable
<1>3. [code |-> 1002, reason |-> "text"] # NoClose
  BY DEF NoClose
<1> QED BY <1>1, <1>2, <1>3 DEF Reply

LEMMA CloseTypes ==
  ASSUME NEW c \in Closes
  PROVE  /\ c \in [code : Nat, reason : {"text", "other"}] /\ HighBytes(HighBytes(c.code)) = 0
         /\ c.reason = "text" =>
              /\ Reply(c) \in [code : Nat, reason : {"text", "other"}]
              /\ HighBytes(HighBytes(Reply(c).code)) = 0 /\ Reply(c).reason = "text"
<1>1. c \in [code : Nat, reason : {"text", "other"}] /\ c.code < 65536
  <2>1. c \in [code : Codes, reason : {"text", "other"}]
    BY DEF Closes
  <2>2. \A code \in Codes : code \in Nat /\ code < 65536
    <3>1. Codes \subseteq U16
      BY WireAssumption
    <3>2. \A code \in U16 : code \in Nat /\ code < 65536
      BY DEF U16
    <3> QED BY <3>1, <3>2
  <2>3. c.code \in Codes /\ c.reason \in {"text", "other"} /\ c = [code |-> c.code, reason |-> c.reason]
    BY <2>1
  <2> QED BY <2>2, <2>3
<1>2. HighBytes(HighBytes(c.code)) = 0 /\ HighBytes(HighBytes(1002)) = 0
  BY <1>1, HighOfSmall
<1>3. Reply(c) \in {c, [code |-> 1002, reason |-> "text"]}
  BY ReplyCode
<1>4. [code |-> 1002, reason |-> "text"] \in [code : Nat, reason : {"text", "other"}]
  OBVIOUS
<1> QED BY <1>1, <1>2, <1>3, <1>4

(* What is read of a close that was formatted, and of the reply to it.     *)
LEMMA ClosesRead ==
  ASSUME NEW c \in Closes \union {NoClose}
  PROVE  /\ LET i == IntoClose(ClosePayload(c)) IN
              IF c = NoClose \/ c.reason = "text"
              THEN i = [err |-> "Ok", close |-> c]
              ELSE i.err = "Utf8" /\ c.reason = "other"
         /\ c = NoClose \/ c.reason = "text" =>
              IntoClose(ClosePayload(Reply(c))) = [err |-> "Ok", close |-> Reply(c)]
<1>1. CASE c = NoClose
  <2>1. Reply(c) = NoClose
    BY <1>1, ReplyCode
  <2> QED BY <1>1, <2>1, EmptyCloseRead
<1>2. CASE c \in Closes
  <2>1. c.reason \in {"text", "other"} /\ c # NoClose
    BY <1>2, CloseTypes, CloseRead
  <2>2. c.reason = "text" => IntoClose(ClosePayload(c)) = [err |-> "Ok", close |-> c]
    BY <1>2, CloseTypes, CloseRead
  <2>3. c.reason = "other" => IntoClose(ClosePayload(c)).err = "Utf8"
    BY <1>2, CloseTypes, CloseRead
  <2>4. ASSUME c.reason = "text"
        PROVE  IntoClose(ClosePayload(Reply(c))) = [err |-> "Ok", close |-> Reply(c)]
    <3>1. /\ Reply(c) \in [code : Nat, reason : {"text", "other"}]
          /\ HighBytes(HighBytes(Reply(c).code)) = 0 /\ Reply(c).reason = "text"
      BY <1>2, <2>4, CloseTypes
    <3> QED BY <3>1, CloseRead
  <2> QED BY <2>1, <2>2, <2>3, <2>4
<1> QED BY <1>1, <1>2

-----------------------------------------------------------------------------
(* The close, its answer and what comes of it.                             *)

LEMMA ClosingInit ==
  ASSUME Init
  PROVE  ClosingInv
  BY DEF Init, ClosingInv, NotClosing, Nothing, CloseAnswered

LEMMA SendCloseKeeps ==
  ASSUME ClosingInv, SendClose
  PROVE  ClosingInv'
<1>1. closing = NotClosing /\ closing.stage = "open"
  BY DEF SendClose, NotClosing
<1>2. CASE \E code \in Codes, reason \in {"text", "other"} :
             /\ closing' = [NotClosing EXCEPT !.sent = [code |-> code, reason |-> reason],
                                              !.stage = "sent"]
             /\ flight' = [kind |-> "close", payload |-> ClosePayload(closing'.sent)]
  <2>1. PICK code \in Codes, reason \in {"text", "other"} :
             /\ closing' = [NotClosing EXCEPT !.sent = [code |-> code, reason |-> reason],
                                              !.stage = "sent"]
             /\ flight' = [kind |-> "close", payload |-> ClosePayload(closing'.sent)]
    BY <1>2
  <2>2. closing'.sent \in Closes /\ closing'.stage = "sent"
    BY <2>1 DEF NotClosing, Closes
  <2>3. closing' = [NotClosing EXCEPT !.sent = closing'.sent, !.stage = "sent"]
    BY <2>1 DEF NotClosing
  <2>4. flight'.kind = "close" /\ flight'.payload = ClosePayload(closing'.sent)
    BY <2>1
  <2> QED BY <2>2, <2>3, <2>4 DEF ClosingInv, CloseAnswered
<1>3. CASE \E bytes \in {<<>>, <<3>>} :
             /\ closing' = [NotClosing EXCEPT !.stage = "sent"]
             /\ flight' = [kind |-> "close", payload |-> [bytes |-> bytes, reason |-> "text"]]
  <2>1. PICK bytes \in {<<>>, <<3>>} :
             /\ closing' = [NotClosing EXCEPT !.stage = "sent"]
             /\ flight' = [kind |-> "close", payload |-> [bytes |-> bytes, reason |-> "text"]]
    BY <1>3
  <2>2. closing'.sent = NoClose /\ closing'.stage = "sent"
    BY <2>1 DEF NotClosing
  <2>3. closing' = [NotClosing EXCEPT !.sent = closing'.sent, !.stage = "sent"]
    BY <2>1 DEF NotClosing
  <2>4. flight'.kind = "close" /\ flight'.payload = [bytes |-> bytes, reason |-> "text"]
    BY <2>1
  <2>5. ClosePayload(NoClose) = [bytes |-> <<>>, reason |-> "text"]
    BY DEF ClosePayload
  <2> QED BY <2>1, <2>2, <2>3, <2>4, <2>5 DEF ClosingInv, CloseAnswered
<1> QED BY <1>2, <1>3 DEF SendClose

LEMMA GetCloseKeeps ==
  ASSUME ClosingInv, GetClose
  PROVE  ClosingInv'
<1> DEFINE c == IntoClose(flight.payload)
<1>1. /\ closing.stage = "sent" /\ closing.sent \in Closes \union {NoClose}
      /\ closing = [NotClosing EXCEPT !.sent = closing.sent, !.stage = "sent"]
      /\ \/ flight.payload = ClosePayload(closing.sent)
         \/ closing.sent = NoClose /\ flight.payload = [bytes |-> <<3>>, reason |-> "text"]
  BY DEF ClosingInv, GetClose
<1>2. /\ c.err = "Ok" => /\ c.close = closing.sent
                         /\ closing.sent = NoClose \/ closing.sent.reason = "text"
      /\ c.err # "Ok" => closing.sent = NoClose \/ closing.sent.reason = "other"
  BY <1>1, ClosesRead, EmptyCloseRead
<1>3. CASE c.err # "Ok"
  <2>1. closing' = [closing EXCEPT !.err = c.err, !.stage = "refused"] /\ flight' = Nothing
    BY <1>3 DEF GetClose
  <2>2. closing'.stage = "refused" /\ closing'.sent = closing.sent
    BY <1>1, <2>1 DEF NotClosing
  <2>3. flight'.kind # "close"
    BY <2>1 DEF Nothing
  <2> QED BY <1>1, <1>2, <1>3, <2>2, <2>3 DEF ClosingInv, CloseAnswered
<1>4. CASE c.err = "Ok"
  <2>1. /\ closing' = [closing EXCEPT !.stage = "answered"]
        /\ flight' = [kind |-> "close", payload |-> ClosePayload(Reply(c.close))]
    BY <1>4 DEF GetClose
  <2>2. /\ closing'.stage = "answered" /\ closing'.sent = closing.sent
        /\ closing' = [NotClosing EXCEPT !.sent = closing.sent, !.stage = "answered"]
    BY <1>1, <2>1 DEF NotClosing
  <2>3. flight'.kind = "close" /\ flight'.payload = ClosePayload(Reply(closing.sent))
    BY <1>2, <1>4, <2>1
  <2> QED BY <1>1, <1>2, <1>4, <2>2, <2>3 DEF ClosingInv, CloseAnswered
<1> QED BY <1>3, <1>4

LEMMA GetReplyKeeps ==
  ASSUME ClosingInv, GetReply
  PROVE  ClosingInv'
<1> DEFINE c == IntoClose(flight.payload)
<1>1. /\ closing.stage = "answered" /\ closing.sent \in Closes \union {NoClose}
      /\ closing = [NotClosing EXCEPT !.sent = closing.sent, !.stage = "answered"]
      /\ flight.payload = ClosePayload(Reply(closing.sent))
      /\ closing.sent = NoClose \/ closing.sent.reason = "text"
  BY DEF ClosingInv, GetReply
<1>2. c.err = "Ok" /\ c.close = Reply(closing.sent)
  BY <1>1, ClosesRead
<1>3. /\ closing' = [closing EXCEPT !.err = c.err, !.got = c.close, !.stage = "closed"]
      /\ flight' = Nothing
  BY DEF GetReply
<1>4. /\ closing'.stage = "closed" /\ closing'.sent = closing.sent
      /\ closing'.err = "Ok" /\ closing'.got = Reply(closing.sent)
  BY <1>1, <1>2, <1>3 DEF NotClosing
<1>5. flight'.kind # "close"
  BY <1>3 DEF Nothing
<1>6. CloseAnswered'
  <2>1. /\ closing'.got \in {closing'.sent, [code |-> 1002, reason |-> "text"]}
        /\ closing'.got # NoClose =>
             closing'.got.code \in Sendable
    <3>1. closing.sent \in Closes \union {NoClose}
      BY <1>1
    <3>2. closing'.got = Reply(closing.sent) /\ closing'.sent = closing.sent
      BY <1>4
    <3>3. /\ Reply(closing.sent) \in {closing.sent, [code |-> 1002, reason |-> "text"]}
          /\ Reply(closing.sent) # NoClose => Reply(closing.sent).code \in Sendable
      BY <3>1, ReplyCode
    <3> QED BY <3>2, <3>3
  <2>2. closing'.stage = "closed" /\ closing'.stage # "refused" /\ closing'.err = "Ok"
    BY <1>4
  <2> QED BY <2>1, <2>2 DEF CloseAnswered
<1> QED BY <1>1, <1>4, <1>5, <1>6 DEF ClosingInv

LEMMA OthersKeepClosing ==
  ASSUME ClosingInv, SendText \/ GetText \/ PeerGetsText \/ UNCHANGED wireVars
  PROVE  ClosingInv'
<1>1. /\ closing' = closing
      /\ \/ flight' = flight
         \/ closing.stage = "open" /\ flight'.kind # "close"
         \/ flight.kind = "text" /\ flight'.kind # "close"
  <2>1. CASE SendText
    BY <2>1 DEF SendText, NotClosing
  <2>2. CASE GetText
    BY <2>2 DEF GetText, Nothing
  <2>3. CASE PeerGetsText
    BY <2>3 DEF PeerGetsText, Nothing
  <2>4. CASE UNCHANGED wireVars
    BY <2>4 DEF wireVars
  <2> QED BY <2>1, <2>2, <2>3, <2>4
<1>2. CloseAnswered'
  <2>1. CloseAnswered
    BY DEF ClosingInv
  <2> QED BY <1>1, <2>1, ZenonT(40) DEF CloseAnswered
<1>3. closing.stage \in {"sent", "answered"} => flight' = flight
  <2>1. closing.stage \in {"sent", "answered"} => flight.kind = "close"
    BY Zenon DEF ClosingInv
  <2> QED BY <1>1, <2>1
<1>4. flight'.kind = "close" <=> closing'.stage \in {"sent", "answered"}
  <2>1. flight.kind = "close" <=> closing.stage \in {"sent", "answered"}
    BY Zenon DEF ClosingInv
  <2> QED BY <1>1, <2>1
<1> QED BY <1>1, <1>2, <1>3, <1>4 DEF ClosingInv

(* What is known of a close, of the frame that carries it and of the       *)
(* answer (mod.rs:724-750, frame.rs:330-343).                              *)
THEOREM ClosingInvariance == Spec => []ClosingInv
<1>1. Init => ClosingInv
  BY ClosingInit
<1>2. ClosingInv /\ [Next]_wireVars => ClosingInv'
  BY SendCloseKeeps, GetCloseKeeps, GetReplyKeeps, OthersKeepClosing DEF Next
<1> QED BY <1>1, <1>2, PTL DEF Spec

(* A close is answered by itself or by a protocol error, no code comes     *)
(* back that may not be used, and one that cannot be read is not answered. *)
THEOREM ClosesAnswered == Spec => []CloseAnswered
<1>1. ClosingInv => CloseAnswered
  BY DEF ClosingInv
<1> QED BY <1>1, ClosingInvariance, PTL

-----------------------------------------------------------------------------
(* The size of a text.                                                     *)

LEMMA WeightType ==
  ASSUME NEW b \in Text
  PROVE  Weight(b) \in Nat \ {0}
  BY MessageTextAssumption DEF Weight

LEMMA SizeSteps ==
  ASSUME NEW text \in Seq(Text)
  PROVE  \E v \in [0 .. Len(text) -> Nat] :
           /\ v[0] = 0
           /\ \A k \in 1 .. Len(text) : v[k] = v[k - 1] + Weight(text[k])
           /\ Size(text) = v[Len(text)]
<1> DEFINE n == Len(text)
           Def(g) == g = [k \in 0 .. n |-> IF k = 0 THEN 0 ELSE g[k - 1] + Weight(text[k])]
           v == CHOOSE g : Def(g)
<1>1. n \in Nat /\ 0 \in Nat /\ \A k \in 1 .. n : Weight(text[k]) \in Nat
  BY WeightType
<1>4. Size(text) = v[n]
  BY DEF Size
<1> HIDE DEF n
<1>2. \E g : Def(g)
  <2> DEFINE step == [p \in Nat \X (1 .. n) |-> p[1] + Weight(text[p[2]])]
  <2>1. step \in [Nat \X (1 .. n) -> Nat]
    BY <1>1
  <2>2. \A x \in Nat, k \in 1 .. n : step[<<x, k>>] = x + Weight(text[k])
    OBVIOUS
  <2> HIDE DEF step
  <2>3. PICK g \in [0 .. n -> Nat] :
          g[0] = 0 /\ \A k \in 1 .. n : g[k] = step[<<g[k - 1], k>>]
    BY <1>1, <2>1, Iterated, ZenonT(40)
  <2>4. ASSUME NEW k \in 0 .. n PROVE g[k] = IF k = 0 THEN 0 ELSE g[k - 1] + Weight(text[k])
    <3>1. CASE k # 0
      <4>1. k \in 1 .. n /\ k - 1 \in 0 .. n /\ g[k - 1] \in Nat
        BY <1>1, <2>3, <3>1
      <4> QED BY <2>2, <2>3, <3>1, <4>1, Zenon
    <3> QED BY <2>3, <3>1
  <2>5. g = [k \in 0 .. n |-> g[k]]
    BY <2>3
  <2>6. Def(g)
    BY <2>4, <2>5
  <2> HIDE DEF Def
  <2> QED BY <2>6
<1>3. Def(v)
  <2> HIDE DEF Def
  <2> QED BY <1>2
<1> HIDE DEF v
<1>5. v[0] = 0 /\ \A k \in 1 .. n : v[k] = v[k - 1] + Weight(text[k])
  <2>1. \A k \in 0 .. n : v[k] = IF k = 0 THEN 0 ELSE v[k - 1] + Weight(text[k])
    BY <1>3
  <2>2. \A k \in 1 .. n : k \in 0 .. n /\ k # 0
    BY <1>1
  <2>3. 0 \in 0 .. n
    BY <1>1
  <2> QED BY <2>1, <2>2, <2>3
<1>6. \A k \in 0 .. n : v[k] \in Nat
  <2>1. ASSUME NEW k \in 1 .. n, v[k - 1] \in Nat PROVE v[k] \in Nat
    <3>1. v[k] = v[k - 1] + Weight(text[k]) /\ Weight(text[k]) \in Nat
      BY <1>1, <1>5, Zenon
    <3> QED BY <2>1, <3>1
  <2> QED BY <1>1, <1>5, <2>1, Stays, Zenon
<1>7. v \in [0 .. n -> Nat]
  BY <1>3, <1>6
<1> QED BY <1>4, <1>5, <1>7 DEF n

LEMMA SizeType ==
  ASSUME NEW text \in Seq(Text)
  PROVE  Size(text) \in Nat
<1>1. PICK v \in [0 .. Len(text) -> Nat] : Size(text) = v[Len(text)]
  BY SizeSteps
<1>2. Len(text) \in 0 .. Len(text)
  OBVIOUS
<1> QED BY <1>1, <1>2

-----------------------------------------------------------------------------
(* The header of a frame.                                                  *)

LEMMA OpRead ==
  ASSUME NEW op \in DOMAIN OpBytes
  PROVE  OpBytes[op] \in 0 .. 10 /\ OpCode(OpBytes[op]) = op
<1>1. /\ DOMAIN OpBytes = {"continue", "text", "binary", "close", "ping", "pong"}
      /\ OpBytes["continue"] = 0 /\ OpBytes["text"] = 1 /\ OpBytes["binary"] = 2
      /\ OpBytes["close"] = 8 /\ OpBytes["ping"] = 9 /\ OpBytes["pong"] = 10
  BY DEF OpBytes
<1>2. OpBytes[op] \in 0 .. 10
  BY <1>1
<1>3. \A other \in DOMAIN OpBytes : OpBytes[other] = OpBytes[op] => other = op
  BY <1>1
<1> QED BY <1>2, <1>3, Zenon DEF OpCode

(* What is written of a length *)
LEMMA LengthWritten ==
  ASSUME NEW length \in Nat
  PROVE  /\ LengthByte(length) \in 0 .. 127
         /\ ExtraBytes(LengthByte(length)) \in {0, 2, 8}
         /\ ExtraBytes(LengthByte(length)) = 0 => LengthByte(length) = length
         /\ ExtraBytes(LengthByte(length)) = 2 => HighBytes(HighBytes(length)) = 0
<1>1. length < 65536 => HighBytes(HighBytes(length)) = 0
  BY HighOfSmall
<1> QED BY <1>1 DEF LengthByte, ExtraBytes

LEMMA SliceOfMiddle ==
  ASSUME NEW a \in Seq(Int), NEW b \in Seq(Int), NEW c \in Seq(Int)
  PROVE  /\ Len(a \o b \o c) = Len(a) + Len(b) + Len(c)
         /\ SubSeq(a \o b \o c, Len(a) + 1, Len(a) + Len(b)) = b
         /\ SubSeq(a \o b \o c, Len(a) + Len(b) + 1, Len(a) + Len(b) + Len(c)) = c
         /\ \A i \in 1 .. Len(a) : (a \o b \o c)[i] = a[i]
  OBVIOUS

(* The header that was written is read, of every kind, masked or not, for  *)
(* every length that is a u64.                                             *)
LEMMA HeaderRead ==
  ASSUME NEW op \in DOMAIN OpBytes, NEW fin \in BOOLEAN, NEW mask \in Seq(Int),
         mask = <<>> \/ Len(mask) = 4,
         NEW length \in Nat, IsU64(length)
  PROVE  LET h == Header(op, fin, mask)
             p == ParseHeader(Format(h, length))
         IN p.header = h /\ p.length = length /\ p.at = Len(Format(h, length))
<1> DEFINE h == Header(op, fin, mask)
           first == OpBytes[op] + (IF fin THEN 128 ELSE 0) + 16 * 0
           second == LengthByte(length) + (IF mask # <<>> THEN 128 ELSE 0)
           extra == ExtraBytes(LengthByte(length))
           start == <<first, second>>
           middle == BigEndian(length, extra)
           bytes == start \o middle \o mask
<1>1. h = [opcode |-> op, is_final |-> fin, rsv |-> 0, mask |-> mask]
  BY DEF Header
<1>2. Format(h, length) = bytes
  BY <1>1 DEF Format
<1>3. /\ first \in Nat /\ first % 16 = OpBytes[op] /\ (first >= 128) = fin
      /\ (first \div 16) % 8 = 0
  <2>1. \A n \in 0 .. 10 : /\ n \in Nat /\ n % 16 = n /\ ~(n >= 128) /\ (n \div 16) % 8 = 0
                           /\ n + 128 \in Nat /\ (n + 128) % 16 = n /\ n + 128 >= 128
                           /\ ((n + 128) \div 16) % 8 = 0
    OBVIOUS
  <2> DEFINE n == OpBytes[op]
  <2>2. n \in 0 .. 10
    BY OpRead
  <2>3. first = n + (IF fin THEN 128 ELSE 0) + 16 * 0
    OBVIOUS
  <2> HIDE DEF n, first
  <2>4. CASE fin
    <3>1. first = n + 128
      BY <2>1, <2>2, <2>3, <2>4
    <3> QED BY <2>1, <2>2, <2>4, <3>1, ZenonT(40) DEF n
  <2>5. CASE ~fin
    <3>1. first = n
      BY <2>1, <2>2, <2>3, <2>5
    <3> QED BY <2>1, <2>2, <2>5, <3>1 DEF n
  <2> QED BY <2>4, <2>5
<1>4. second \in Nat /\ second % 128 = LengthByte(length) /\ (second >= 128) = (mask # <<>>)
  <2>1. \A n \in 0 .. 127 : /\ n \in Nat /\ n % 128 = n /\ ~(n >= 128)
                            /\ n + 128 \in Nat /\ (n + 128) % 128 = n /\ n + 128 >= 128
    OBVIOUS
  <2> DEFINE n == LengthByte(length)
  <2>2. n \in 0 .. 127
    BY LengthWritten
  <2>3. second = n + (IF mask # <<>> THEN 128 ELSE 0)
    OBVIOUS
  <2> HIDE DEF n, second
  <2>4. CASE mask # <<>>
    <3>1. second = n + 128
      BY <2>3, <2>4
    <3> QED BY <2>1, <2>2, <2>4, <3>1, ZenonT(40) DEF n
  <2>5. CASE mask = <<>>
    <3>1. second = n /\ (mask # <<>>) = FALSE
      BY <2>1, <2>2, <2>3, <2>5
    <3>2. second \in Nat /\ second % 128 = n /\ (second >= 128) = FALSE
      BY <2>1, <2>2, <3>1
    <3> QED BY <3>1, <3>2 DEF n
  <2> QED BY <2>4, <2>5
<1>5. extra \in Nat /\ middle \in Seq(Int) /\ Len(middle) = extra
  <2>1. extra \in Nat
    BY LengthWritten
  <2> QED BY <2>1, BytesType
<1>6. /\ extra = 0 => LengthByte(length) = length
      /\ extra # 0 => Number(middle) = length
  <2>1. CASE extra = 0
    BY <2>1, LengthWritten
  <2>2. CASE extra = 2
    BY <2>2, LengthWritten, TwoBytes
  <2>3. CASE extra = 8
    BY <2>3, EightBytes
  <2> QED BY <2>1, <2>2, <2>3, LengthWritten
<1> HIDE DEF first, second, extra, middle
<1>7. start \in Seq(Int) /\ Len(start) = 2 /\ start[1] = first /\ start[2] = second
  BY <1>3, <1>4
<1> HIDE DEF start
<1>8. /\ bytes[1] = first /\ bytes[2] = second
      /\ Len(bytes) = 2 + extra + Len(mask)
      /\ SubSeq(bytes, 3, 2 + extra) = middle
      /\ SubSeq(bytes, 2 + extra + 1, 2 + extra + Len(mask)) = mask
  <2>1. 2 + 1 = 3 /\ 1 \in 1 .. 2 /\ 2 \in 1 .. 2
    OBVIOUS
  <2>2. /\ Len(bytes) = Len(start) + Len(middle) + Len(mask)
        /\ SubSeq(bytes, Len(start) + 1, Len(start) + Len(middle)) = middle
        /\ SubSeq(bytes, Len(start) + Len(middle) + 1,
                  Len(start) + Len(middle) + Len(mask)) = mask
        /\ \A i \in 1 .. Len(start) : bytes[i] = start[i]
    BY <1>5, <1>7, SliceOfMiddle
  <2> HIDE DEF bytes
  <2> QED BY <1>5, <1>7, <2>1, <2>2
<1> HIDE DEF bytes
<1>9. ExtraBytes(bytes[2] % 128) = extra
  BY <1>4, <1>8 DEF extra
<1>10. ParseHeader(bytes).header =
         [opcode |-> op, is_final |-> fin, rsv |-> 0,
          mask |-> IF mask # <<>> THEN SubSeq(bytes, 2 + extra + 1, 2 + extra + 4) ELSE <<>>]
  BY <1>3, <1>4, <1>8, <1>9, OpRead, ZenonT(40) DEF ParseHeader
<1>11. ParseHeader(bytes).length =
         IF extra = 0 THEN LengthByte(length) ELSE Number(middle)
  BY <1>4, <1>8, <1>9 DEF ParseHeader
<1>12. ParseHeader(bytes).at = 2 + extra + (IF mask # <<>> THEN 4 ELSE 0)
  BY <1>4, <1>8, <1>9 DEF ParseHeader
<1>13. ParseHeader(bytes).header = h
  BY <1>1, <1>8, <1>10
<1>14. ParseHeader(bytes).length = length
  BY <1>6, <1>11
<1>15. ParseHeader(bytes).at = Len(bytes)
  BY <1>5, <1>8, <1>12
<1> QED BY <1>2, <1>13, <1>14, <1>15

(* Wherever align_to_mut cuts a payload *)
LEMMA MaskTurned ==
  ASSUME NEW i \in Nat, NEW prefix \in Nat
  PROVE  MaskIndex(i, prefix) = i % 4
<1>1. CASE i < prefix
  BY <1>1 DEF MaskIndex
<1>2. CASE ~(i < prefix)
  <2>1. i - prefix \in Nat
    BY <1>2
  <2>2. \A a, b \in Nat : ((a % 4) + (b % 4)) % 4 = (a + b) % 4
    OBVIOUS
  <2>3. (i - prefix) + prefix = i
    OBVIOUS
  <2> QED BY <1>2, <2>1, <2>2, <2>3 DEF MaskIndex
<1> QED BY <1>1, <1>2

-----------------------------------------------------------------------------
(* The frame on the wire.                                                  *)

LEMMA FlightInit ==
  ASSUME Init
  PROVE  FlightInv
  BY DEF Init, FlightInv, Nothing

LEMMA FlightNext ==
  ASSUME FlightInv, [Next]_wireVars
  PROVE  FlightInv'
<1>1. role' = role
  BY DEF Next, SendText, GetText, PeerGetsText, SendClose, GetClose, GetReply, wireVars
<1>2. CASE SendText
  <2>1. PICK op \in {"text", "continue"}, fin \in BOOLEAN, payload \in Payloads :
          LET h == Header(op, fin, IF role = "Client" THEN Mask ELSE <<>>) IN
            flight' = [kind |-> "text", header |-> h, payload |-> payload,
                       bytes |-> Format(h, Size(payload))]
    BY <1>2 DEF SendText
  <2>2. (IF role = "Client" THEN Mask ELSE <<>>) \in {Mask, <<>>}
    OBVIOUS
  <2>3. flight'.kind = "text"
    BY <2>1
  <2> QED BY <1>1, <2>1, <2>2, <2>3 DEF FlightInv
<1>3. CASE flight' = Nothing \/ flight'.kind = "close" \/ flight' = flight
  BY <1>1, <1>3 DEF FlightInv, Nothing
<1>4. GetText \/ PeerGetsText \/ SendClose \/ GetClose \/ GetReply \/ UNCHANGED wireVars =>
        flight' = Nothing \/ flight'.kind = "close" \/ flight' = flight
  <2>1. GetText \/ PeerGetsText \/ GetReply => flight' = Nothing
    BY DEF GetText, PeerGetsText, GetReply
  <2>2. SendClose => flight'.kind = "close"
    <3>1. SendClose => \E x : flight' = [kind |-> "close", payload |-> x]
      BY Zenon DEF SendClose
    <3> QED BY <3>1
  <2>3. GetClose => flight' = Nothing \/ flight'.kind = "close"
    BY DEF GetClose
  <2>4. UNCHANGED wireVars => flight' = flight
    BY DEF wireVars
  <2> QED BY <2>1, <2>2, <2>3, <2>4
<1> QED BY <1>2, <1>3, <1>4 DEF Next

LEMMA FlightArrives ==
  ASSUME FlightInv, flight.kind = "text",
         \A p \in Payloads : IsU64(Size(p))
  PROVE  FramesArrive
<1>1. PICK op \in {"text", "continue"}, fin \in BOOLEAN, payload \in Payloads,
           mask \in {Mask, <<>>} :
         flight = [kind |-> "text", header |-> Header(op, fin, mask), payload |-> payload,
                   bytes |-> Format(Header(op, fin, mask), Size(payload))]
  BY DEF FlightInv
<1> DEFINE size == Size(payload)
           h == Header(op, fin, mask)
           looked == Min({size, 12})
<1>2. size \in Nat /\ IsU64(size)
  <2>1. payload \in Seq(Text)
    BY WireAssumption
  <2> QED BY <2>1, SizeType
<1>3. op \in DOMAIN OpBytes /\ mask \in Seq(Int) /\ (mask = <<>> \/ Len(mask) = 4)
  <2>1. Mask \in Seq(Int) /\ Len(Mask) = 4 /\ <<>> \in Seq(Int)
    BY DEF Mask
  <2>2. op \in DOMAIN OpBytes
    BY DEF OpBytes
  <2> QED BY <2>1, <2>2
<1>4. /\ ParseHeader(Format(h, size)).header = h
      /\ ParseHeader(Format(h, size)).length = size
      /\ ParseHeader(Format(h, size)).at = Len(Format(h, size))
  BY <1>2, <1>3, HeaderRead
<1>5. looked \in Nat
  <2>1. \E x \in {size, 12} : \A y \in {size, 12} : x <= y
    BY <1>2
  <2>2. looked \in {size, 12}
    BY <2>1 DEF Min
  <2> QED BY <1>2, <2>2
<1> HIDE DEF looked
<1>6. ASSUME NEW a \in 0 .. 3, NEW prefix \in Heads(a, looked), NEW i \in 0 .. looked - 1
      PROVE  MaskIndex(i, prefix) = i % 4
  <2>1. i \in Nat /\ prefix \in Nat
    BY <1>5 DEF Heads
  <2> QED BY <2>1, MaskTurned
<1>7. /\ flight.payload = payload /\ flight.header = h
      /\ flight.bytes = Format(h, size)
  BY <1>1
<1>8. Size(flight.payload) = size /\ Min({Size(flight.payload), 12}) = looked
  BY <1>7 DEF looked
<1> HIDE DEF h, size
<1>9. /\ ParseHeader(flight.bytes).header = flight.header
      /\ ParseHeader(flight.bytes).length = size
      /\ ParseHeader(flight.bytes).at = Len(flight.bytes)
  BY <1>4, <1>7
<1> QED BY <1>6, <1>8, <1>9, Zenon DEF FramesArrive

(* The header that is read is the one that was written, and unmasking      *)
(* undoes the masking, for payloads whose length is a u64 (frame.rs:98-133,*)
(* 165-230, mask.rs:26-42).                                                *)
THEOREM FramesArriving ==
  ASSUME \A p \in Payloads : IsU64(Size(p))
  PROVE  Spec => []FramesArrive
<1>1. Init => FlightInv
  BY FlightInit
<1>2. FlightInv /\ [Next]_wireVars => FlightInv'
  BY FlightNext
<1>3. FlightInv => FramesArrive
  <2>1. flight.kind # "text" => FramesArrive
    BY DEF FramesArrive
  <2> QED BY <2>1, FlightArrives
<1> QED BY <1>1, <1>2, <1>3, PTL DEF Spec

-----------------------------------------------------------------------------
(* Texts, cut and put together.                                            *)

LEMMA Cut ==
  ASSUME NEW t \in Seq(Text), NEW k \in 0 .. Len(t)
  PROVE  /\ SubSeq(t, 1, k) \in Seq(Text) /\ Len(SubSeq(t, 1, k)) = k
         /\ SubSeq(t, k + 1, Len(t)) \in Seq(Text)
         /\ Len(SubSeq(t, k + 1, Len(t))) = Len(t) - k
         /\ t = SubSeq(t, 1, k) \o SubSeq(t, k + 1, Len(t))
<1>1. k \in Nat /\ Len(t) \in Nat /\ k <= Len(t)
  OBVIOUS
<1>2. SubSeq(t, 1, k) \in Seq(Text) /\ Len(SubSeq(t, 1, k)) = k
  BY <1>1
<1>3. SubSeq(t, k + 1, Len(t)) \in Seq(Text) /\ Len(SubSeq(t, k + 1, Len(t))) = Len(t) - k
  BY <1>1
<1>4. t = SubSeq(t, 1, k) \o SubSeq(t, k + 1, Len(t))
  <2>1. 1 \in 1 .. Len(t) + 1 /\ k \in 1 - 1 .. Len(t) /\ Len(t) \in k .. Len(t)
    BY <1>1
  <2>2. SubSeq(t, 1, k) \o SubSeq(t, k + 1, Len(t)) = SubSeq(t, 1, Len(t))
    BY <2>1, ConcatAdjacentSubSeq
  <2>3. SubSeq(t, 1, Len(t)) = t
    OBVIOUS
  <2> QED BY <2>2, <2>3
<1> QED BY <1>2, <1>3, <1>4

LEMMA LastOf ==
  ASSUME NEW n \in Nat, NEW t \in Seq(Text), Len(t) = n + 1
  PROVE  /\ SubSeq(t, 1, n) \in Seq(Text) /\ Len(SubSeq(t, 1, n)) = n
         /\ t[n + 1] \in Text
         /\ t = Append(SubSeq(t, 1, n), t[n + 1])
  OBVIOUS

LEMMA Joins ==
  ASSUME NEW a \in Seq(Text), NEW b \in Seq(Text)
  PROVE  /\ a \o b \in Seq(Text) /\ Len(a \o b) = Len(a) + Len(b)
         /\ a \o <<>> = a /\ <<>> \o a = a
         /\ \A c \in Seq(Text) : (a \o b) \o c = a \o (b \o c)
         /\ \A x \in Text : a \o Append(b, x) = Append(a \o b, x)
<1>1. a \o b \in Seq(Text) /\ Len(a \o b) = Len(a) + Len(b) /\ a \o <<>> = a /\ <<>> \o a = a
  OBVIOUS
<1>2. ASSUME NEW c \in Seq(Text) PROVE (a \o b) \o c = a \o (b \o c)
  OBVIOUS
<1>3. ASSUME NEW x \in Text PROVE a \o Append(b, x) = Append(a \o b, x)
  OBVIOUS
<1> QED BY <1>1, <1>2, <1>3

-----------------------------------------------------------------------------
(* A text is walked through: no character is open, one byte of one is      *)
(* missing, or two are; or it cannot become well-formed.                   *)

After(q, b) ==
  IF q = 0
  THEN IF b \in {"short", "long"} THEN 0
       ELSE IF b = "lead2" THEN 1
       ELSE IF b = "lead3" THEN 2 ELSE 3
  ELSE IF q \in {1, 2} /\ b = "next" THEN q - 1 ELSE 3

Walk(q, text) ==
  {w \in [0 .. Len(text) -> Nat] :
     w[0] = q /\ \A k \in 1 .. Len(text) : w[k] = After(w[k - 1], text[k])}

From(q, text) == CHOOSE last : \E w \in Walk(q, text) : last = w[Len(text)]

LEMMA AfterType ==
  ASSUME NEW q \in Nat, NEW b
  PROVE  After(q, b) \in 0 .. 3 /\ After(q, b) \in Nat
  BY DEF After

LEMMA WalkIs ==
  ASSUME NEW q \in Nat, NEW text \in Seq(Text)
  PROVE  \E w \in Walk(q, text) : From(q, text) = w[Len(text)]
<1> DEFINE n == Len(text)
           step == [p \in Nat \X (1 .. n) |-> After(p[1], text[p[2]])]
<1>1. n \in Nat /\ step \in [Nat \X (1 .. n) -> Nat]
  BY AfterType
<1>2. \A x \in Nat, k \in 1 .. n : step[<<x, k>>] = After(x, text[k])
  OBVIOUS
<1> HIDE DEF step
<1>3. PICK w \in [0 .. n -> Nat] : w[0] = q /\ \A k \in 1 .. n : w[k] = step[<<w[k - 1], k>>]
  BY <1>1, Iterated, ZenonT(40)
<1>4. ASSUME NEW k \in 1 .. n PROVE w[k] = After(w[k - 1], text[k])
  <2>1. n \in Nat
    BY <1>1
  <2>2. k - 1 \in 0 .. n
    BY <2>1
  <2>3. w[k - 1] \in Nat
    BY <2>2
  <2> QED BY <1>2, <1>3, <2>3, Zenon
<1>5. w \in Walk(q, text)
  BY <1>3, <1>4 DEF Walk
<1>6. \E last : \E x \in Walk(q, text) : last = x[Len(text)]
  BY <1>5
<1> QED BY <1>6, Zenon DEF From

(* There is one walk only, also if there is more text. *)
LEMMA SameWalk ==
  ASSUME NEW q \in Nat, NEW s \in Seq(Text), NEW t \in Seq(Text), Len(s) <= Len(t),
         \A k \in 1 .. Len(s) : s[k] = t[k],
         NEW v \in Walk(q, s), NEW w \in Walk(q, t)
  PROVE  \A k \in 0 .. Len(s) : v[k] = w[k]
<1> DEFINE T == {m \in Nat : m <= Len(s) => v[m] = w[m]}
<1>0. Len(s) \in Nat /\ Len(t) \in Nat
  OBVIOUS
<1>1. 0 \in T
  BY DEF Walk
<1>2. ASSUME NEW m \in T PROVE m + 1 \in T
  <2>1. m \in Nat /\ (m <= Len(s) => v[m] = w[m])
    OBVIOUS
  <2>2. ASSUME m + 1 <= Len(s) PROVE v[m + 1] = w[m + 1]
    <3>1. m + 1 \in 1 .. Len(s) /\ m + 1 \in 1 .. Len(t) /\ (m + 1) - 1 = m /\ m <= Len(s)
      BY <1>0, <2>1, <2>2
    <3>2. v[m + 1] = After(v[m], s[m + 1])
      BY <3>1 DEF Walk
    <3>3. w[m + 1] = After(w[m], t[m + 1])
      BY <3>1 DEF Walk
    <3> QED BY <2>1, <3>1, <3>2, <3>3
  <2> QED BY <2>1, <2>2
<1>3. T = Nat
  <2>1. T \in SUBSET Nat
    OBVIOUS
  <2> HIDE DEF T
  <2> QED BY <1>1, <1>2, <2>1, InductiveSet
<1>4. ASSUME NEW k \in 0 .. Len(s) PROVE v[k] = w[k]
  <2>1. k \in T /\ k <= Len(s)
    BY <1>0, <1>3
  <2> QED BY <2>1
<1> QED BY <1>4

LEMMA FromEmpty ==
  ASSUME NEW q \in Nat
  PROVE  From(q, <<>>) = q
<1>1. <<>> \in Seq(Text) /\ Len(<<>>) = 0
  OBVIOUS
<1>2. PICK w \in Walk(q, <<>>) : From(q, <<>>) = w[0]
  BY <1>1, WalkIs
<1> QED BY <1>2 DEF Walk

(* The states that a walk comes through *)
LEMMA FromPrefix ==
  ASSUME NEW q \in Nat, NEW t \in Seq(Text), NEW w \in Walk(q, t), NEW k \in 0 .. Len(t)
  PROVE  From(q, SubSeq(t, 1, k)) = w[k]
<1> DEFINE s == SubSeq(t, 1, k)
<1>1. s \in Seq(Text) /\ Len(s) = k /\ k \in Nat /\ k <= Len(t) /\ \A i \in 1 .. Len(s) : s[i] = t[i]
  OBVIOUS
<1> HIDE DEF s
<1>2. PICK v \in Walk(q, s) : From(q, s) = v[Len(s)]
  BY <1>1, WalkIs
<1>3. \A i \in 0 .. Len(s) : v[i] = w[i]
  BY <1>1, SameWalk
<1>4. v[k] = w[k]
  BY <1>1, <1>3
<1> QED BY <1>1, <1>2, <1>4 DEF s

LEMMA FromWhole ==
  ASSUME NEW q \in Nat, NEW t \in Seq(Text), NEW w \in Walk(q, t)
  PROVE  From(q, t) = w[Len(t)]
<1>1. Len(t) \in 0 .. Len(t) /\ SubSeq(t, 1, Len(t)) = t
  OBVIOUS
<1> QED BY <1>1, FromPrefix

LEMMA FromAppend ==
  ASSUME NEW q \in Nat, NEW t \in Seq(Text), NEW b \in Text
  PROVE  /\ From(q, Append(t, b)) = After(From(q, t), b)
         /\ From(q, Append(t, b)) \in 0 .. 3
<1> DEFINE u == Append(t, b)
           n == Len(t)
<1>1. /\ u \in Seq(Text) /\ n \in Nat /\ Len(u) = n + 1 /\ u[n + 1] = b
      /\ SubSeq(u, 1, n) = t /\ n \in 0 .. Len(u) /\ n + 1 \in 1 .. Len(u) /\ (n + 1) - 1 = n
  OBVIOUS
<1> HIDE DEF u, n
<1>2. PICK w \in Walk(q, u) : From(q, u) = w[n + 1]
  BY <1>1, WalkIs
<1>3. From(q, t) = w[n]
  BY <1>1, FromPrefix
<1>4. w[n + 1] = After(w[n], b) /\ w[n] \in Nat
  BY <1>1 DEF Walk
<1> QED BY <1>2, <1>3, <1>4, AfterType DEF u

LEMMA FromType ==
  ASSUME NEW q \in 0 .. 3, NEW t \in Seq(Text)
  PROVE  From(q, t) \in 0 .. 3
<1>1. CASE Len(t) = 0
  <2>1. t = <<>>
    BY <1>1
  <2> QED BY <2>1, FromEmpty
<1>2. CASE Len(t) # 0
  <2> DEFINE n == Len(t) - 1
  <2>1. n \in Nat /\ Len(t) = n + 1
    BY <1>2
  <2> HIDE DEF n
  <2>2. /\ SubSeq(t, 1, n) \in Seq(Text) /\ t[n + 1] \in Text
        /\ t = Append(SubSeq(t, 1, n), t[n + 1])
    BY <2>1, LastOf
  <2>3. From(q, Append(SubSeq(t, 1, n), t[n + 1])) \in 0 .. 3
    <3>1. q \in Nat
      OBVIOUS
    <3> QED BY <2>2, <3>1, FromAppend
  <2> QED BY <2>2, <2>3
<1> QED BY <1>1, <1>2

(* One text behind another *)
LEMMA FromJoin ==
  ASSUME NEW q \in 0 .. 3, NEW a \in Seq(Text), NEW b \in Seq(Text)
  PROVE  From(q, a \o b) = From(From(q, a), b)
<1> DEFINE T == {n \in Nat : \A c \in Seq(Text) :
                   Len(c) = n => From(q, a \o c) = From(From(q, a), c)}
<1>0. q \in Nat /\ From(q, a) \in Nat
  BY FromType
<1>1. 0 \in T
  <2>1. ASSUME NEW c \in Seq(Text), Len(c) = 0 PROVE From(q, a \o c) = From(From(q, a), c)
    <3>1. c = <<>> /\ a \o c = a
      BY <2>1
    <3> QED BY <1>0, <3>1, FromEmpty
  <2> QED BY <2>1
<1>2. ASSUME NEW n \in T PROVE n + 1 \in T
  <2>1. /\ n \in Nat /\ n + 1 \in Nat
        /\ \A c \in Seq(Text) : Len(c) = n => From(q, a \o c) = From(From(q, a), c)
    OBVIOUS
  <2>2. ASSUME NEW c \in Seq(Text), Len(c) = n + 1 PROVE From(q, a \o c) = From(From(q, a), c)
    <3> DEFINE d == SubSeq(c, 1, n)
               x == c[n + 1]
    <3>1. d \in Seq(Text) /\ Len(d) = n /\ x \in Text /\ c = Append(d, x)
      BY <2>1, <2>2, LastOf
    <3> HIDE DEF d, x
    <3>2. a \o c = Append(a \o d, x) /\ a \o d \in Seq(Text)
      BY <3>1, Joins
    <3>3. From(q, a \o c) = After(From(q, a \o d), x)
      <4>1. From(q, Append(a \o d, x)) = After(From(q, a \o d), x)
        BY <1>0, <3>1, <3>2, FromAppend
      <4> QED BY <3>2, <4>1
    <3>4. From(From(q, a), c) = After(From(From(q, a), d), x)
      BY <1>0, <3>1, FromAppend
    <3> QED BY <2>1, <3>1, <3>3, <3>4
  <2> QED BY <2>1, <2>2
<1>3. T = Nat
  <2>1. T \in SUBSET Nat
    OBVIOUS
  <2> HIDE DEF T
  <2> QED BY <1>1, <1>2, <2>1, InductiveSet
<1>4. Len(b) \in T
  BY <1>3
<1> QED BY <1>4

(* What cannot become well-formed stays so. *)
LEMMA FromDead ==
  ASSUME NEW t \in Seq(Text)
  PROVE  From(3, t) = 3
<1> DEFINE T == {n \in Nat : \A c \in Seq(Text) : Len(c) = n => From(3, c) = 3}
<1>1. 0 \in T
  <2>1. ASSUME NEW c \in Seq(Text), Len(c) = 0 PROVE From(3, c) = 3
    <3>1. c = <<>> /\ 3 \in Nat
      BY <2>1
    <3> QED BY <3>1, FromEmpty
  <2> QED BY <2>1
<1>2. ASSUME NEW n \in T PROVE n + 1 \in T
  <2>1. n \in Nat /\ n + 1 \in Nat /\ \A c \in Seq(Text) : Len(c) = n => From(3, c) = 3
    OBVIOUS
  <2>2. ASSUME NEW c \in Seq(Text), Len(c) = n + 1 PROVE From(3, c) = 3
    <3> DEFINE d == SubSeq(c, 1, n)
               x == c[n + 1]
    <3>1. d \in Seq(Text) /\ Len(d) = n /\ x \in Text /\ c = Append(d, x)
      BY <2>1, <2>2, LastOf
    <3> HIDE DEF d, x
    <3>2. From(3, c) = After(From(3, d), x)
      BY <3>1, FromAppend
    <3> QED BY <2>1, <3>1, <3>2 DEF After
  <2> QED BY <2>1, <2>2
<1>3. T = Nat
  <2>1. T \in SUBSET Nat
    OBVIOUS
  <2> HIDE DEF T
  <2> QED BY <1>1, <1>2, <2>1, InductiveSet
<1>4. Len(t) \in T
  BY <1>3
<1> QED BY <1>4

-----------------------------------------------------------------------------
(* The size of texts that are put together.                                *)

Sums(text) ==
  {v \in [0 .. Len(text) -> Nat] :
     v[0] = 0 /\ \A k \in 1 .. Len(text) : v[k] = v[k - 1] + Weight(text[k])}

LEMMA SameSums ==
  ASSUME NEW s \in Seq(Text), NEW t \in Seq(Text), Len(s) <= Len(t),
         \A k \in 1 .. Len(s) : s[k] = t[k],
         NEW v \in Sums(s), NEW w \in Sums(t)
  PROVE  \A k \in 0 .. Len(s) : v[k] = w[k]
<1> DEFINE T == {m \in Nat : m <= Len(s) => v[m] = w[m]}
<1>0. Len(s) \in Nat /\ Len(t) \in Nat
  OBVIOUS
<1>1. 0 \in T
  BY DEF Sums
<1>2. ASSUME NEW m \in T PROVE m + 1 \in T
  <2>1. m \in Nat /\ (m <= Len(s) => v[m] = w[m])
    OBVIOUS
  <2>2. ASSUME m + 1 <= Len(s) PROVE v[m + 1] = w[m + 1]
    <3>1. m + 1 \in 1 .. Len(s) /\ m + 1 \in 1 .. Len(t) /\ (m + 1) - 1 = m /\ m <= Len(s)
      BY <1>0, <2>1, <2>2
    <3>2. v[m + 1] = v[m] + Weight(s[m + 1])
      BY <3>1 DEF Sums
    <3>3. w[m + 1] = w[m] + Weight(t[m + 1])
      BY <3>1 DEF Sums
    <3> QED BY <2>1, <3>1, <3>2, <3>3
  <2> QED BY <2>1, <2>2
<1>3. T = Nat
  <2>1. T \in SUBSET Nat
    OBVIOUS
  <2> HIDE DEF T
  <2> QED BY <1>1, <1>2, <2>1, InductiveSet
<1>4. ASSUME NEW k \in 0 .. Len(s) PROVE v[k] = w[k]
  <2>1. k \in T /\ k <= Len(s)
    BY <1>0, <1>3
  <2> QED BY <2>1
<1> QED BY <1>4

LEMMA SizeIs ==
  ASSUME NEW text \in Seq(Text)
  PROVE  \E v \in Sums(text) : Size(text) = v[Len(text)]
  BY SizeSteps DEF Sums

LEMMA SizeEmpty == Size(<<>>) = 0
<1>1. <<>> \in Seq(Text) /\ Len(<<>>) = 0
  OBVIOUS
<1>2. PICK v \in Sums(<<>>) : Size(<<>>) = v[0]
  BY <1>1, SizeIs
<1> QED BY <1>2 DEF Sums

LEMMA SizeAppend ==
  ASSUME NEW t \in Seq(Text), NEW b \in Text
  PROVE  Size(Append(t, b)) = Size(t) + Weight(b)
<1> DEFINE u == Append(t, b)
           n == Len(t)
<1>1. /\ u \in Seq(Text) /\ n \in Nat /\ Len(u) = n + 1 /\ u[n + 1] = b
      /\ n + 1 \in 1 .. Len(u) /\ (n + 1) - 1 = n /\ n \in 0 .. n /\ n <= Len(u)
      /\ \A i \in 1 .. n : t[i] = u[i]
  OBVIOUS
<1> HIDE DEF u
<1>2. PICK w \in Sums(u) : Size(u) = w[n + 1]
  BY <1>1, SizeIs
<1>3. PICK v \in Sums(t) : Size(t) = v[n]
  BY SizeIs
<1>4. \A k \in 0 .. n : v[k] = w[k]
  BY <1>1, SameSums
<1>5. v[n] = w[n]
  BY <1>1, <1>4
<1>6. w[n + 1] = w[n] + Weight(b)
  BY <1>1 DEF Sums
<1> QED BY <1>2, <1>3, <1>5, <1>6 DEF u

LEMMA SizeJoin ==
  ASSUME NEW a \in Seq(Text), NEW b \in Seq(Text)
  PROVE  Size(a \o b) = Size(a) + Size(b)
<1> DEFINE T == {n \in Nat : \A c \in Seq(Text) : Len(c) = n => Size(a \o c) = Size(a) + Size(c)}
<1>0. Size(a) \in Nat
  BY SizeType
<1>1. 0 \in T
  <2>1. ASSUME NEW c \in Seq(Text), Len(c) = 0 PROVE Size(a \o c) = Size(a) + Size(c)
    <3>1. c = <<>> /\ a \o c = a
      BY <2>1
    <3> QED BY <1>0, <3>1, SizeEmpty
  <2> QED BY <2>1
<1>2. ASSUME NEW n \in T PROVE n + 1 \in T
  <2>1. /\ n \in Nat /\ n + 1 \in Nat
        /\ \A c \in Seq(Text) : Len(c) = n => Size(a \o c) = Size(a) + Size(c)
    OBVIOUS
  <2>2. ASSUME NEW c \in Seq(Text), Len(c) = n + 1 PROVE Size(a \o c) = Size(a) + Size(c)
    <3> DEFINE d == SubSeq(c, 1, n)
               x == c[n + 1]
    <3>1. d \in Seq(Text) /\ Len(d) = n /\ x \in Text /\ c = Append(d, x)
      BY <2>1, <2>2, LastOf
    <3> HIDE DEF d, x
    <3>2. a \o c = Append(a \o d, x) /\ a \o d \in Seq(Text)
      BY <3>1, Joins
    <3>3. Size(a \o c) = Size(a \o d) + Weight(x)
      <4>1. Size(Append(a \o d, x)) = Size(a \o d) + Weight(x)
        BY <3>1, <3>2, SizeAppend
      <4> QED BY <3>2, <4>1
    <3>4. Size(c) = Size(d) + Weight(x)
      BY <3>1, SizeAppend
    <3>5. Size(d) \in Nat /\ Weight(x) \in Nat
      BY <3>1, SizeType, WeightType
    <3>6. Size(a \o d) = Size(a) + Size(d)
      BY <2>1, <3>1
    <3> QED BY <1>0, <3>3, <3>4, <3>5, <3>6
  <2> QED BY <2>1, <2>2
<1>3. T = Nat
  <2>1. T \in SUBSET Nat
    OBVIOUS
  <2> HIDE DEF T
  <2> QED BY <1>1, <1>2, <2>1, InductiveSet
<1>4. Len(b) \in T
  BY <1>3
<1> QED BY <1>4

-----------------------------------------------------------------------------
(* A text is well-formed if no character is open at its end.               *)

LEMMA AfterFrom ==
  ASSUME NEW q \in Nat, NEW b
  PROVE  /\ After(q, b) = 0 => \/ q = 0 /\ b \in {"short", "long"}
                               \/ q = 1 /\ b = "next"
         /\ After(q, b) = 1 => \/ q = 0 /\ b = "lead2"
                               \/ q = 2 /\ b = "next"
         /\ After(q, b) = 2 => q = 0 /\ b = "lead3"
  BY DEF After

LEMMA Slices ==
  ASSUME NEW t \in Seq(Text), NEW i \in 1 .. Len(t)
  PROVE  /\ SubSeq(t, i, i) = <<t[i]>>
         /\ i + 1 <= Len(t) => SubSeq(t, i, i + 1) = <<t[i], t[i + 1]>>
         /\ i + 2 <= Len(t) => SubSeq(t, i, i + 2) = <<t[i], t[i + 1], t[i + 2]>>
<1>1. SubSeq(t, i, i) = <<t[i]>>
  <2> DEFINE s == SubSeq(t, i, i)
  <2>1. s \in Seq(Text) /\ Len(s) = 1 /\ s[1] = t[i]
    OBVIOUS
  <2> HIDE DEF s
  <2>2. s = <<s[1]>>
    BY <2>1
  <2> QED BY <2>1, <2>2 DEF s
<1>2. ASSUME i + 1 <= Len(t) PROVE SubSeq(t, i, i + 1) = <<t[i], t[i + 1]>>
  <2> DEFINE s == SubSeq(t, i, i + 1)
  <2>1. s \in Seq(Text) /\ Len(s) = 2 /\ s[1] = t[i] /\ s[2] = t[i + 1]
    <3>1. i \in Nat /\ i + 1 \in 1 .. Len(t) /\ (i + 1) - i + 1 = 2 /\ i + 2 - 1 = i + 1
      BY <1>2
    <3>2. s \in Seq(Text) /\ Len(s) = 2
      BY <3>1
    <3>3. s[1] = t[i]
      BY <3>1
    <3>4. s[2] = t[i + 1]
      BY <3>1
    <3> QED BY <3>2, <3>3, <3>4
  <2> HIDE DEF s
  <2>2. s = <<s[1], s[2]>>
    BY <2>1
  <2> QED BY <2>1, <2>2 DEF s
<1>3. ASSUME i + 2 <= Len(t) PROVE SubSeq(t, i, i + 2) = <<t[i], t[i + 1], t[i + 2]>>
  <2> DEFINE s == SubSeq(t, i, i + 2)
  <2>1. s \in Seq(Text) /\ Len(s) = 3 /\ s[1] = t[i] /\ s[2] = t[i + 1] /\ s[3] = t[i + 2]
    BY <1>3, SMTT(40)
  <2> HIDE DEF s
  <2>2. s = <<s[1], s[2], s[3]>>
    BY <2>1
  <2> QED BY <2>1, <2>2 DEF s
<1> QED BY <1>1, <1>2, <1>3

LEMMA CharacterEnds ==
  ASSUME NEW t \in Seq(Text), NEW w \in Walk(0, t), NEW j \in 1 .. Len(t),
         NEW c \in Characters, j - Len(c) \in 0 .. Len(t), w[j - Len(c)] = 0,
         SubSeq(t, j - Len(c) + 1, j) = c
  PROVE  w[j] = 0
<1>1. /\ j \in Nat /\ Len(t) \in Nat
      /\ \A k \in 1 .. Len(t) : w[k] = After(w[k - 1], t[k])
  BY DEF Walk
<1>2. /\ After(0, "short") = 0 /\ After(0, "long") = 0 /\ After(0, "lead2") = 1
      /\ After(0, "lead3") = 2 /\ After(2, "next") = 1 /\ After(1, "next") = 0
  BY DEF After
<1>3. CASE c \in {<<"short">>, <<"long">>}
  <2>1. Len(c) = 1 /\ c[1] \in {"short", "long"}
    BY <1>3
  <2>2. j - 1 + 1 = j /\ w[j - 1] = 0 /\ SubSeq(t, j, j) = c
    BY <1>1, <2>1
  <2>3. SubSeq(t, j, j)[1] = t[j]
    BY <1>1
  <2>4. w[j] = After(w[j - 1], t[j])
    BY <1>1
  <2> QED BY <1>2, <2>1, <2>2, <2>3, <2>4
<1>4. CASE c = <<"lead2", "next">>
  <2> DEFINE i == j - 1
  <2>1. Len(c) = 2 /\ c[1] = "lead2" /\ c[2] = "next"
    BY <1>4
  <2>2. i \in 1 .. Len(t) /\ i - 1 = j - 2 /\ j - 2 + 1 = i /\ i + 1 = j
    BY <1>1, <2>1
  <2>3. w[i - 1] = 0 /\ SubSeq(t, i, j) = c
    BY <2>1, <2>2
  <2>4. SubSeq(t, i, j)[1] = t[i] /\ SubSeq(t, i, j)[2] = t[j]
    BY <1>1, <2>2
  <2>5. w[i] = After(w[i - 1], t[i]) /\ w[j] = After(w[i], t[j])
    BY <1>1, <2>2
  <2> QED BY <1>2, <2>1, <2>3, <2>4, <2>5
<1>5. CASE c = <<"lead3", "next", "next">>
  <2> DEFINE i == j - 1
             h == j - 2
  <2>1. Len(c) = 3 /\ c[1] = "lead3" /\ c[2] = "next" /\ c[3] = "next"
    BY <1>5
  <2>2. /\ h \in 1 .. Len(t) /\ i \in 1 .. Len(t) /\ h - 1 = j - 3 /\ j - 3 + 1 = h
        /\ i - 1 = h /\ j - 1 = i
    BY <1>1, <2>1
  <2>3. w[h - 1] = 0 /\ SubSeq(t, h, j) = c
    BY <2>1, <2>2
  <2>4. SubSeq(t, h, j)[1] = t[h] /\ SubSeq(t, h, j)[2] = t[i] /\ SubSeq(t, h, j)[3] = t[j]
    BY <1>1, <2>2
  <2>5. w[h] = After(w[h - 1], t[h]) /\ w[i] = After(w[h], t[i]) /\ w[j] = After(w[i], t[j])
    BY <1>1, <2>2
  <2> QED BY <1>2, <2>1, <2>3, <2>4, <2>5
<1> QED BY <1>3, <1>4, <1>5 DEF Characters

LEMMA CutsAreEnds ==
  ASSUME NEW t \in Seq(Text), NEW w \in Walk(0, t), WellFormed(t)
  PROVE  w[Len(t)] = 0
<1>1. PICK cuts \in SUBSET (0 .. Len(t)) :
        /\ {0, Len(t)} \subseteq cuts
        /\ \A k \in cuts \ {0} : \E c \in Characters :
             k - Len(c) \in cuts /\ SubSeq(t, k - Len(c) + 1, k) = c
  BY DEF WellFormed
<1>2. \A c \in Characters : Len(c) \in 1 .. 3
  BY DEF Characters
<1> DEFINE T == {m \in Nat : \A j \in cuts : j <= m => w[j] = 0}
<1>3. 0 \in T
  <2>1. ASSUME NEW j \in cuts, j <= 0 PROVE w[j] = 0
    <3>1. j = 0
      BY <2>1
    <3> QED BY <3>1 DEF Walk
  <2> QED BY <2>1
<1>4. ASSUME NEW m \in T PROVE m + 1 \in T
  <2>1. m \in Nat /\ m + 1 \in Nat /\ \A j \in cuts : j <= m => w[j] = 0
    OBVIOUS
  <2>2. ASSUME NEW j \in cuts, j <= m + 1 PROVE w[j] = 0
    <3>1. CASE j <= m
      BY <2>1, <3>1
    <3>2. CASE j = m + 1
      <4>1. j \in cuts \ {0} /\ j \in 1 .. Len(t)
        BY <2>1, <3>2
      <4>2. PICK c \in Characters : j - Len(c) \in cuts /\ SubSeq(t, j - Len(c) + 1, j) = c
        BY <1>1, <4>1
      <4>3. j - Len(c) <= m /\ j - Len(c) \in 0 .. Len(t)
        <5>1. Len(c) \in 1 .. 3
          BY <1>2
        <5>2. j - Len(c) \in 0 .. Len(t)
          BY <4>2
        <5> QED BY <2>1, <3>2, <5>1, <5>2
      <4>4. w[j - Len(c)] = 0
        BY <2>1, <4>2, <4>3
      <4> QED BY <4>1, <4>2, <4>3, <4>4, CharacterEnds
    <3> QED BY <2>1, <2>2, <3>1, <3>2
  <2> QED BY <2>1, <2>2
<1>5. T = Nat
  <2>1. T \in SUBSET Nat
    OBVIOUS
  <2> HIDE DEF T
  <2> QED BY <1>3, <1>4, <2>1, InductiveSet
<1>6. Len(t) \in T /\ Len(t) \in cuts
  BY <1>1, <1>5
<1> QED BY <1>6

(* Where a walk comes to no open character it came through one. *)
LEMMA EndsOfCharacters ==
  ASSUME NEW t \in Seq(Text), NEW w \in Walk(0, t), NEW k \in 1 .. Len(t), w[k] = 0
  PROVE  \E c \in Characters :
           /\ k - Len(c) \in 0 .. Len(t) /\ w[k - Len(c)] = 0
           /\ SubSeq(t, k - Len(c) + 1, k) = c
<1>1. /\ k \in Nat /\ Len(t) \in Nat /\ w[0] = 0
      /\ \A i \in 0 .. Len(t) : w[i] \in Nat
      /\ \A i \in 1 .. Len(t) : w[i] = After(w[i - 1], t[i])
  BY DEF Walk
<1>2. k - 1 \in 0 .. Len(t) /\ w[k - 1] \in Nat /\ After(w[k - 1], t[k]) = 0
  BY <1>1
<1>3. CASE w[k - 1] = 0 /\ t[k] \in {"short", "long"}
  <2> DEFINE c == <<t[k]>>
  <2>1. c \in Characters
    BY <1>3 DEF Characters
  <2>2. Len(c) = 1 /\ k - 1 + 1 = k /\ SubSeq(t, k, k) = c
    <3>1. SubSeq(t, k, k) = <<t[k]>>
      BY Slices
    <3> QED BY <1>1, <3>1
  <2> HIDE DEF c
  <2>3. SubSeq(t, k - Len(c) + 1, k) = c
    BY <2>2
  <2>4. w[k - Len(c)] = 0 /\ k - Len(c) \in 0 .. Len(t)
    BY <1>2, <1>3, <2>2
  <2> QED BY <2>1, <2>3, <2>4
<1>4. CASE w[k - 1] = 1 /\ t[k] = "next"
  <2> DEFINE i == k - 1
  <2>1. i \in 1 .. Len(t) /\ i - 1 \in 0 .. Len(t) /\ i - 1 = k - 2 /\ i + 1 = k
    BY <1>1, <1>4
  <2>2. w[i - 1] \in Nat /\ After(w[i - 1], t[i]) = 1
    BY <1>1, <1>4, <2>1
  <2>3. CASE w[i - 1] = 0 /\ t[i] = "lead2"
    <3> DEFINE c == <<t[i], t[k]>>
    <3>1. c = <<"lead2", "next">>
      BY <1>4, <2>3
    <3>2. c \in Characters
      BY <3>1 DEF Characters
    <3>3. Len(c) = 2 /\ k - 2 + 1 = i /\ SubSeq(t, i, k) = c
      <4>1. SubSeq(t, i, i + 1) = <<t[i], t[i + 1]>>
        BY <1>1, <2>1, Slices
      <4>2. Len(c) = 2 /\ k - 2 + 1 = i
        BY <1>1
      <4> QED BY <2>1, <4>1, <4>2
    <3> HIDE DEF c
    <3>4. SubSeq(t, k - Len(c) + 1, k) = c
      BY <3>3
    <3>5. w[k - Len(c)] = 0 /\ k - Len(c) \in 0 .. Len(t)
      BY <2>1, <2>3, <3>3
    <3> QED BY <3>2, <3>4, <3>5
  <2>4. CASE w[i - 1] = 2 /\ t[i] = "next"
    <3> DEFINE h == k - 2
    <3>1. h \in 1 .. Len(t) /\ h - 1 \in 0 .. Len(t) /\ h - 1 = k - 3 /\ h + 1 = i /\ h = i - 1
      BY <1>1, <2>1, <2>4
    <3>2. w[h - 1] \in Nat /\ After(w[h - 1], t[h]) = 2
      BY <1>1, <2>4, <3>1
    <3>3. w[h - 1] = 0 /\ t[h] = "lead3"
      BY <3>2, AfterFrom
    <3> DEFINE c == <<t[h], t[i], t[k]>>
    <3>4. c = <<"lead3", "next", "next">>
      BY <1>4, <2>4, <3>3
    <3>5. c \in Characters
      BY <3>4 DEF Characters
    <3>6. Len(c) = 3 /\ k - 3 + 1 = h /\ SubSeq(t, h, k) = c
      <4>1. h + 2 = k /\ h + 1 = i /\ k - 3 + 1 = h
        BY <1>1
      <4>2. SubSeq(t, h, h + 2) = <<t[h], t[h + 1], t[h + 2]>>
        BY <1>1, <3>1, <4>1, Slices
      <4>3. Len(c) = 3
        OBVIOUS
      <4> HIDE DEF h, i
      <4> QED BY <4>1, <4>2, <4>3
    <3> HIDE DEF c
    <3>7. SubSeq(t, k - Len(c) + 1, k) = c
      BY <3>6
    <3>8. w[k - Len(c)] = 0 /\ k - Len(c) \in 0 .. Len(t)
      BY <3>1, <3>3, <3>6
    <3> QED BY <3>5, <3>7, <3>8
  <2> QED BY <2>2, <2>3, <2>4, AfterFrom
<1> QED BY <1>2, <1>3, <1>4, AfterFrom

LEMMA WellFormedFrom ==
  ASSUME NEW t \in Seq(Text)
  PROVE  WellFormed(t) <=> From(0, t) = 0
<1>1. PICK w \in Walk(0, t) : From(0, t) = w[Len(t)]
  BY WalkIs
<1>2. ASSUME w[Len(t)] = 0 PROVE WellFormed(t)
  <2> DEFINE cuts == {k \in 0 .. Len(t) : w[k] = 0}
  <2>1. cuts \in SUBSET (0 .. Len(t)) /\ {0, Len(t)} \subseteq cuts
    BY <1>2 DEF Walk
  <2>2. ASSUME NEW k \in cuts \ {0}
        PROVE  \E c \in Characters :
                 k - Len(c) \in cuts /\ SubSeq(t, k - Len(c) + 1, k) = c
    <3>1. k \in 1 .. Len(t) /\ w[k] = 0
      OBVIOUS
    <3>2. PICK c \in Characters :
            /\ k - Len(c) \in 0 .. Len(t) /\ w[k - Len(c)] = 0
            /\ SubSeq(t, k - Len(c) + 1, k) = c
      BY <3>1, EndsOfCharacters
    <3> QED BY <3>2
  <2> HIDE DEF cuts
  <2> QED BY <2>1, <2>2 DEF WellFormed
<1> QED BY <1>1, <1>2, CutsAreEnds

-----------------------------------------------------------------------------
(* What is in front and what is behind.                                    *)

LEMMA LargestOf ==
  ASSUME NEW n \in Nat, NEW K \in SUBSET (0 .. n), K # {}
  PROVE  \E x \in K : \A y \in K : y <= x
<1> DEFINE T == {n - k : k \in K}
<1>1. T \in SUBSET Nat /\ T # {}
  <2>1. \A k \in K : n - k \in Nat
    OBVIOUS
  <2>2. PICK k \in K : TRUE
    OBVIOUS
  <2>3. n - k \in T
    OBVIOUS
  <2>4. \A x \in T : x \in Nat
    BY <2>1
  <2> HIDE DEF T
  <2> QED BY <2>3, <2>4
<1> HIDE DEF T
<1>2. PICK m \in T : \A y \in T : m <= y
  BY <1>1, LeastNat
<1>3. PICK x \in K : m = n - x
  BY DEF T
<1>4. ASSUME NEW y \in K PROVE y <= x
  <2>1. n - y \in T
    BY DEF T
  <2>2. n - x <= n - y
    BY <1>2, <1>3, <2>1
  <2> QED BY <2>2
<1> QED BY <1>4

LEMMA ValidIs ==
  ASSUME NEW t \in Seq(Text)
  PROVE  /\ ValidLen(t) \in 0 .. Len(t)
         /\ Valid(t) \in Seq(Text) /\ Len(Valid(t)) = ValidLen(t) /\ WellFormed(Valid(t))
         /\ Behind(t) \in Seq(Text) /\ Len(Behind(t)) = Len(t) - ValidLen(t)
         /\ t = Valid(t) \o Behind(t)
         /\ \A k \in 0 .. Len(t) : WellFormed(SubSeq(t, 1, k)) => k <= ValidLen(t)
<1> DEFINE K == {k \in 0 .. Len(t) : WellFormed(SubSeq(t, 1, k))}
<1>1. K \in SUBSET (0 .. Len(t)) /\ K # {}
  <2>1. SubSeq(t, 1, 0) = <<>> /\ <<>> \in Seq(Text) /\ 0 \in Nat /\ 0 \in 0 .. Len(t)
    OBVIOUS
  <2>2. WellFormed(<<>>)
    BY <2>1, WellFormedFrom, FromEmpty
  <2>3. 0 \in K
    BY <2>1, <2>2
  <2> QED BY <2>3
<1>2. ValidLen(t) = Max(K)
  BY DEF ValidLen
<1>3. \A k \in K : k \in 0 .. Len(t) /\ WellFormed(SubSeq(t, 1, k))
  OBVIOUS
<1>4. \A k \in 0 .. Len(t) : WellFormed(SubSeq(t, 1, k)) => k \in K
  OBVIOUS
<1> HIDE DEF K
<1>5. \E x \in K : \A y \in K : y <= x
  <2>1. Len(t) \in Nat
    OBVIOUS
  <2> QED BY <1>1, <2>1, LargestOf
<1>6. ValidLen(t) \in K /\ \A y \in K : y <= ValidLen(t)
  BY <1>1, <1>2, <1>5 DEF Max
<1>7. ValidLen(t) \in 0 .. Len(t) /\ WellFormed(Valid(t))
  BY <1>3, <1>6 DEF Valid
<1>8. \A k \in 0 .. Len(t) : WellFormed(SubSeq(t, 1, k)) => k <= ValidLen(t)
  BY <1>4, <1>6
<1> QED BY <1>7, <1>8, Cut DEF Valid, Behind

(* No character ends in what is behind. *)
LEMMA BehindIs ==
  ASSUME NEW t \in Seq(Text)
  PROVE  /\ From(0, Behind(t)) = From(0, t)
         /\ \A k \in 1 .. Len(Behind(t)) : From(0, SubSeq(Behind(t), 1, k)) # 0
<1> DEFINE n == Len(t)
           v == ValidLen(t)
           a == Valid(t)
           b == Behind(t)
<1>1. /\ n \in Nat /\ v \in 0 .. n /\ a \in Seq(Text) /\ Len(a) = v /\ WellFormed(a)
      /\ b \in Seq(Text) /\ Len(b) = n - v /\ t = a \o b
      /\ \A k \in 0 .. n : WellFormed(SubSeq(t, 1, k)) => k <= v
  <2>1. n \in Nat
    OBVIOUS
  <2> QED BY <2>1, ValidIs, Zenon
<1>2. a = SubSeq(t, 1, v) /\ b = SubSeq(t, v + 1, n)
  BY DEF Valid, Behind
<1> HIDE DEF n, v, a, b
<1>3. From(0, a) = 0
  BY <1>1, WellFormedFrom
<1>4. From(0, t) = From(0, b)
  BY <1>1, <1>3, FromJoin
<1>5. ASSUME NEW k \in 1 .. n - v, From(0, SubSeq(b, 1, k)) = 0 PROVE FALSE
  <2> DEFINE c == SubSeq(b, 1, k)
             d == SubSeq(t, 1, v + k)
  <2>1. k \in 0 .. Len(b) /\ v + k \in 0 .. n /\ v \in Nat /\ k \in Nat /\ v + k > v
    BY <1>1
  <2>2. c \in Seq(Text) /\ d \in Seq(Text)
    BY <1>1, <2>1, Cut DEF n
  <2>3. d = a \o c
    <3>1. SubSeq(t, 1, v) \o SubSeq(t, v + 1, v + k) = SubSeq(t, 1, v + k)
      <4>1. 1 \in 1 .. Len(t) + 1 /\ v \in 1 - 1 .. Len(t) /\ v + k \in v .. Len(t)
        BY <1>1, <2>1 DEF n
      <4> QED BY <4>1, ConcatAdjacentSubSeq
    <3>2. c = SubSeq(t, v + 1, v + k)
      <4>1. /\ v + 1 \in 1 .. Len(t) /\ n \in 1 .. Len(t)
            /\ 1 \in 1 .. n - (v + 1) + 1 /\ k \in 1 .. n - (v + 1) + 1
            /\ v + 1 + 1 - 1 = v + 1 /\ v + 1 + k - 1 = v + k
        BY <1>1, <2>1 DEF n
      <4>2. SubSeq(SubSeq(t, v + 1, n), 1, k) = SubSeq(t, v + 1 + 1 - 1, v + 1 + k - 1)
        BY <4>1, SubSeqOfSubSeq, SMTT(40)
      <4> QED BY <1>2, <4>1, <4>2
    <3> QED BY <1>2, <3>1, <3>2
  <2> HIDE DEF c, d
  <2>4. From(0, d) = 0
    <3>1. From(0, a \o c) = From(From(0, a), c)
      <4>1. 0 \in 0 .. 3
        OBVIOUS
      <4> QED BY <1>1, <2>2, <4>1, FromJoin
    <3>2. From(0, c) = 0
      BY <1>5 DEF c
    <3> QED BY <1>3, <2>3, <3>1, <3>2
  <2>5. WellFormed(d)
    BY <2>2, <2>4, WellFormedFrom
  <2> QED BY <1>1, <2>1, <2>5 DEF d
<1> QED BY <1>1, <1>4, <1>5 DEF b

-----------------------------------------------------------------------------
(* Beginnings of characters.                                               *)

Starts == {<<>>, <<"lead2">>, <<"lead3">>, <<"lead3", "next">>}

LEMMA BeginsIs ==
  ASSUME NEW u \in Seq(Text)
  PROVE  Begins(u) <=> u \in Starts
<1>1. /\ \A c \in Characters : c \in Seq(Text) /\ Len(c) \in 1 .. 3
      /\ \A c \in Characters : Len(c) > 1 => c[1] \in {"lead2", "lead3"}
      /\ \A c \in Characters : Len(c) > 2 => c[1] = "lead3" /\ c[2] = "next"
  BY DEF Characters, Text
<1>2. ASSUME NEW c \in Characters, Len(u) < Len(c), IsPrefix(u, c) PROVE u \in Starts
  <2>1. SubSeq(u, 1, Len(u)) = SubSeq(c, 1, Len(u)) /\ Len(u) \in Nat /\ c \in Seq(Text)
    BY <1>1, <1>2 DEF IsPrefix
  <2>2. \A i \in 1 .. Len(u) : u[i] = c[i]
    <3>1. ASSUME NEW i \in 1 .. Len(u) PROVE u[i] = c[i]
      <4>1. SubSeq(u, 1, Len(u))[i] = u[i] /\ SubSeq(c, 1, Len(u))[i] = c[i]
        BY <1>2, <2>1
      <4> QED BY <2>1, <4>1
    <3> QED BY <3>1
  <2>3. Len(u) \in {0, 1, 2}
    <3>1. Len(c) \in 1 .. 3
      BY <1>1
    <3>2. Len(u) \in Nat /\ Len(u) < Len(c)
      BY <1>2
    <3>3. \A m \in Nat, n \in 1 .. 3 : m < n => m \in {0, 1, 2}
      OBVIOUS
    <3> QED BY <3>1, <3>2, <3>3, Zenon
  <2>4. CASE Len(u) = 0
    <3>1. u = <<>>
      BY <2>4
    <3> QED BY <3>1 DEF Starts
  <2>5. CASE Len(u) = 1
    <3>1. u = <<u[1]>> /\ u[1] = c[1] /\ Len(c) > 1
      BY <1>2, <2>2, <2>5
    <3> QED BY <1>1, <3>1 DEF Starts
  <2>6. CASE Len(u) = 2
    <3>1. u = <<u[1], u[2]>> /\ u[1] = c[1] /\ u[2] = c[2] /\ Len(c) > 2
      BY <1>2, <2>2, <2>6
    <3> QED BY <1>1, <3>1 DEF Starts
  <2> QED BY <2>3, <2>4, <2>5, <2>6
<1>3. ASSUME u \in Starts PROVE Begins(u)
  <2>1. CASE u = <<>>
    <3>1. <<"short">> \in Characters /\ Len(u) < Len(<<"short">>) /\ IsPrefix(u, <<"short">>)
      BY <2>1 DEF Characters, IsPrefix
    <3> QED BY <3>1 DEF Begins
  <2>2. CASE u = <<"lead2">>
    <3> DEFINE c == <<"lead2", "next">>
    <3>1. SubSeq(u, 1, 1) = <<u[1]>> /\ SubSeq(c, 1, 1) = <<c[1]>>
      <4>1. c \in Seq(Text) /\ 1 \in 1 .. Len(c) /\ 1 \in 1 .. Len(u)
        BY <2>2 DEF Text
      <4> HIDE DEF c
      <4> QED BY <4>1, Slices
    <3>2. c \in Characters /\ Len(u) < Len(c) /\ IsPrefix(u, c)
      BY <2>2, <3>1 DEF Characters, IsPrefix
    <3> QED BY <3>2 DEF Begins
  <2>3. CASE u = <<"lead3">>
    <3> DEFINE c == <<"lead3", "next", "next">>
    <3>1. SubSeq(u, 1, 1) = <<u[1]>> /\ SubSeq(c, 1, 1) = <<c[1]>>
      <4>1. c \in Seq(Text) /\ 1 \in 1 .. Len(c) /\ 1 \in 1 .. Len(u)
        BY <2>3 DEF Text
      <4> HIDE DEF c
      <4> QED BY <4>1, Slices
    <3>2. c \in Characters /\ Len(u) < Len(c) /\ IsPrefix(u, c)
      BY <2>3, <3>1 DEF Characters, IsPrefix
    <3> QED BY <3>2 DEF Begins
  <2>4. CASE u = <<"lead3", "next">>
    <3> DEFINE c == <<"lead3", "next", "next">>
    <3>1. SubSeq(u, 1, 2) = <<u[1], u[2]>> /\ SubSeq(c, 1, 2) = <<c[1], c[2]>>
      <4>1. /\ c \in Seq(Text) /\ 1 \in 1 .. Len(c) /\ 1 \in 1 .. Len(u)
            /\ 1 + 1 = 2 /\ 2 <= Len(c) /\ 2 <= Len(u)
        BY <2>4 DEF Text
      <4> HIDE DEF c
      <4>2. 1 + 1 <= Len(c) => SubSeq(c, 1, 1 + 1) = <<c[1], c[1 + 1]>>
        BY <4>1, Slices
      <4>3. 1 + 1 <= Len(u) => SubSeq(u, 1, 1 + 1) = <<u[1], u[1 + 1]>>
        BY <4>1, Slices
      <4> QED BY <4>1, <4>2, <4>3
    <3>2. c \in Characters /\ Len(u) < Len(c) /\ IsPrefix(u, c)
      BY <2>4, <3>1 DEF Characters, IsPrefix
    <3> QED BY <3>2 DEF Begins
  <2> QED BY <1>3, <2>1, <2>2, <2>3, <2>4 DEF Starts
<1> QED BY <1>2, <1>3 DEF Begins

LEMMA StartsFrom ==
  /\ From(0, <<>>) = 0 /\ From(0, <<"lead2">>) = 1
  /\ From(0, <<"lead3">>) = 2 /\ From(0, <<"lead3", "next">>) = 1
<1>1. /\ <<>> \in Seq(Text) /\ <<"lead3">> \in Seq(Text) /\ 0 \in Nat
      /\ "lead2" \in Text /\ "lead3" \in Text /\ "next" \in Text
      /\ <<"lead2">> = Append(<<>>, "lead2") /\ <<"lead3">> = Append(<<>>, "lead3")
      /\ <<"lead3", "next">> = Append(<<"lead3">>, "next")
  BY DEF Text
<1>2. From(0, <<>>) = 0
  BY FromEmpty
<1>3. From(0, <<"lead2">>) = After(0, "lead2") /\ From(0, <<"lead3">>) = After(0, "lead3")
  <2>1. From(0, Append(<<>>, "lead2")) = After(From(0, <<>>), "lead2")
    BY <1>1, FromAppend
  <2>2. From(0, Append(<<>>, "lead3")) = After(From(0, <<>>), "lead3")
    BY <1>1, FromAppend
  <2> QED BY <1>1, <1>2, <2>1, <2>2
<1>4. From(0, <<"lead3", "next">>) = After(From(0, <<"lead3">>), "next")
  <2>1. From(0, Append(<<"lead3">>, "next")) = After(From(0, <<"lead3">>), "next")
    BY <1>1, FromAppend
  <2> QED BY <1>1, <2>1
<1> QED BY <1>2, <1>3, <1>4 DEF After

(* What no character ends in is the beginning of one, or hopeless. *)
LEMMA BeginsFrom ==
  ASSUME NEW u \in Seq(Text), \A k \in 1 .. Len(u) : From(0, SubSeq(u, 1, k)) # 0
  PROVE  Begins(u) <=> From(0, u) # 3
<1>1. u \in Starts => From(0, u) # 3
  BY StartsFrom DEF Starts
<1>2. ASSUME From(0, u) # 3 PROVE u \in Starts
  <2>1. PICK w \in Walk(0, u) : From(0, u) = w[Len(u)]
    BY WalkIs
  <2>2. ASSUME NEW k \in 1 .. Len(u) PROVE w[k] # 0 /\ w[k] # 3 /\ w[k] = After(w[k - 1], u[k])
    <3>1. k \in 0 .. Len(u) /\ w[k] = From(0, SubSeq(u, 1, k)) /\ w[k] = After(w[k - 1], u[k])
      BY FromPrefix DEF Walk
    <3>2. /\ SubSeq(u, 1, k) \in Seq(Text) /\ SubSeq(u, k + 1, Len(u)) \in Seq(Text)
          /\ u = SubSeq(u, 1, k) \o SubSeq(u, k + 1, Len(u))
      BY <3>1, Cut
    <3>3. From(0, u) = From(w[k], SubSeq(u, k + 1, Len(u)))
      <4>1. From(0, SubSeq(u, 1, k) \o SubSeq(u, k + 1, Len(u))) =
              From(From(0, SubSeq(u, 1, k)), SubSeq(u, k + 1, Len(u)))
        <5>1. 0 \in 0 .. 3
          OBVIOUS
        <5> QED BY <3>2, <5>1, FromJoin
      <4> QED BY <3>1, <3>2, <4>1
    <3>4. w[k] # 3
      BY <1>2, <3>2, <3>3, FromDead
    <3> QED BY <3>1, <3>4
  <2>3. w[0] = 0 /\ Len(u) \in Nat
    BY DEF Walk
  <2>4. CASE Len(u) = 0
    <3>1. u = <<>>
      BY <2>4
    <3> QED BY <3>1 DEF Starts
  <2>5. CASE Len(u) > 0
    <3>1. 1 \in 1 .. Len(u) /\ 1 - 1 = 0
      BY <2>3, <2>5
    <3>2. w[1] # 0 /\ w[1] # 3 /\ w[1] = After(0, u[1])
      BY <2>2, <2>3, <3>1
    <3>3. \/ u[1] = "lead2" /\ w[1] = 1
          \/ u[1] = "lead3" /\ w[1] = 2
      BY <3>2 DEF After
    <3>4. CASE Len(u) = 1
      <4>1. u = <<u[1]>>
        BY <3>4
      <4> QED BY <3>3, <4>1 DEF Starts
    <3>5. CASE Len(u) > 1
      <4>1. 2 \in 1 .. Len(u) /\ 2 - 1 = 1
        BY <2>3, <3>5
      <4>2. w[2] # 0 /\ w[2] # 3 /\ w[2] = After(w[1], u[2])
        BY <2>2, <4>1
      <4>3. u[1] = "lead3" /\ u[2] = "next" /\ w[2] = 1
        BY <3>3, <4>2 DEF After
      <4>4. CASE Len(u) = 2
        <5>1. u = <<u[1], u[2]>>
          BY <4>4
        <5> QED BY <4>3, <5>1 DEF Starts
      <4>5. CASE Len(u) > 2
        <5>1. 3 \in 1 .. Len(u) /\ 3 - 1 = 2
          BY <2>3, <4>5
        <5>2. w[3] # 0 /\ w[3] # 3 /\ w[3] = After(w[2], u[3])
          BY <2>2, <5>1
        <5> QED BY <4>3, <5>2 DEF After
      <4>6. Len(u) = 2 \/ Len(u) > 2
        <5>1. \A m \in Nat : m > 1 => m = 2 \/ m > 2
          OBVIOUS
        <5> QED BY <2>3, <3>5, <5>1, Zenon
      <4> QED BY <4>4, <4>5, <4>6, Zenon
    <3> QED BY <2>3, <2>5, <3>4, <3>5
  <2> QED BY <2>3, <2>4, <2>5
<1> QED BY <1>1, <1>2, BeginsIs

(* A text is hopeless if its walk is at its end. *)
LEMMA HopelessFrom ==
  ASSUME NEW t \in Seq(Text)
  PROVE  Hopeless(t) <=> From(0, t) = 3
<1>1. Behind(t) \in Seq(Text)
  BY ValidIs
<1>2. Begins(Behind(t)) <=> From(0, Behind(t)) # 3
  BY <1>1, BehindIs, BeginsFrom
<1> QED BY <1>2, BehindIs DEF Hopeless

-----------------------------------------------------------------------------
(* What a fragment adds to a message.                                      *)

LEMMA BehindWellFormed ==
  ASSUME NEW a \in Seq(Text), WellFormed(a), NEW t \in Seq(Text)
  PROVE  /\ WellFormed(a \o t) <=> WellFormed(t)
         /\ Hopeless(a \o t) <=> Hopeless(t)
<1>1. From(0, a) = 0 /\ a \o t \in Seq(Text) /\ 0 \in 0 .. 3
  BY WellFormedFrom, Joins
<1>2. From(0, a \o t) = From(0, t)
  BY <1>1, FromJoin
<1> QED BY <1>1, <1>2, WellFormedFrom, HopelessFrom

LEMMA HopelessStays ==
  ASSUME NEW a \in Seq(Text), Hopeless(a), NEW t \in Seq(Text)
  PROVE  Hopeless(a \o t)
<1>1. From(0, a) = 3 /\ a \o t \in Seq(Text) /\ 0 \in 0 .. 3
  BY HopelessFrom, Joins
<1>2. From(0, a \o t) = From(3, t)
  BY <1>1, FromJoin
<1>3. From(0, a \o t) = 3
  BY <1>2, FromDead
<1> QED BY <1>1, <1>3, HopelessFrom

LEMMA StartsOpen ==
  ASSUME NEW u \in Seq(Text), Begins(u)
  PROVE  /\ Len(u) \in 0 .. 2 /\ ~Hopeless(u) /\ (u # <<>> => ~WellFormed(u))
         /\ \A k \in 1 .. Len(u) : ~WellFormed(SubSeq(u, 1, k))
<1>1. u \in Starts
  BY BeginsIs
<1>2. Len(u) \in 0 .. 2
  BY <1>1 DEF Starts
<1>3. From(0, u) # 3 /\ (u # <<>> => From(0, u) # 0)
  BY <1>1, StartsFrom DEF Starts
<1>4. ASSUME NEW k \in 1 .. Len(u) PROVE ~WellFormed(SubSeq(u, 1, k))
  <2>1. k \in 0 .. Len(u) /\ SubSeq(u, 1, k) \in Seq(Text)
    BY Cut
  <2>2. From(0, SubSeq(u, 1, k)) # 0
    <3>1. CASE k = Len(u)
      <4>1. SubSeq(u, 1, k) = u /\ u # <<>>
        BY <3>1
      <4> QED BY <1>3, <4>1
    <3>2. CASE k # Len(u)
      <4>1. k = 1 /\ Len(u) = 2
        <5>1. \A m \in 0 .. 2 : \A n \in 1 .. m : n # m => n = 1 /\ m = 2
          OBVIOUS
        <5> QED BY <1>2, <3>2, <5>1, Zenon
      <4>2. u = <<"lead3", "next">>
        BY <1>1, <4>1 DEF Starts
      <4>3. SubSeq(u, 1, 1) = <<u[1]>> /\ u[1] = "lead3"
        BY <4>1, <4>2, Slices
      <4>4. SubSeq(u, 1, k) = <<"lead3">> /\ From(0, <<"lead3">>) = 2
        BY <4>1, <4>3, StartsFrom
      <4>5. From(0, SubSeq(u, 1, k)) = 2
        BY <4>4, Zenon
      <4> QED BY <4>5
    <3> QED BY <3>1, <3>2
  <2> QED BY <2>1, <2>2, WellFormedFrom
<1> QED BY <1>2, <1>3, <1>4, HopelessFrom, WellFormedFrom

LEMMA EmptyBegins == WellFormed(<<>>) /\ Begins(<<>>) /\ ~Hopeless(<<>>)
<1>1. <<>> \in Seq(Text) /\ 0 \in Nat
  OBVIOUS
<1>2. Begins(<<>>)
  BY <1>1, BeginsIs DEF Starts
<1>3. From(0, <<>>) = 0
  BY <1>1, FromEmpty
<1>4. WellFormed(<<>>)
  BY <1>1, <1>3, WellFormedFrom
<1>5. Hopeless(<<>>) <=> From(0, <<>>) = 3
  BY <1>1, HopelessFrom, Zenon
<1> QED BY <1>2, <1>3, <1>4, <1>5

LEMMA JoinThree ==
  ASSUME NEW a \in Seq(Text), NEW b \in Seq(Text), NEW c \in Seq(Text)
  PROVE  /\ a \o b \in Seq(Text) /\ (a \o b) \o c \in Seq(Text)
         /\ (a \o b) \o c = a \o (b \o c)
         /\ Size((a \o b) \o c) = Size(a) + Size(b) + Size(c)
<1>1. a \o b \in Seq(Text) /\ (a \o b) \o c = a \o (b \o c)
  OBVIOUS
<1> DEFINE ab == a \o b
<1>2. ab \in Seq(Text) /\ Size(ab) = Size(a) + Size(b)
  BY <1>1, SizeJoin
<1> HIDE DEF ab
<1>3. ab \o c \in Seq(Text) /\ Size(ab \o c) = Size(ab) + Size(c)
  BY <1>2, Joins, SizeJoin
<1>4. Size(ab \o c) = Size(a) + Size(b) + Size(c)
  BY <1>2, <1>3
<1> QED BY <1>1, <1>2, <1>3, <1>4 DEF ab

(* What a collector holds after a text, if it has taken it. *)
Taken(e, whole) ==
  /\ e.err \in {"Ok", "Utf8"} /\ e.data \in Seq(Text) /\ e.part \in Seq(Text)
  /\ WellFormed(e.data) /\ Begins(e.part)
  /\ Size(e.data) + Size(e.part) <= Size(whole)
  /\ e.err = "Ok" => e.data \o e.part = whole /\ ~Hopeless(whole)
  /\ e.err = "Utf8" => Hopeless(whole)

LEMMA PushTakes ==
  ASSUME NEW data \in Seq(Text), WellFormed(data), NEW input \in Seq(Text)
  PROVE  Taken(Push(data, input), data \o input)
<1> DEFINE v == Valid(input)
           b == Behind(input)
<1>1. v \in Seq(Text) /\ b \in Seq(Text) /\ WellFormed(v) /\ input = v \o b
  BY ValidIs
<1>2. Hopeless(input) <=> ~Begins(b)
  BY DEF Hopeless
<1>3. Push(data, input) = IF Begins(b) THEN [err |-> "Ok", data |-> data \o v, part |-> b]
                          ELSE [err |-> "Utf8", data |-> data \o v, part |-> <<>>]
  BY DEF Push
<1> HIDE DEF v, b
<1>4. data \o v \in Seq(Text) /\ WellFormed(data \o v) /\ (data \o v) \o b = data \o input
  BY <1>1, Joins, BehindWellFormed
<1>5. Hopeless(data \o input) <=> Hopeless(input)
  BY BehindWellFormed
<1>6. Size(data \o v) + Size(b) = Size(data \o input) /\ Size(b) \in Nat /\ Size(data \o v) \in Nat
  <2>1. Size((data \o v) \o b) = Size(data \o v) + Size(b)
    BY <1>1, <1>4, SizeJoin
  <2> QED BY <1>1, <1>4, <2>1, SizeType
<1>7. CASE Begins(b)
  BY <1>1, <1>2, <1>3, <1>4, <1>5, <1>6, <1>7, SMTT(40) DEF Taken
<1>8. CASE ~Begins(b)
  <2>1. Size(data \o v) + Size(<<>>) <= Size(data \o input)
    BY <1>6, SizeEmpty
  <2>2. <<>> \in Seq(Text)
    OBVIOUS
  <2> QED BY <1>2, <1>3, <1>4, <1>5, <1>8, <2>1, <2>2, EmptyBegins DEF Taken
<1> QED BY <1>7, <1>8

(* A character that was begun is in the buffer, with what follows of it.   *)
LEMMA BufferCut ==
  ASSUME NEW part \in Seq(Text), NEW tail \in Seq(Text), NEW c \in 0 .. Len(tail),
         Begins(part), part # <<>>
  PROVE  LET buffer == part \o SubSeq(tail, 1, c)
             j == ValidLen(buffer) - Len(part)
         IN /\ buffer \in Seq(Text) /\ Len(buffer) = Len(part) + c
            /\ Valid(buffer) # <<>> =>
                 j \in 0 .. Len(tail) /\ Valid(buffer) = part \o SubSeq(tail, 1, j)
            /\ Valid(buffer) = <<>> => Behind(buffer) = buffer
<1> DEFINE head == SubSeq(tail, 1, c)
           buffer == part \o head
           l == Len(part)
           vl == ValidLen(buffer)
           j == vl - l
<1>1. head \in Seq(Text) /\ Len(head) = c /\ c \in Nat /\ l \in Nat /\ l >= 1
  <2>1. l \in Nat /\ l # 0 /\ c \in Nat
    OBVIOUS
  <2> QED BY <2>1, Cut
<1>2. buffer \in Seq(Text) /\ Len(buffer) = l + c
  BY <1>1, Joins
<1>3. /\ vl \in 0 .. l + c /\ Len(Valid(buffer)) = vl /\ WellFormed(Valid(buffer))
      /\ Valid(buffer) \in Seq(Text) /\ Behind(buffer) \in Seq(Text)
      /\ buffer = Valid(buffer) \o Behind(buffer)
  BY <1>2, ValidIs
<1>4. Valid(buffer) = SubSeq(buffer, 1, vl)
  BY DEF Valid
<1> HIDE DEF vl, l, head, buffer
<1>5. ASSUME vl # 0 PROVE vl > l
  <2>1. SUFFICES ASSUME vl \in 1 .. l PROVE FALSE
    BY <1>1, <1>3, <1>5
  <2>2. 1 \in 1 .. Len(part) /\ vl \in 1 .. Len(part)
    BY <1>1, <2>1 DEF l
  <2>3. SubSeq(part \o head, 1, vl) = SubSeq(part, 1, vl)
    BY <1>1, <2>2, SubSeqOfConcat1
  <2>4. ~WellFormed(SubSeq(part, 1, vl))
    BY <2>2, StartsOpen
  <2> QED BY <1>3, <1>4, <2>3, <2>4 DEF buffer
<1>6. ASSUME vl # 0 PROVE j \in 0 .. Len(tail) /\ Valid(buffer) = part \o SubSeq(tail, 1, j)
  <2>1. j \in 1 .. c /\ j \in Nat /\ vl = l + j /\ c <= Len(tail) /\ Len(tail) \in Nat
    BY <1>1, <1>3, <1>5, <1>6
  <2> HIDE DEF j
  <2>2. SubSeq(buffer, 1, l) = part
    <3>1. SubSeq(part \o head, 1, Len(part)) = SubSeq(part, 1, Len(part))
      <4>1. 1 \in 1 .. Len(part) /\ Len(part) \in 1 .. Len(part)
        BY <1>1 DEF l
      <4> QED BY <1>1, <4>1, SubSeqOfConcat1
    <3>2. SubSeq(part, 1, Len(part)) = part
      OBVIOUS
    <3> QED BY <3>1, <3>2 DEF buffer, l
  <2>3. SubSeq(buffer, l + 1, vl) = SubSeq(head, 1, j)
    <3>1. /\ l + 1 \in Len(part) + 1 .. Len(part) + Len(head)
          /\ vl \in Len(part) + 1 .. Len(part) + Len(head)
          /\ l + 1 - Len(part) = 1 /\ vl - Len(part) = j
      BY <1>1, <2>1 DEF l
    <3>2. SubSeq(part \o head, l + 1, vl) =
            SubSeq(head, l + 1 - Len(part), vl - Len(part))
      BY <1>1, <3>1, SubSeqOfConcat2
    <3> QED BY <3>1, <3>2 DEF buffer
  <2>4. SubSeq(head, 1, j) = SubSeq(tail, 1, j)
    <3>1. /\ 1 \in 1 .. Len(tail) /\ c \in 1 .. Len(tail)
          /\ 1 \in 1 .. c - 1 + 1 /\ j \in 1 .. c - 1 + 1
          /\ 1 + 1 - 1 = 1 /\ 1 + j - 1 = j
      BY <1>1, <2>1
    <3>2. SubSeq(SubSeq(tail, 1, c), 1, j) = SubSeq(tail, 1 + 1 - 1, 1 + j - 1)
      BY <3>1, SubSeqOfSubSeq
    <3> QED BY <3>1, <3>2 DEF head
  <2>5. SubSeq(buffer, 1, l) \o SubSeq(buffer, l + 1, vl) = SubSeq(buffer, 1, vl)
    <3>1. /\ 1 \in 1 .. Len(buffer) + 1 /\ l \in 1 - 1 .. Len(buffer)
          /\ vl \in l .. Len(buffer)
      BY <1>1, <1>2, <1>3, <2>1
    <3> QED BY <1>2, <3>1, ConcatAdjacentSubSeq
  <2>6. j \in 0 .. Len(tail)
    BY <2>1
  <2> QED BY <1>4, <2>2, <2>3, <2>4, <2>5, <2>6
<1>7. Valid(buffer) # <<>> => vl # 0
  BY <1>3
<1>8. ASSUME Valid(buffer) = <<>> PROVE Behind(buffer) = buffer
  <2>1. buffer = <<>> \o Behind(buffer)
    BY <1>3, <1>8
  <2>2. <<>> \o Behind(buffer) = Behind(buffer)
    BY <1>3
  <2> QED BY <2>1, <2>2
<1> HIDE DEF j
<1>9. /\ Valid(buffer) # <<>> => j \in 0 .. Len(tail) /\ Valid(buffer) = part \o SubSeq(tail, 1, j)
      /\ Valid(buffer) = <<>> => Behind(buffer) = buffer
  BY <1>6, <1>7, <1>8
<1> QED BY <1>2, <1>9 DEF buffer, head, l, vl, j

LEMMA ExtendTakes ==
  ASSUME NEW data \in Seq(Text), WellFormed(data), NEW part \in Seq(Text), Begins(part),
         NEW tail \in Seq(Text)
  PROVE  \A m : m.data = data /\ m.part = part =>
               Taken(Extend(m, tail), (data \o part) \o tail)
<1> DEFINE whole == (data \o part) \o tail
           c == Min({4 - Len(part), Len(tail)})
           head == SubSeq(tail, 1, c)
           buffer == part \o head
           j == ValidLen(buffer) - Len(part)
           rest == SubSeq(tail, j + 1, Len(tail))
           result ==
             IF part = <<>> THEN Push(data, tail)
             ELSE IF Valid(buffer) # <<>> THEN Push(data \o Valid(buffer), rest)
             ELSE IF Begins(buffer) THEN [err |-> "Ok", data |-> data, part |-> buffer]
             ELSE [err |-> "Utf8", data |-> data, part |-> <<>>]
<1>0. SUFFICES Taken(result, whole)
  <2>1. ASSUME NEW m, m.data = data, m.part = part PROVE Extend(m, tail) = result
    BY <2>1, Zenon DEF Extend
  <2> HIDE DEF result, whole
  <2> QED BY <2>1 DEF whole
<1>3. ASSUME NEW x \in Seq(Text), NEW y \in Seq(Text)
      PROVE  (data \o (part \o x)) \o y = (data \o part) \o (x \o y)
  <2> DEFINE both == data \o part
  <2>1. both \in Seq(Text) /\ data \o (part \o x) = both \o x
    BY SMTT(40)
  <2> HIDE DEF both
  <2>2. (both \o x) \o y = both \o (x \o y)
    BY <2>1, SMTT(40)
  <2> QED BY <2>1, <2>2 DEF both
<1>1. CASE part = <<>>
  <2>1. result = Push(data, tail)
    BY <1>1
  <2> HIDE DEF result
  <2>2. whole = data \o tail
    BY <1>1, Joins
  <2> QED BY <2>1, <2>2, PushTakes
<1>2. CASE part # <<>>
  <2>1. result =
          IF Valid(buffer) # <<>> THEN Push(data \o Valid(buffer), rest)
          ELSE IF Begins(buffer) THEN [err |-> "Ok", data |-> data, part |-> buffer]
          ELSE [err |-> "Utf8", data |-> data, part |-> <<>>]
    BY <1>2
  <2> HIDE DEF result
  <2>2. /\ c \in 0 .. Len(tail) /\ Len(part) \in 1 .. 2
        /\ c = 4 - Len(part) \/ c = Len(tail)
    <3>1. Len(part) \in 0 .. 2 /\ Len(part) # 0 /\ Len(tail) \in Nat
      BY <1>2, StartsOpen
    <3> DEFINE l == Len(part)
               n == Len(tail)
    <3>2. l \in 1 .. 2 /\ n \in Nat
      BY <3>1
    <3> HIDE DEF l, n
    <3>3. \E x \in {4 - l, n} : \A y \in {4 - l, n} : x <= y
      BY <3>2
    <3>4. Min({4 - l, n}) \in {4 - l, n} /\ \A y \in {4 - l, n} : Min({4 - l, n}) <= y
      BY <3>3 DEF Min
    <3>5. Min({4 - l, n}) \in 0 .. n /\ (Min({4 - l, n}) = 4 - l \/ Min({4 - l, n}) = n)
      BY <3>2, <3>4
    <3> QED BY <3>2, <3>5 DEF l, n
  <2> HIDE DEF c
  <2>3. /\ buffer \in Seq(Text) /\ Len(buffer) = Len(part) + c
        /\ Valid(buffer) # <<>> =>
             j \in 0 .. Len(tail) /\ Valid(buffer) = part \o SubSeq(tail, 1, j)
        /\ Valid(buffer) = <<>> => Behind(buffer) = buffer
    BY <1>2, <2>2, BufferCut
  <2>4. head \in Seq(Text) /\ tail = head \o SubSeq(tail, c + 1, Len(tail))
        /\ SubSeq(tail, c + 1, Len(tail)) \in Seq(Text)
    BY <2>2, Cut
  <2> HIDE DEF head, j
  <2>5. whole \in Seq(Text) /\ Size(whole) = Size(data) + Size(part) + Size(tail)
    BY JoinThree
  <2>6. Size(data) \in Nat /\ Size(part) \in Nat /\ Size(tail) \in Nat
    BY SizeType
  <2>7. CASE Valid(buffer) # <<>>
    <3> DEFINE mid == SubSeq(tail, 1, j)
    <3>1. mid \in Seq(Text) /\ rest \in Seq(Text) /\ tail = mid \o rest
      BY <2>3, <2>7, Cut
    <3>2. Valid(buffer) = part \o mid /\ Valid(buffer) \in Seq(Text) /\ WellFormed(Valid(buffer))
      BY <2>3, <2>7, ValidIs
    <3> HIDE DEF mid, rest, buffer
    <3>3. data \o Valid(buffer) \in Seq(Text) /\ WellFormed(data \o Valid(buffer))
      BY <3>2, BehindWellFormed, Joins
    <3>4. (data \o Valid(buffer)) \o rest = whole
      <4>1. (data \o (part \o mid)) \o rest = (data \o part) \o (mid \o rest)
        <5>1. mid \in Seq(Text) /\ rest \in Seq(Text)
          BY <3>1
        <5> QED BY <1>3, <5>1, Zenon
      <4> QED BY <3>1, <3>2, <4>1
    <3>5. Taken(Push(data \o Valid(buffer), rest), (data \o Valid(buffer)) \o rest)
      BY <3>1, <3>3, PushTakes
    <3> QED BY <2>1, <2>7, <3>4, <3>5
  <2>8. CASE Valid(buffer) = <<>> /\ Begins(buffer)
    <3>1. Len(buffer) \in 0 .. 2 /\ ~Hopeless(buffer)
      BY <2>3, <2>8, StartsOpen
    <3>2. c = Len(tail)
      <4>1. c # 4 - Len(part)
        <5>1. \A l \in 1 .. 2, x \in Int : l + x \in 0 .. 2 => x # 4 - l
          OBVIOUS
        <5>2. c \in Int /\ Len(part) + c \in 0 .. 2
          BY <2>2, <2>3, <3>1
        <5> QED BY <2>2, <5>1, <5>2
      <4> QED BY <2>2, <4>1
    <3>3. head = tail
      BY <3>2 DEF head
    <3>4. data \o buffer = whole
      BY <3>3, Joins, SMTT(40)
    <3>5. Size(data) + Size(buffer) = Size(whole)
      BY <2>3, <3>4, SizeJoin
    <3>6. ~Hopeless(whole)
      BY <2>3, <3>1, <3>4, BehindWellFormed
    <3>7. Size(whole) \in Nat
      BY <2>5, SizeType
    <3> DEFINE e == [err |-> "Ok", data |-> data, part |-> buffer]
    <3>8. result = e
      BY <2>1, <2>8
    <3>9. e.err = "Ok" /\ e.data = data /\ e.part = buffer
      OBVIOUS
    <3> HIDE DEF e, whole, buffer
    <3>10. Taken(e, whole)
      BY <2>3, <2>8, <3>4, <3>5, <3>6, <3>7, <3>9 DEF Taken
    <3> QED BY <3>8, <3>10 DEF whole
  <2>9. CASE Valid(buffer) = <<>> /\ ~Begins(buffer)
    <3>1. Hopeless(buffer)
      BY <2>3, <2>9 DEF Hopeless
    <3> DEFINE back == SubSeq(tail, c + 1, Len(tail))
    <3>2. back \in Seq(Text) /\ tail = head \o back
      BY <2>4
    <3> HIDE DEF back
    <3>3. whole = (data \o buffer) \o back
      <4>1. (data \o (part \o head)) \o back = (data \o part) \o (head \o back)
        <5>1. head \in Seq(Text) /\ back \in Seq(Text)
          BY <2>4, <3>2
        <5> HIDE DEF whole, buffer, rest
        <5> QED BY <1>3, <5>1, Zenon
      <4> QED BY <3>2, <4>1
    <3>4. Hopeless(data \o buffer) /\ data \o buffer \in Seq(Text)
      BY <2>3, <3>1, BehindWellFormed, Joins
    <3>5. Hopeless(whole)
      BY <3>2, <3>3, <3>4, HopelessStays
    <3> DEFINE e == [err |-> "Utf8", data |-> data, part |-> <<>>]
    <3>6. result = e
      BY <2>1, <2>9
    <3>7. e.err = "Utf8" /\ e.data = data /\ e.part = <<>> /\ <<>> \in Seq(Text)
      OBVIOUS
    <3>8. Size(data) + Size(<<>>) <= Size(whole)
      BY <2>5, <2>6, SizeEmpty
    <3> HIDE DEF e, whole, buffer
    <3>9. Taken(e, whole)
      BY <3>5, <3>7, <3>8, EmptyBegins DEF Taken
    <3> QED BY <3>6, <3>9 DEF whole
  <2> QED BY <2>7, <2>8, <2>9
<1> QED BY <1>1, <1>2

(* What a message holds after a fragment, if it has room for it. *)
LEMMA ExtendedTakes ==
  ASSUME NEW data \in Seq(Text), WellFormed(data), NEW part \in Seq(Text), Begins(part),
         Size(data) + Size(part) <= MaxSize,
         NEW tail \in Seq(Text), NEW m, m.data = data, m.part = part
  PROVE  LET e == Extended(m, tail)
             whole == (data \o part) \o tail
         IN /\ e.err \in {"Ok", "Utf8", "Capacity"}
            /\ e.data \in Seq(Text) /\ e.part \in Seq(Text)
            /\ WellFormed(e.data) /\ Begins(e.part) /\ Size(e.data) + Size(e.part) <= MaxSize
            /\ e.err = "Ok" =>
                 e.data \o e.part = whole /\ ~Hopeless(whole) /\ Size(whole) <= MaxSize
            /\ e.err = "Utf8" => Hopeless(whole)
            /\ e.err = "Capacity" => Size(whole) > MaxSize
<1> DEFINE e == Extended(m, tail)
           whole == (data \o part) \o tail
<1>1. whole \in Seq(Text) /\ Size(whole) = Size(data) + Size(part) + Size(tail)
  BY JoinThree
<1>2. Size(whole) \in Nat /\ MaxSize \in Nat
  BY <1>1, SizeType, MessageTextAssumption
<1>3. TooLong(m, tail) <=> Size(whole) > MaxSize
  BY <1>1 DEF TooLong
<1>4. Taken(Extend(m, tail), whole)
  BY ExtendTakes
<1> HIDE DEF whole
<1>5. CASE TooLong(m, tail)
  <2> DEFINE f == [err |-> "Capacity", data |-> data, part |-> part]
  <2>1. e = f
    BY <1>5 DEF Extended
  <2>2. f.err = "Capacity" /\ f.data = data /\ f.part = part
    OBVIOUS
  <2> HIDE DEF e, f
  <2> QED BY <1>3, <1>5, <2>1, <2>2 DEF whole, e
<1>6. CASE ~TooLong(m, tail)
  <2>1. e = Extend(m, tail)
    BY <1>6 DEF Extended
  <2>2. Size(whole) <= MaxSize
    BY <1>2, <1>3, <1>6
  <2> HIDE DEF e
  <2>3. Taken(e, whole)
    BY <1>4, <2>1
  <2>4. /\ e.err \in {"Ok", "Utf8"} /\ e.data \in Seq(Text) /\ e.part \in Seq(Text)
        /\ WellFormed(e.data) /\ Begins(e.part)
        /\ Size(e.data) + Size(e.part) <= Size(whole)
        /\ e.err = "Ok" => e.data \o e.part = whole /\ ~Hopeless(whole)
        /\ e.err = "Utf8" => Hopeless(whole)
    BY <2>3 DEF Taken
  <2>5. Size(e.data) \in Nat /\ Size(e.part) \in Nat
    BY <2>4, SizeType
  <2>6. Size(e.data) + Size(e.part) <= MaxSize
    BY <1>2, <2>2, <2>4, <2>5
  <2> QED BY <2>2, <2>4, <2>6 DEF whole, e
<1> QED BY <1>5, <1>6

-----------------------------------------------------------------------------
(* The message in the making.                                              *)

LEMMA TextStart ==
  ASSUME TextInit
  PROVE  TextInv
<1>1. /\ incomplete = NoMessage /\ read = [err |-> "Ok", text |-> <<>>, done |-> FALSE]
      /\ said = <<>> /\ refused = "none"
  BY DEF TextInit
<1>2. <<>> \in Seq(Text) /\ <<>> \o <<>> = <<>> /\ MaxSize \in Nat /\ Size(<<>>) = 0
  BY SizeEmpty, MessageTextAssumption
<1>3. incomplete.open = FALSE /\ incomplete.data = <<>> /\ incomplete.part = <<>>
  BY <1>1 DEF NoMessage
<1>4. incomplete \in [open : BOOLEAN, data : Seq(Text), part : Seq(Text)]
  BY <1>1, <1>2 DEF NoMessage
<1>5. /\ read \in [err : {"Ok", "Protocol", "Capacity", "Utf8"}, text : Seq(Text), done : BOOLEAN]
      /\ read.done = FALSE /\ read.err = "Ok"
  BY <1>1, <1>2
<1>6. TextWhole
  BY <1>5 DEF TextWhole
<1>7. RefusedRightly
  BY <1>1, <1>2, <1>5, EmptyBegins DEF RefusedRightly
<1>8. Size(incomplete.data) + Size(incomplete.part) <= MaxSize
  BY <1>2, <1>3
<1> QED BY <1>1, <1>2, <1>3, <1>4, <1>5, <1>6, <1>7, <1>8, EmptyBegins DEF TextInv

LEMMA TextStays ==
  ASSUME TextInv, UNCHANGED textVars
  PROVE  TextInv'
<1>1. incomplete' = incomplete /\ read' = read /\ said' = said /\ refused' = refused
  BY DEF textVars
<1> QED BY <1>1 DEF TextInv, TextWhole, RefusedRightly

(* A frame that does not belong here *)
LEMMA MisplacedKeeps ==
  ASSUME TextInv, NEW op, NEW fin, NEW payload \in Seq(Text), ReceiveText(op, fin, payload),
         (op = "continue") # incomplete.open
  PROVE  TextInv'
<1>1. /\ read' = [err |-> "Protocol", text |-> <<>>, done |-> FALSE]
      /\ incomplete' = incomplete /\ said' = said /\ refused' = refused
  BY DEF ReceiveText, Answer
<1>2. /\ read' \in [err : {"Ok", "Protocol", "Capacity", "Utf8"}, text : Seq(Text), done : BOOLEAN]
      /\ read'.done = FALSE /\ read'.err = "Protocol"
  BY <1>1
<1>3. TextWhole'
  BY <1>2 DEF TextWhole
<1>4. RefusedRightly'
  <2>1. RefusedRightly
    BY DEF TextInv
  <2> QED BY <1>1, <1>2, <2>1 DEF RefusedRightly
<1> QED BY <1>1, <1>2, <1>3, <1>4 DEF TextInv

(* A fragment, of the message that has begun or of a new one *)
LEMMA FragmentKeeps ==
  ASSUME TextInv, NEW op, NEW fin, NEW payload \in Seq(Text), ReceiveText(op, fin, payload),
         (op = "continue") = incomplete.open
  PROVE  TextInv'
<1> DEFINE m == IF incomplete.open THEN incomplete ELSE NewMessage
           e == Extended(m, payload)
           whole == (m.data \o m.part) \o payload
           longer == [open |-> TRUE, data |-> e.data, part |-> e.part]
<1>1. /\ m.data \in Seq(Text) /\ WellFormed(m.data)
      /\ m.part \in Seq(Text) /\ Begins(m.part)
      /\ Size(m.data) + Size(m.part) <= MaxSize
  <2>1. CASE incomplete.open
    <3>1. m = incomplete
      BY <2>1
    <3> QED BY <3>1 DEF TextInv
  <2>2. CASE ~incomplete.open
    <3>1. m.data = <<>> /\ m.part = <<>>
      BY <2>2 DEF NewMessage
    <3>2. <<>> \in Seq(Text) /\ MaxSize \in Nat /\ Size(<<>>) = 0
      BY SizeEmpty, MessageTextAssumption
    <3> HIDE DEF m
    <3>3. Size(m.data) + Size(m.part) <= MaxSize
      BY <3>1, <3>2
    <3> QED BY <3>1, <3>2, <3>3, EmptyBegins
  <2> QED BY <2>1, <2>2
<1>2. /\ e.err \in {"Ok", "Utf8", "Capacity"}
      /\ e.data \in Seq(Text) /\ e.part \in Seq(Text)
      /\ WellFormed(e.data) /\ Begins(e.part) /\ Size(e.data) + Size(e.part) <= MaxSize
      /\ e.err = "Ok" =>
           e.data \o e.part = whole /\ ~Hopeless(whole) /\ Size(whole) <= MaxSize
      /\ e.err = "Utf8" => Hopeless(whole)
      /\ e.err = "Capacity" => Size(whole) > MaxSize
  <2> HIDE DEF m
  <2> QED BY <1>1, ExtendedTakes
<1>3. /\ IF incomplete.open /\ refused # "none"
         THEN refused' = "more" /\ said' = <<>>
         ELSE /\ refused' = IF e.err = "Ok" THEN "none" ELSE "first"
              /\ said' = IF incomplete.open THEN said \o payload ELSE payload
      /\ IF e.err # "Ok"
         THEN /\ read' = [err |-> e.err, text |-> <<>>, done |-> FALSE]
              /\ incomplete' = IF incomplete.open THEN longer ELSE NoMessage
         ELSE IF ~fin
         THEN /\ read' = [err |-> "Ok", text |-> <<>>, done |-> FALSE]
              /\ incomplete' = longer
         ELSE /\ incomplete' = NoMessage
              /\ IF e.part = <<>>
                 THEN read' = [err |-> "Ok", text |-> e.data, done |-> TRUE]
                 ELSE read' = [err |-> "Utf8", text |-> <<>>, done |-> FALSE]
  BY DEF ReceiveText, Answer
<1>4. ~(incomplete.open /\ refused # "none") =>
        (IF incomplete.open THEN said \o payload ELSE payload) = whole
  <2>1. ASSUME incomplete.open, refused = "none" PROVE said \o payload = whole
    <3>1. said = incomplete.data \o incomplete.part
      BY <2>1 DEF TextInv
    <3>2. m = incomplete
      BY <2>1
    <3> QED BY <3>1, <3>2
  <2>2. ASSUME ~incomplete.open PROVE payload = whole
    <3>1. m.data = <<>> /\ m.part = <<>>
      BY <2>2 DEF NewMessage
    <3>2. (<<>> \o <<>>) \o payload = payload
      OBVIOUS
    <3> HIDE DEF m
    <3> QED BY <3>1, <3>2
  <2> HIDE DEF m, whole
  <2> QED BY <2>1, <2>2
<1>5. whole \in Seq(Text)
  <2> HIDE DEF m
  <2> QED BY <1>1, JoinThree
<1> HIDE DEF m, e, whole
<1>6. \/ refused' = "more" /\ said' = <<>>
      \/ refused' = "none" /\ said' = whole /\ e.err = "Ok"
      \/ refused' = "first" /\ said' = whole /\ e.err # "Ok"
  BY <1>3, <1>4
<1>7. \/ /\ read' = [err |-> e.err, text |-> <<>>, done |-> FALSE] /\ e.err # "Ok"
         /\ incomplete' \in {longer, NoMessage}
      \/ /\ read' = [err |-> "Ok", text |-> <<>>, done |-> FALSE] /\ e.err = "Ok"
         /\ incomplete' = longer
      \/ /\ read' = [err |-> "Ok", text |-> e.data, done |-> TRUE] /\ e.err = "Ok"
         /\ incomplete' = NoMessage /\ e.part = <<>>
      \/ /\ read' = [err |-> "Utf8", text |-> <<>>, done |-> FALSE] /\ e.err = "Ok"
         /\ incomplete' = NoMessage /\ e.part # <<>>
  BY <1>3
<1> HIDE <1>3, <1>4
<1>8. /\ incomplete' \in [open : BOOLEAN, data : Seq(Text), part : Seq(Text)]
      /\ WellFormed(incomplete'.data) /\ Begins(incomplete'.part)
      /\ Size(incomplete'.data) + Size(incomplete'.part) <= MaxSize
      /\ ~incomplete'.open => incomplete' = NoMessage
      /\ incomplete'.open => incomplete'.data = e.data /\ incomplete'.part = e.part
  <2>1. CASE incomplete' = longer
    <3>1. incomplete'.open /\ incomplete'.data = e.data /\ incomplete'.part = e.part
      BY <2>1
    <3>2. incomplete' \in [open : BOOLEAN, data : Seq(Text), part : Seq(Text)]
      BY <1>2, <2>1
    <3> QED BY <1>2, <3>1, <3>2
  <2>2. CASE incomplete' = NoMessage
    <3>1. incomplete'.open = FALSE /\ incomplete'.data = <<>> /\ incomplete'.part = <<>>
      BY <2>2 DEF NoMessage
    <3>2. <<>> \in Seq(Text) /\ MaxSize \in Nat /\ Size(<<>>) = 0
      BY SizeEmpty, MessageTextAssumption
    <3>3. incomplete' \in [open : BOOLEAN, data : Seq(Text), part : Seq(Text)]
      BY <2>2, <3>2 DEF NoMessage
    <3>4. Size(incomplete'.data) + Size(incomplete'.part) <= MaxSize
      BY <3>1, <3>2
    <3> QED BY <2>2, <3>1, <3>3, <3>4, EmptyBegins
  <2> QED BY <1>7, <2>1, <2>2
<1>9. incomplete'.open /\ refused' = "none" => said' = incomplete'.data \o incomplete'.part
  BY <1>2, <1>6, <1>8
<1>10. /\ read' \in [err : {"Ok", "Protocol", "Capacity", "Utf8"}, text : Seq(Text), done : BOOLEAN]
       /\ read'.done => /\ read'.text = e.data /\ e.err = "Ok" /\ e.part = <<>>
       /\ read'.err \in {"Utf8", "Capacity"} =>
            \/ read'.err = e.err
            \/ read'.err = "Utf8" /\ e.err = "Ok" /\ e.part # <<>>
  <2>1. <<>> \in Seq(Text) /\ e.data \in Seq(Text) /\ e.err \in {"Ok", "Utf8", "Capacity"}
    BY <1>2
  <2>2. CASE read' = [err |-> e.err, text |-> <<>>, done |-> FALSE]
    BY <2>1, <2>2
  <2>3. CASE read' = [err |-> "Ok", text |-> <<>>, done |-> FALSE]
    BY <2>1, <2>3
  <2>4. CASE read' = [err |-> "Ok", text |-> e.data, done |-> TRUE] /\ e.err = "Ok" /\ e.part = <<>>
    BY <2>1, <2>4
  <2>5. CASE read' = [err |-> "Utf8", text |-> <<>>, done |-> FALSE] /\ e.err = "Ok" /\ e.part # <<>>
    BY <2>1, <2>5
  <2> QED BY <1>7, <2>2, <2>3, <2>4, <2>5
<1>11. TextWhole'
  <2>1. ASSUME read'.done
        PROVE  /\ WellFormed(read'.text) /\ Size(read'.text) <= MaxSize
               /\ refused' = "none" => read'.text = said'
    <3>1. read'.text = e.data /\ e.err = "Ok" /\ e.part = <<>>
      BY <1>10, <2>1
    <3>2. Size(e.data) \in Nat /\ Size(e.part) = 0 /\ MaxSize \in Nat
      BY <1>2, <3>1, SizeType, SizeEmpty, MessageTextAssumption
    <3>3. e.data \o <<>> = e.data
      BY <1>2
    <3>4. refused' = "none" => said' = e.data
      BY <1>2, <1>6, <3>1, <3>3
    <3>5. Size(e.data) <= MaxSize
      BY <1>2, <3>2
    <3> QED BY <1>2, <3>1, <3>4, <3>5
  <2> QED BY <2>1 DEF TextWhole
<1>12. RefusedRightly'
  <2>1. ASSUME refused' = "first"
        PROVE  /\ read'.err = "Utf8" => Hopeless(said')
               /\ read'.err = "Capacity" => Size(said') > MaxSize
    <3>1. said' = whole /\ e.err # "Ok"
      BY <1>6, <2>1
    <3> QED BY <1>2, <1>10, <3>1
  <2>2. ASSUME refused' = "none"
        PROVE  /\ ~Hopeless(said') /\ Size(said') <= MaxSize
               /\ read'.err = "Utf8" => ~WellFormed(said')
    <3>1. said' = whole /\ e.err = "Ok" /\ whole = e.data \o e.part
      BY <1>2, <1>6, <2>2
    <3>2. ASSUME read'.err = "Utf8" PROVE ~WellFormed(whole)
      <4>1. e.part # <<>>
        BY <1>10, <3>1, <3>2
      <4>2. ~WellFormed(e.part)
        BY <1>2, <4>1, StartsOpen
      <4>3. WellFormed(e.data \o e.part) <=> WellFormed(e.part)
        BY <1>2, BehindWellFormed
      <4> QED BY <3>1, <4>2, <4>3
    <3> QED BY <1>2, <3>1, <3>2
  <2> QED BY <2>1, <2>2 DEF RefusedRightly
<1>13. said' \in Seq(Text) /\ refused' \in {"none", "first", "more"}
  <2>1. <<>> \in Seq(Text)
    OBVIOUS
  <2> QED BY <1>5, <1>6, <2>1
<1> QED BY <1>8, <1>9, <1>10, <1>11, <1>12, <1>13 DEF TextInv

LEMMA TextNext ==
  ASSUME TextInv, FlightInv, [Next]_wireVars
  PROVE  TextInv'
<1>1. CASE GetText
  <2> DEFINE h == ParseHeader(flight.bytes).header
  <2>1. flight.kind = "text" /\ ReceiveText(h.opcode, h.is_final, flight.payload)
    BY <1>1, Zenon DEF GetText
  <2>2. flight.payload \in Seq(Text)
    <3>1. PICK op \in {"text", "continue"}, fin \in BOOLEAN, payload \in Payloads,
               mask \in {Mask, <<>>} :
            flight = [kind |-> "text", header |-> Header(op, fin, mask), payload |-> payload,
                      bytes |-> Format(Header(op, fin, mask), Size(payload))]
      BY <2>1 DEF FlightInv
    <3>2. flight.payload = payload
      BY <3>1
    <3> QED BY <3>2, WireAssumption
  <2> HIDE DEF h
  <2>3. incomplete.open \in BOOLEAN /\ (h.opcode = "continue") \in BOOLEAN
    BY DEF TextInv
  <2>4. CASE (h.opcode = "continue") # incomplete.open
    BY <2>1, <2>2, <2>4, MisplacedKeeps
  <2>5. CASE (h.opcode = "continue") = incomplete.open
    BY <2>1, <2>2, <2>5, FragmentKeeps
  <2> QED BY <2>4, <2>5
<1>2. CASE UNCHANGED textVars
  BY <1>2, TextStays
<1>3. SendText \/ PeerGetsText \/ SendClose \/ GetClose \/ GetReply \/ UNCHANGED wireVars =>
        UNCHANGED textVars
  <2>1. SendText \/ PeerGetsText \/ SendClose => UNCHANGED textVars
    BY DEF SendText, PeerGetsText, SendClose
  <2>2. GetClose \/ GetReply => UNCHANGED textVars
    BY DEF GetClose, GetReply
  <2>3. UNCHANGED wireVars => UNCHANGED textVars
    BY DEF wireVars
  <2> QED BY <2>1, <2>2, <2>3
<1> QED BY <1>1, <1>2, <1>3 DEF Next

(* The message in the making is characters and the beginning of one, and   *)
(* what was said of it as long as nothing was refused (message.rs:18-134). *)
THEOREM TextInvariance == Spec => []TextInv
<1>1. Init => FlightInv /\ TextInv
  BY FlightInit, TextStart DEF Init
<1>2. FlightInv /\ TextInv /\ [Next]_wireVars => (FlightInv /\ TextInv)'
  BY FlightNext, TextNext
<1> QED BY <1>1, <1>2, PTL DEF Spec

(* However a message is cut into fragments, within characters too, what is *)
(* handed over is its text, well-formed and not too long.                  *)
THEOREM TextsWhole == Spec => []TextWhole
<1>1. TextInv => TextWhole
  BY DEF TextInv
<1> QED BY <1>1, TextInvariance, PTL

(* A fragment is refused as soon as the text cannot become well-formed or  *)
(* is too long, and not before.                                            *)
THEOREM TextsRefused == Spec => []RefusedRightly
<1>1. TextInv => RefusedRightly
  BY DEF TextInv
<1> QED BY <1>1, TextInvariance, PTL
=============================================================================
