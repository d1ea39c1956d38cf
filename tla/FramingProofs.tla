---------------------------- MODULE FramingProofs ----------------------------
(* What the framing returns, for every base and every sequence.            *)
EXTENDS Framing, TLAPS

-----------------------------------------------------------------------------
(* Concatenation keeps the first sequence and puts the second behind it.   *)
LEMMA ConcatSeq ==
  ASSUME NEW S, NEW s \in Seq(S), NEW t \in Seq(S)
  PROVE  /\ s \o t \in Seq(S) /\ Len(s \o t) = Len(s) + Len(t)
         /\ \A k \in 1 .. Len(s) : (s \o t)[k] = s[k]
         /\ \A k \in 1 .. Len(t) : (s \o t)[Len(s) + k] = t[k]
OBVIOUS

(* Append keeps a sequence and puts one element behind it.                 *)
LEMMA AppendSeq ==
  ASSUME NEW S, NEW s \in Seq(S), NEW e \in S
  PROVE  /\ Append(s, e) \in Seq(S) /\ Len(Append(s, e)) = Len(s) + 1
         /\ \A k \in 1 .. Len(s) : Append(s, e)[k] = s[k]
         /\ Append(s, e)[Len(s) + 1] = e
OBVIOUS

(* The elements of a sequence.                                             *)
LEMMA SeqElement ==
  ASSUME NEW S, NEW s \in Seq(S)
  PROVE  Len(s) \in Nat /\ \A i \in 1 .. Len(s) : s[i] \in S
OBVIOUS

(* A slice of n elements behind the first i.                               *)
LEMMA SliceSeq ==
  ASSUME NEW S, NEW s \in Seq(S), NEW i \in Nat, NEW n \in Nat,
         i + n <= Len(s)
  PROVE  /\ SubSeq(s, i + 1, i + n) \in Seq(S)
         /\ Len(SubSeq(s, i + 1, i + n)) = n
         /\ \A k \in 1 .. n : SubSeq(s, i + 1, i + n)[k] = s[i + k]
OBVIOUS

(* A sequence is its elements.                                             *)
LEMMA SameSeq ==
  ASSUME NEW S, NEW s \in Seq(S), NEW t \in Seq(S), Len(s) = Len(t),
         \A k \in 1 .. Len(t) : s[k] = t[k]
  PROVE  s = t
OBVIOUS

-----------------------------------------------------------------------------
(* The quotient of a length by the base is a length again.                 *)
LEMMA DivNat ==
  ASSUME NEW n \in Nat
  PROVE  n \div Base \in Nat
BY BaseAssumption

(* A remainder by the base is a byte.                                      *)
LEMMA ModByte ==
  ASSUME NEW n \in Nat
  PROVE  n % Base \in Byte
BY BaseAssumption DEF Byte

(* The prefix of any length is four bytes.                                 *)
LEMMA LenPrefixType ==
  ASSUME NEW n \in Nat
  PROVE  LenPrefix(n) \in Seq(Byte) /\ Len(LenPrefix(n)) = PrefixLen
<1>1. n \div Base \in Nat
  BY DivNat
<1>2. (n \div Base) \div Base \in Nat
  BY <1>1, DivNat
<1>3. ((n \div Base) \div Base) \div Base \in Nat
  BY <1>2, DivNat
<1>4. /\ n % Base \in Byte
      /\ (n \div Base) % Base \in Byte
      /\ ((n \div Base) \div Base) % Base \in Byte
      /\ (((n \div Base) \div Base) \div Base) % Base \in Byte
  BY <1>1, <1>2, <1>3, ModByte
<1> QED
  BY <1>4 DEF LenPrefix, PrefixLen

(* A number is its last digit and the number without it.                   *)
LEMMA DivMod ==
  ASSUME NEW n \in Nat
  PROVE  (n % Base) + Base * (n \div Base) = n
BY BaseAssumption

(* Without its last digit a number has one digit less.                     *)
LEMMA DivLess ==
  ASSUME NEW n \in Nat, NEW x \in Nat, n < Base * x
  PROVE  n \div Base < x
<1>1. n % Base \in Nat /\ n \div Base \in Nat
  BY BaseAssumption, DivNat
<1>2. Base * (n \div Base) <= n
  BY <1>1, DivMod, BaseAssumption
<1>3. SUFFICES ASSUME n \div Base >= x PROVE FALSE
  BY <1>1
<1>4. Base * (n \div Base) >= Base * x
  BY <1>1, <1>3, BaseAssumption
<1> QED
  BY <1>1, <1>2, <1>4, BaseAssumption

(* The server reads the length the client wrote, if a uint32_t holds it.   *)
THEOREM PrefixRoundTrip ==
  ASSUME NEW n \in Nat, n < Word
  PROVE  MsgLen(LenPrefix(n)) = n
<1> DEFINE n1 == n \div Base
           n2 == n1 \div Base
           n3 == n2 \div Base
<1>1. n1 \in Nat /\ n2 \in Nat /\ n3 \in Nat
  BY DivNat
<1>2. n1 < Base * (Base * Base)
  BY DivLess, BaseAssumption DEF Word
<1>3. n2 < Base * Base
  BY <1>1, <1>2, DivLess, BaseAssumption
<1>4. n3 < Base * 1
  BY <1>1, <1>3, DivLess, BaseAssumption
<1>5. n3 % Base = n3
  BY <1>1, <1>4, BaseAssumption
<1>6. (n2 % Base) + Base * n3 = n2
  BY <1>1, DivMod
<1>7. (n1 % Base) + Base * n2 = n1
  BY <1>1, DivMod
<1>8. (n % Base) + Base * n1 = n
  BY DivMod
<1>9. MsgLen(LenPrefix(n)) =
        (n % Base) + Base * ((n1 % Base) + Base * ((n2 % Base) + Base * (n3 % Base)))
  BY DEF MsgLen, LenPrefix
<1> QED
  BY <1>5, <1>6, <1>7, <1>8, <1>9

(* Below the modulus a sum is not wrapped.                                 *)
LEMMA ModSmall ==
  ASSUME NEW a \in Nat, NEW w \in Nat, a < w
  PROVE  a % w = a
OBVIOUS

(* The length the parse loop reads is that of the message whose frame the  *)
(* bytes received begin with, and the sum it tests is not wrapped.         *)
LEMMA PrefixRead ==
  ASSUME NEW p \in Seq(Byte), NEW m \in Seq(Byte), Fits(m),
         \A k \in 1 .. PrefixLen : p[k] = LenPrefix(Len(m))[k]
  PROVE  /\ MsgLen(p) = Len(m)
         /\ (PrefixLen + MsgLen(p)) % Word = PrefixLen + Len(m)
<1>1. Len(m) \in Nat /\ Word \in Nat
  BY BaseAssumption DEF Word
<1>2. MsgLen(p) = MsgLen(LenPrefix(Len(m)))
  BY DEF MsgLen, PrefixLen
<1>3. Len(m) < Word /\ PrefixLen + Len(m) < Word
  BY <1>1 DEF Fits, PrefixLen
<1>4. MsgLen(p) = Len(m)
  BY <1>1, <1>2, <1>3, PrefixRoundTrip
<1>5. (PrefixLen + Len(m)) % Word = PrefixLen + Len(m)
  <2>1. PICK x \in Nat : x = PrefixLen + Len(m)
    BY <1>1 DEF PrefixLen
  <2>2. x % Word = x
    BY <1>1, <1>3, <2>1, ModSmall
  <2> QED
    BY <2>1, <2>2
<1> QED
  BY <1>4, <1>5

(* When the whole frame has been received, the parse loop finds it so.     *)
LEMMA FrameComplete ==
  ASSUME NEW p \in Seq(Byte), NEW m \in Seq(Byte), Fits(m),
         Len(p) >= PrefixLen + Len(m),
         \A k \in 1 .. PrefixLen : p[k] = LenPrefix(Len(m))[k]
  PROVE  Complete(p)
<1>1. Len(m) \in Nat /\ Len(p) \in Nat
  OBVIOUS
<1>2. Len(p) >= PrefixLen
  BY <1>1 DEF PrefixLen
<1> QED
  BY <1>2, PrefixRead DEF Complete

(* From the modulus on a sum is wrapped once.                              *)
LEMMA ModOnce ==
  ASSUME NEW a \in Nat, NEW w \in Nat, w <= a, a < w + w
  PROVE  a % w = a - w
<1>1. a - w \in Nat /\ a - w < w /\ a = (a - w) + w
  OBVIOUS
<1> QED
  BY <1>1

(* Fits is exact: a body whose frame does not stay below Word is one whose *)
(* prefix alone the parse loop takes for a whole frame, because the sum it *)
(* tests is wrapped.  What is assumed of the messages cannot be weakened.  *)
THEOREM FitsIsExact ==
  ASSUME NEW m \in Seq(Byte), Len(m) < Word, ~Fits(m)
  PROVE  Complete(LenPrefix(Len(m)))
<1>0. PICK n \in Nat : n = Len(m) /\ n < Word /\ ~(4 + n < Word)
  BY DEF Fits, PrefixLen
<1>1. PICK w \in Nat : w = Word /\ PrefixLen < w
  <2>1. PICK b \in Nat : b = Base /\ b >= 2
    BY BaseAssumption
  <2>2. PICK x \in Nat : x = b * b /\ x >= 4
    BY <2>1
  <2>3. PICK y \in Nat : y = b * x /\ y >= 8
    BY <2>1, <2>2
  <2>4. b * y \in Nat /\ b * y >= 16
    BY <2>1, <2>3
  <2> QED
    BY <2>1, <2>2, <2>3, <2>4 DEF Word, PrefixLen
<1>2. MsgLen(LenPrefix(n)) = n /\ Len(LenPrefix(n)) = 4
  BY <1>0, PrefixRoundTrip, LenPrefixType DEF PrefixLen
<1>3. PICK a \in Nat : a = 4 + n
  OBVIOUS
<1>4. a % w = a - w
  BY <1>0, <1>1, <1>3, ModOnce DEF PrefixLen
<1>5. a - w <= 4
  BY <1>0, <1>1, <1>3
<1> QED
  BY <1>0, <1>1, <1>2, <1>3, <1>4, <1>5 DEF Complete, PrefixLen

(* If the bytes received begin with the frame of m, as far as they go, and *)
(* the parse loop finds them complete, then it takes m and only m.         *)
THEOREM FrameTaken ==
  ASSUME NEW p \in Seq(Byte), NEW m \in Seq(Byte), Fits(m), Complete(p),
         \A k \in 1 .. PrefixLen : p[k] = LenPrefix(Len(m))[k],
         \A k \in 1 .. Len(m) :
           PrefixLen + k <= Len(p) => p[PrefixLen + k] = m[k]
  PROVE  /\ Len(p) >= PrefixLen + Len(m)
         /\ FirstMsg(p) = m
         /\ AfterFirst(p) \in Seq(Byte)
         /\ Len(AfterFirst(p)) = Len(p) - (PrefixLen + Len(m))
         /\ \A k \in 1 .. Len(AfterFirst(p)) :
              AfterFirst(p)[k] = p[PrefixLen + Len(m) + k]
<1>1. Len(m) \in Nat /\ Len(p) \in Nat /\ Len(p) >= PrefixLen
  BY DEF Complete
<1>4. MsgLen(p) = Len(m)
  BY PrefixRead
<1>6. (PrefixLen + MsgLen(p)) % Word = PrefixLen + Len(m)
  BY PrefixRead
<1>7. Len(p) >= PrefixLen + Len(m)
  BY <1>6 DEF Complete
<1>8. FirstMsg(p) = m
  <2>1. FirstMsg(p) = SubSeq(p, PrefixLen + 1, PrefixLen + Len(m))
    BY <1>4 DEF FirstMsg
  <2>2. /\ FirstMsg(p) \in Seq(Byte)
        /\ Len(FirstMsg(p)) = Len(m)
        /\ \A k \in 1 .. Len(m) : FirstMsg(p)[k] = p[PrefixLen + k]
    BY <2>1, <1>1, <1>7, SliceSeq DEF PrefixLen
  <2>3. \A k \in 1 .. Len(m) : PrefixLen + k <= Len(p)
    BY <1>1, <1>7 DEF PrefixLen
  <2>4. \A k \in 1 .. Len(m) : FirstMsg(p)[k] = m[k]
    BY <2>2, <2>3
  <2> QED
    BY <2>2, <2>4, SameSeq
<1>9. AfterFirst(p) = SubSeq(p, PrefixLen + Len(m) + 1, Len(p))
  BY <1>4 DEF AfterFirst
<1>10. /\ AfterFirst(p) \in Seq(Byte)
       /\ Len(AfterFirst(p)) = Len(p) - (PrefixLen + Len(m))
       /\ \A k \in 1 .. Len(AfterFirst(p)) :
            AfterFirst(p)[k] = p[PrefixLen + Len(m) + k]
  BY <1>9, <1>1, <1>7 DEF PrefixLen
<1> QED
  BY <1>7, <1>8, <1>10
=============================================================================
