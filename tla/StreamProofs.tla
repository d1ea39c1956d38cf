---------------------------- MODULE StreamProofs ----------------------------
(* The handler is called with exactly the messages the clients sent: the   *)
(* stream invariant of NetworkServer and what follows from it.             *)
EXTENDS NetworkServerProofs, FramingProofs

-----------------------------------------------------------------------------
(* What is on the wire.                                                    *)

(* The type of what a client has sent.                                     *)
LEMMA SentTypes ==
  ASSUME StreamTypeOK, NEW c \in Conns
  PROVE  /\ wire[c] \in Seq(Byte) /\ Len(wire[c]) \in Nat
         /\ sent[c] \in Seq([msg : Messages, at : Nat]) /\ Len(sent[c]) \in Nat
         /\ \A i \in 1 .. Len(sent[c]) :
              /\ sent[c][i].msg \in Seq(Byte) /\ Fits(sent[c][i].msg)
              /\ Len(sent[c][i].msg) \in Nat /\ sent[c][i].at \in Nat
              /\ FrameEnd(c, i) \in Nat
<1>1. /\ wire[c] \in Seq(Byte) /\ Len(wire[c]) \in Nat
      /\ sent[c] \in Seq([msg : Messages, at : Nat]) /\ Len(sent[c]) \in Nat
  <2>1. wire[c] \in Seq(Byte) /\ sent[c] \in Seq([msg : Messages, at : Nat])
    BY DEF StreamTypeOK
  <2> QED
    BY <2>1, SeqElement
<1>2. ASSUME NEW i \in 1 .. Len(sent[c])
      PROVE  /\ sent[c][i].msg \in Seq(Byte) /\ Fits(sent[c][i].msg)
             /\ Len(sent[c][i].msg) \in Nat /\ sent[c][i].at \in Nat
             /\ FrameEnd(c, i) \in Nat
  <2>1. sent[c][i] \in [msg : Messages, at : Nat]
    BY <1>1, SeqElement
  <2>2. sent[c][i].msg \in Messages /\ sent[c][i].at \in Nat
    BY <2>1
  <2>3. sent[c][i].msg \in Seq(Byte) /\ Fits(sent[c][i].msg)
    BY <2>2, MessageAssumption
  <2>4. Len(sent[c][i].msg) \in Nat
    BY <2>3, SeqElement
  <2> QED
    BY <2>2, <2>3, <2>4 DEF FrameEnd, PrefixLen
<1> QED
  BY <1>1, <1>2

(* Between two messages the wire ends with the last frame.                 *)
LEMMA WireComplete ==
  ASSUME StreamInv, NEW c \in Conns, ~BodyDue(c)
  PROVE  /\ \A i \in 1 .. Len(sent[c]) : Len(wire[c]) >= FrameEnd(c, i)
         /\ Len(wire[c]) = IF sent[c] = <<>> THEN 0
                           ELSE FrameEnd(c, Len(sent[c]))
<1>1. StreamTypeOK /\ WireInv
  BY DEF StreamInv
<1>2. CASE sent[c] = <<>>
  BY <1>1, <1>2 DEF WireInv
<1>3. CASE sent[c] # <<>>
  <2>1. Len(sent[c]) \in 1 .. Len(sent[c])
    BY <1>1, <1>3, SentTypes
  <2>2. Len(wire[c]) \in {LastSent(c).at + PrefixLen, FrameEnd(c, Len(sent[c]))}
    BY <1>1, <2>1, SentTypes DEF WireInv, FrameInv, LastSent
  <2>3. Len(wire[c]) = FrameEnd(c, Len(sent[c]))
    <3>1. LastSent(c).at \in Nat
      BY <1>1, <2>1, SentTypes DEF LastSent
    <3>2. FrameEnd(c, Len(sent[c])) =
            LastSent(c).at + PrefixLen + Len(LastSent(c).msg)
      BY DEF FrameEnd, LastSent
    <3>3. LastSent(c).msg = <<>> =>
            FrameEnd(c, Len(sent[c])) = LastSent(c).at + PrefixLen
      BY <3>1, <3>2 DEF PrefixLen
    <3> QED
      BY <1>3, <2>2, <3>3 DEF BodyDue
  <2>4. ASSUME NEW i \in 1 .. Len(sent[c]), i # Len(sent[c])
        PROVE  Len(wire[c]) >= FrameEnd(c, i)
    <3>1. i < Len(sent[c])
      BY <1>1, <2>4, SentTypes
    <3> QED
      BY <1>1, <3>1 DEF WireInv, FrameInv
  <2> QED
    BY <1>1, <1>3, <2>1, <2>3, <2>4, SentTypes
<1> QED
  BY <1>2, <1>3

(* The bytes of a frame that is on the wire are bytes of the wire.         *)
LEMMA InFrame ==
  ASSUME NEW at \in Nat, NEW l \in Nat, NEW w \in Nat, at + PrefixLen + l <= w
  PROVE  /\ \A k \in 1 .. PrefixLen : at + k \in 1 .. w
         /\ \A k \in 1 .. l : at + PrefixLen + k \in 1 .. w
BY DEF PrefixLen

(* Every byte of a prefix is on the wire once the prefix is.               *)
LEMMA InPrefix ==
  ASSUME NEW at \in Nat, NEW w \in Nat, at + PrefixLen <= w
  PROVE  \A k \in 1 .. PrefixLen : at + k \in 1 .. w
BY DEF PrefixLen

(* The frames of a client that writes nothing stay where they are.         *)
LEMMA FramesStay ==
  ASSUME WireInv, NEW d \in Conns, wire'[d] = wire[d], sent'[d] = sent[d]
  PROVE  /\ sent'[d] = <<>> => wire'[d] = <<>>
         /\ \A i \in 1 .. Len(sent'[d]) : FrameInv(d, i)'
<1>1. ASSUME NEW i \in 1 .. Len(sent[d])
      PROVE  FrameInv(d, i)'
  <2>1. FrameInv(d, i)
    BY <1>1 DEF WireInv
  <2>2. /\ FrameEnd(d, i)' = FrameEnd(d, i)
        /\ FrameEnd(d, i - 1)' = FrameEnd(d, i - 1)
    BY DEF FrameEnd
  <2> QED
    BY <2>1, <2>2 DEF FrameInv
<1> QED
  BY <1>1 DEF WireInv

(* A step of a client only adds to what it wrote before.                   *)
StreamsGrow ==
  \A d \in Conns :
    /\ Len(wire'[d]) >= Len(wire[d])
    /\ \A k \in 1 .. Len(wire[d]) : wire'[d][k] = wire[d][k]
    /\ Len(sent'[d]) >= Len(sent[d])
    /\ \A i \in 1 .. Len(sent[d]) : sent'[d][i] = sent[d][i]

(* A new prefix makes a new frame behind the last one.                     *)
LEMMA WritePrefixWire ==
  ASSUME StreamInv, NEW c \in Conns, NEW m \in Messages, WritePrefix(c, m)
  PROVE  StreamTypeOK' /\ WireInv' /\ StreamsGrow
<1> DEFINE r == [msg |-> m, at |-> Len(wire[c])]
           p == LenPrefix(Len(m))
<1>0. PICK n : n = Len(sent[c])
  OBVIOUS
<1>1. StreamTypeOK /\ WireInv
  BY DEF StreamInv
<1>2. m \in Seq(Byte) /\ Len(m) \in Nat
  BY MessageAssumption, SeqElement
<1>3. p \in Seq(Byte) /\ Len(p) = PrefixLen
  BY <1>2, LenPrefixType
<1>4. /\ wire[c] \in Seq(Byte) /\ Len(wire[c]) \in Nat
      /\ sent[c] \in Seq([msg : Messages, at : Nat]) /\ n \in Nat
  BY <1>0, <1>1, SentTypes
<1>5. r \in [msg : Messages, at : Nat]
  BY <1>4
<1>6. /\ wire' = [wire EXCEPT ![c] = wire[c] \o p]
      /\ sent' = [sent EXCEPT ![c] = Append(sent[c], r)]
      /\ ~BodyDue(c) /\ UNCHANGED << pending, rd, handled, out >>
  BY DEF WritePrefix, listener, history
<1> HIDE DEF r, p
<1>7. /\ wire'[c] = wire[c] \o p /\ sent'[c] = Append(sent[c], r)
      /\ \A d \in Conns : d # c => wire'[d] = wire[d] /\ sent'[d] = sent[d]
  BY <1>1, <1>6 DEF StreamTypeOK
<1>8. /\ wire'[c] \in Seq(Byte) /\ Len(wire'[c]) = Len(wire[c]) + PrefixLen
      /\ \A k \in 1 .. Len(wire[c]) : wire'[c][k] = wire[c][k]
      /\ \A k \in 1 .. PrefixLen : wire'[c][Len(wire[c]) + k] = p[k]
  <2>1. PICK u : u = wire[c]
    OBVIOUS
  <2>2. u \in Seq(Byte) /\ p \in Seq(Byte)
    BY <1>3, <1>4, <2>1
  <2>3. /\ u \o p \in Seq(Byte) /\ Len(u \o p) = Len(u) + Len(p)
        /\ \A k \in 1 .. Len(u) : (u \o p)[k] = u[k]
        /\ \A k \in 1 .. Len(p) : (u \o p)[Len(u) + k] = p[k]
    BY <2>2, ConcatSeq
  <2>4. wire'[c] = u \o p
    BY <1>7, <2>1
  <2> QED
    BY <1>3, <2>1, <2>3, <2>4
<1>9. /\ sent'[c] \in Seq([msg : Messages, at : Nat]) /\ Len(sent'[c]) = n + 1
      /\ \A i \in 1 .. n : sent'[c][i] = sent[c][i]
      /\ sent'[c][n + 1] = r
  BY <1>0, <1>4, <1>5, <1>7, AppendSeq
<1>10. StreamTypeOK'
  <2>1. wire' \in [Conns -> Seq(Byte)]
    BY <1>1, <1>6, <1>7, <1>8 DEF StreamTypeOK
  <2>2. sent' \in [Conns -> Seq([msg : Messages, at : Nat])]
    BY <1>1, <1>6, <1>7, <1>9 DEF StreamTypeOK
  <2> QED
    BY <1>1, <1>6, <2>1, <2>2 DEF StreamTypeOK
<1>11. /\ \A i \in 1 .. n : Len(wire[c]) >= FrameEnd(c, i)
       /\ Len(wire[c]) = IF n = 0 THEN 0 ELSE FrameEnd(c, n)
  BY <1>0, <1>4, <1>6, WireComplete
<1>12. \A i \in 1 .. n : FrameEnd(c, i)' = FrameEnd(c, i)
  BY <1>9 DEF FrameEnd
<1>13. ASSUME NEW i \in 1 .. n
       PROVE  FrameInv(c, i)'
  <2>1. FrameInv(c, i) /\ FrameEnd(c, i) \in Nat /\ FrameEnd(c, i) <= Len(wire[c])
    BY <1>0, <1>1, <1>11, SentTypes DEF WireInv
  <2>2. /\ sent[c][i].at \in Nat /\ Len(sent[c][i].msg) \in Nat
        /\ FrameEnd(c, i) = sent[c][i].at + PrefixLen + Len(sent[c][i].msg)
    BY <1>0, <1>1, SentTypes DEF FrameEnd
  <2>8. /\ \A k \in 1 .. PrefixLen : sent[c][i].at + k \in 1 .. Len(wire[c])
        /\ \A k \in 1 .. Len(sent[c][i].msg) :
             sent[c][i].at + PrefixLen + k \in 1 .. Len(wire[c])
    <3>1. sent[c][i].at + PrefixLen + Len(sent[c][i].msg) <= Len(wire[c])
      BY <2>1, <2>2
    <3> QED
      BY <1>4, <2>2, <3>1, InFrame
  <2>3. i = 1 \/ i - 1 \in 1 .. n
    BY <1>4
  <2>4. i < Len(sent'[c]) /\ Len(wire'[c]) >= FrameEnd(c, i)'
    BY <1>4, <1>8, <1>9, <1>12, <2>1 DEF PrefixLen
  <2>5. sent'[c][i] = sent[c][i] /\ (i = 1 \/ FrameEnd(c, i - 1)' = FrameEnd(c, i - 1))
    BY <1>9, <1>12, <2>3
  <2>6. \A k \in 1 .. PrefixLen :
          wire'[c][sent[c][i].at + k] = LenPrefix(Len(sent[c][i].msg))[k]
    <3> TAKE k \in 1 .. PrefixLen
    <3>1. sent[c][i].at + k \in 1 .. Len(wire[c])
      BY <2>8
    <3>2. wire[c][sent[c][i].at + k] = LenPrefix(Len(sent[c][i].msg))[k]
      BY <2>1 DEF FrameInv
    <3> QED
      BY <1>8, <3>1, <3>2
  <2>7. \A k \in 1 .. Len(sent[c][i].msg) :
          wire'[c][sent[c][i].at + PrefixLen + k] = sent[c][i].msg[k]
    <3> TAKE k \in 1 .. Len(sent[c][i].msg)
    <3>1. sent[c][i].at + PrefixLen + k \in 1 .. Len(wire[c])
      BY <2>8
    <3>2. wire[c][sent[c][i].at + PrefixLen + k] = sent[c][i].msg[k]
      <4>1. sent[c][i].at + PrefixLen + k <= Len(wire[c])
        BY <1>4, <3>1
      <4> QED
        BY <2>1, <4>1 DEF FrameInv
    <3> QED
      BY <1>8, <3>1, <3>2
  <2> QED
    BY <2>1, <2>4, <2>5, <2>6, <2>7 DEF FrameInv
<1>14. FrameInv(c, n + 1)'
  <2>1. sent'[c][n + 1].msg = m /\ sent'[c][n + 1].at = Len(wire[c])
    BY <1>9 DEF r
  <2>2. Len(wire[c]) = IF n + 1 = 1 THEN 0 ELSE FrameEnd(c, n)'
    BY <1>4, <1>11, <1>12
  <2>3. (n + 1) - 1 = n
    BY <1>4
  <2>4. \A k \in 1 .. PrefixLen :
          wire'[c][Len(wire[c]) + k] = LenPrefix(Len(m))[k]
    BY <1>8 DEF p
  <2>5. \A k \in 1 .. Len(m) : ~(Len(wire[c]) + PrefixLen + k <= Len(wire'[c]))
    BY <1>2, <1>4, <1>8 DEF PrefixLen
  <2> QED
    BY <1>4, <1>8, <1>9, <2>1, <2>2, <2>3, <2>4, <2>5 DEF FrameInv
<1>15. \A i \in 1 .. Len(sent'[c]) : FrameInv(c, i)'
  BY <1>4, <1>9, <1>13, <1>14
<1>16. sent'[c] # <<>>
  BY <1>4, <1>9
<1>17. StreamsGrow
  <2>1. Len(wire'[c]) >= Len(wire[c])
    <3>1. PICK w \in Nat : w = Len(wire[c])
      BY <1>4
    <3> QED
      BY <1>8, <3>1 DEF PrefixLen
  <2>2. Len(sent'[c]) >= Len(sent[c])
    BY <1>0, <1>4, <1>9
  <2>3. ASSUME NEW d \in Conns, d # c
        PROVE  Len(wire'[d]) >= Len(wire[d]) /\ Len(sent'[d]) >= Len(sent[d])
    <3>1. Len(wire[d]) \in Nat /\ Len(sent[d]) \in Nat
      BY <1>1, SentTypes
    <3>2. wire'[d] = wire[d] /\ sent'[d] = sent[d]
      BY <1>7, <2>3
    <3> QED
      BY <3>1, <3>2
  <2> QED
    BY <1>0, <1>7, <1>8, <1>9, <2>1, <2>2, <2>3 DEF StreamsGrow
<1> QED
  BY <1>1, <1>7, <1>10, <1>15, <1>16, <1>17, FramesStay DEF WireInv

(* The body completes the last frame.                                      *)
LEMMA WriteBodyWire ==
  ASSUME StreamInv, NEW c \in Conns, WriteBody(c)
  PROVE  StreamTypeOK' /\ WireInv' /\ StreamsGrow
<1>0. PICK n : n = Len(sent[c])
  OBVIOUS
<1>1. StreamTypeOK /\ WireInv
  BY DEF StreamInv
<1>2. /\ wire' = [wire EXCEPT ![c] = wire[c] \o sent[c][n].msg]
      /\ BodyDue(c) /\ UNCHANGED << sent, pending, rd, handled, out >>
  BY <1>0 DEF WriteBody, LastSent, listener, history
<1>3. /\ wire[c] \in Seq(Byte) /\ Len(wire[c]) \in Nat
      /\ sent[c] \in Seq([msg : Messages, at : Nat]) /\ n \in Nat
  BY <1>0, <1>1, SentTypes
<1>4. n \in 1 .. n
  BY <1>0, <1>2, <1>3 DEF BodyDue
<1>5. \A i \in 1 .. n :
        /\ sent[c][i].msg \in Seq(Byte) /\ Len(sent[c][i].msg) \in Nat
        /\ sent[c][i].at \in Nat /\ FrameEnd(c, i) \in Nat
        /\ FrameEnd(c, i) = sent[c][i].at + PrefixLen + Len(sent[c][i].msg)
  BY <1>0, <1>1, SentTypes DEF FrameEnd
<1>6. Len(wire[c]) = sent[c][n].at + PrefixLen
  BY <1>0, <1>2 DEF BodyDue, LastSent
<1>7. /\ wire'[c] = wire[c] \o sent[c][n].msg
      /\ \A d \in Conns : d # c => wire'[d] = wire[d]
  BY <1>1, <1>2 DEF StreamTypeOK
<1>8. /\ wire'[c] \in Seq(Byte)
      /\ Len(wire'[c]) = Len(wire[c]) + Len(sent[c][n].msg)
      /\ \A k \in 1 .. Len(wire[c]) : wire'[c][k] = wire[c][k]
      /\ \A k \in 1 .. Len(sent[c][n].msg) :
           wire'[c][Len(wire[c]) + k] = sent[c][n].msg[k]
  <2>1. PICK m : m = sent[c][n].msg
    OBVIOUS
  <2>2. m \in Seq(Byte)
    BY <1>4, <1>5, <2>1
  <2>3. wire'[c] = wire[c] \o m
    BY <1>7, <2>1
  <2>4. /\ wire'[c] \in Seq(Byte) /\ Len(wire'[c]) = Len(wire[c]) + Len(m)
        /\ \A k \in 1 .. Len(wire[c]) : wire'[c][k] = wire[c][k]
        /\ \A k \in 1 .. Len(m) : wire'[c][Len(wire[c]) + k] = m[k]
    BY <1>3, <2>2, <2>3, ConcatSeq
  <2> QED
    BY <2>1, <2>4
<1>9. StreamTypeOK'
  <2>1. wire' \in [Conns -> Seq(Byte)]
    BY <1>1, <1>2, <1>7, <1>8 DEF StreamTypeOK
  <2> QED
    BY <1>1, <1>2, <2>1 DEF StreamTypeOK
<1>10. \A i \in Nat : FrameEnd(c, i)' = FrameEnd(c, i)
  BY <1>2 DEF FrameEnd
<1>11. Len(wire'[c]) \in Nat /\ Len(wire'[c]) >= Len(wire[c])
  <2>1. PICK l : l = Len(sent[c][n].msg)
    OBVIOUS
  <2>2. l \in Nat /\ Len(wire'[c]) = Len(wire[c]) + l
    BY <1>4, <1>5, <1>8, <2>1
  <2> QED
    BY <1>3, <2>2
<1>12. ASSUME NEW i \in 1 .. n, NEW k \in 1 .. PrefixLen
       PROVE  wire'[c][sent[c][i].at + k] = LenPrefix(Len(sent[c][i].msg))[k]
  <2>1. FrameInv(c, i)
    BY <1>0, <1>1 DEF WireInv
  <2>2. sent[c][i].at \in Nat /\ sent[c][i].at + PrefixLen <= Len(wire[c])
    <3>3. PICK at, l : at = sent[c][i].at /\ l = Len(sent[c][i].msg)
      OBVIOUS
    <3>4. /\ at \in Nat /\ l \in Nat
          /\ FrameEnd(c, i) = at + PrefixLen + l
      BY <1>5, <3>3
    <3>1. CASE i = n
      BY <1>3, <1>6, <3>1, <3>3, <3>4 DEF PrefixLen
    <3>2. CASE i < n
      <4>1. Len(wire[c]) >= FrameEnd(c, i)
        BY <1>0, <2>1, <3>2 DEF FrameInv
      <4>2. PICK w \in Nat : w = Len(wire[c])
        BY <1>3
      <4>3. w >= at + PrefixLen + l
        BY <3>4, <4>1, <4>2
      <4>4. at + PrefixLen <= w
        BY <3>4, <4>3 DEF PrefixLen
      <4> QED
        BY <3>3, <3>4, <4>2, <4>4
    <3> QED
      BY <1>3, <3>1, <3>2
  <2>3. sent[c][i].at + k \in 1 .. Len(wire[c])
    BY <1>3, <2>2, InPrefix
  <2>4. wire[c][sent[c][i].at + k] = LenPrefix(Len(sent[c][i].msg))[k]
    BY <2>1 DEF FrameInv
  <2> QED
    BY <1>8, <2>3, <2>4
<1>13. ASSUME NEW i \in 1 .. n, NEW k \in 1 .. Len(sent[c][i].msg)
       PROVE  wire'[c][sent[c][i].at + PrefixLen + k] = sent[c][i].msg[k]
  <2>1. CASE i = n
    BY <1>6, <1>8, <2>1
  <2>2. CASE i < n
    <3>1. FrameInv(c, i)
      BY <1>0, <1>1 DEF WireInv
    <3>2. Len(wire[c]) >= FrameEnd(c, i)
      BY <1>0, <2>2, <3>1 DEF FrameInv
    <3>3. sent[c][i].at + PrefixLen + k \in 1 .. Len(wire[c])
      BY <1>3, <1>5, <3>2, InFrame
    <3>4. wire[c][sent[c][i].at + PrefixLen + k] = sent[c][i].msg[k]
      BY <1>3, <1>5, <3>1, <3>3 DEF FrameInv
    <3> QED
      BY <1>8, <3>3, <3>4
  <2> QED
    BY <1>3, <2>1, <2>2
<1>14. ASSUME NEW i \in 1 .. n
       PROVE  FrameInv(c, i)'
  <2>1. FrameInv(c, i)
    BY <1>0, <1>1 DEF WireInv
  <2>2. /\ FrameEnd(c, i)' = FrameEnd(c, i)
        /\ FrameEnd(c, i - 1)' = FrameEnd(c, i - 1)
    BY <1>3, <1>10
  <2>3. i = n => Len(wire'[c]) = FrameEnd(c, i)
    BY <1>3, <1>5, <1>6, <1>8
  <2>4. i < n => Len(wire'[c]) >= FrameEnd(c, i)
    <3>1. i < n => Len(wire[c]) >= FrameEnd(c, i)
      BY <1>0, <2>1 DEF FrameInv
    <3> QED
      BY <1>3, <1>5, <1>11, <3>1
  <2>5. i < n \/ i = n
    BY <1>3
  <2>6. sent[c][i].at = IF i = 1 THEN 0 ELSE FrameEnd(c, i - 1)
    BY <2>1 DEF FrameInv
  <2>7. IF i < n THEN Len(wire'[c]) >= FrameEnd(c, i)
                 ELSE Len(wire'[c]) \in {sent[c][i].at + PrefixLen, FrameEnd(c, i)}
    BY <2>3, <2>4, <2>5
  <2>8. sent' = sent /\ Len(sent[c]) = n
    BY <1>0, <1>2
  <2> QED
    BY <1>12, <1>13, <2>2, <2>6, <2>7, <2>8 DEF FrameInv
<1> QED
  <2>1. sent'[c] # <<>> /\ \A i \in 1 .. Len(sent'[c]) : FrameInv(c, i)'
    BY <1>0, <1>2, <1>14 DEF BodyDue
  <2>2. \A d \in Conns : d # c => wire'[d] = wire[d] /\ sent'[d] = sent[d]
    BY <1>2, <1>7
  <2>3. ASSUME NEW d \in Conns
        PROVE  Len(wire'[d]) >= Len(wire[d]) /\ Len(sent[d]) >= Len(sent[d])
    <3>1. Len(wire[d]) \in Nat /\ Len(sent[d]) \in Nat
      BY <1>1, SentTypes
    <3>2. CASE d = c
      BY <1>11, <3>1, <3>2
    <3>3. CASE d # c
      BY <2>2, <3>1, <3>3
    <3> QED
      BY <3>2, <3>3
  <2>4. StreamsGrow
    BY <1>2, <1>8, <2>2, <2>3 DEF StreamsGrow
  <2> QED
    BY <1>1, <1>9, <2>1, <2>2, <2>4, FramesStay DEF WireInv

-----------------------------------------------------------------------------
(* What was handled and what is pending.                                   *)

(* The type of what was handled, and where the next message begins.        *)
LEMMA HandledTypes ==
  ASSUME StreamInv, NEW c \in Conns
  PROVE  /\ handled[c] \in Seq(Seq(Byte)) /\ Len(handled[c]) \in Nat
         /\ Len(handled[c]) <= Len(sent[c])
         /\ handled[c] # <<>> => Len(handled[c]) \in 1 .. Len(sent[c])
         /\ Consumed(c) \in Nat /\ rd[c] \in Nat /\ rd[c] <= Len(wire[c])
         /\ pending \in Seq(Byte) /\ Len(pending) \in Nat
<1>1. StreamTypeOK /\ FramesIntact /\ PendingInv
  BY DEF StreamInv
<1>2. /\ handled[c] \in Seq(Seq(Byte)) /\ pending \in Seq(Byte)
      /\ rd[c] \in Nat
  BY <1>1 DEF StreamTypeOK
<1>3. Len(handled[c]) \in Nat /\ Len(pending) \in Nat
  BY <1>2, SeqElement
<1>4. Len(handled[c]) <= Len(sent[c]) /\ Len(sent[c]) \in Nat
  BY <1>1, SentTypes DEF FramesIntact
<1>5. handled[c] # <<>> => Len(handled[c]) \in 1 .. Len(sent[c])
  BY <1>2, <1>3, <1>4
<1>6. Consumed(c) \in Nat
  BY <1>1, <1>5, SentTypes DEF Consumed
<1> QED
  BY <1>1, <1>2, <1>3, <1>4, <1>5, <1>6 DEF PendingInv

(* While the clients write, what was received and handled is not touched.  *)
LEMMA WriteStream ==
  ASSUME StreamInv, StreamTypeOK', WireInv', StreamsGrow,
         UNCHANGED << pending, rd, handled, conn, backlog, lpc, newClient >>
  PROVE  StreamInv'
<1>1. StreamTypeOK /\ FramesIntact /\ QueueInv /\ PendingInv
  BY DEF StreamInv
<1>2. ASSUME NEW c \in Conns
      PROVE  /\ Len(wire[c]) \in Nat /\ Len(wire'[c]) \in Nat
             /\ Len(sent[c]) \in Nat /\ Len(sent'[c]) \in Nat
             /\ Len(wire'[c]) >= Len(wire[c])
             /\ Len(sent'[c]) >= Len(sent[c])
  <2>1. wire[c] \in Seq(Byte) /\ wire'[c] \in Seq(Byte)
    BY <1>1 DEF StreamTypeOK
  <2>2. /\ sent[c] \in Seq([msg : Messages, at : Nat])
        /\ sent'[c] \in Seq([msg : Messages, at : Nat])
    BY <1>1 DEF StreamTypeOK
  <2> QED
    BY <2>1, <2>2, SeqElement DEF StreamsGrow
<1>3. ASSUME NEW c \in Conns
      PROVE  Consumed(c)' = Consumed(c)
  <2>1. CASE handled[c] = <<>>
    BY <2>1 DEF Consumed
  <2>2. CASE handled[c] # <<>>
    <3>1. PICK h : h = Len(handled[c])
      OBVIOUS
    <3>2. sent'[c][h] = sent[c][h]
      BY <2>2, <3>1, HandledTypes DEF StreamsGrow
    <3>3. FrameEnd(c, h)' = FrameEnd(c, h)
      BY <3>2 DEF FrameEnd
    <3>4. Consumed(c) = FrameEnd(c, h)
      BY <2>2, <3>1 DEF Consumed
    <3>5. Consumed(c)' = FrameEnd(c, h)'
      BY <2>2, <3>1 DEF Consumed
    <3> QED
      BY <3>3, <3>4, <3>5
  <2> QED
    BY <2>1, <2>2
<1>4. FramesIntact'
  <2> SUFFICES ASSUME NEW c \in Conns
               PROVE  /\ Len(handled[c]) <= Len(sent'[c])
                      /\ \A i \in 1 .. Len(handled[c]) :
                           handled[c][i] = sent'[c][i].msg
    BY DEF FramesIntact
  <2>1. Len(handled[c]) \in Nat /\ Len(handled[c]) <= Len(sent[c])
    BY HandledTypes
  <2>2. Len(handled[c]) <= Len(sent'[c])
    BY <1>2, <2>1
  <2>3. ASSUME NEW i \in 1 .. Len(handled[c])
        PROVE  handled[c][i] = sent'[c][i].msg
    <3>1. i \in 1 .. Len(sent[c])
      BY <1>2, <2>1
    <3>2. sent'[c][i] = sent[c][i]
      BY <3>1 DEF StreamsGrow
    <3> QED
      BY <1>1, <3>2 DEF FramesIntact
  <2> QED
    BY <2>2, <2>3
<1>5. QueueInv'
  BY <1>1 DEF QueueInv
<1>6. PendingInv'
  <2>1. ASSUME NEW c \in Conns
        PROVE  rd[c] <= Len(wire'[c])
    BY <1>2, HandledTypes
  <2>2. ASSUME lpc \in Serving, NEW k \in 1 .. Len(pending)
        PROVE  pending[k] = wire'[newClient][Consumed(newClient) + k]
    <3>1. newClient \in Conns /\ rd[newClient] = Consumed(newClient) + Len(pending)
      BY <1>1, <2>2 DEF PendingInv
    <3>2. PICK s, l, r, w : /\ s = Consumed(newClient) /\ l = Len(pending)
                            /\ r = rd[newClient] /\ w = Len(wire[newClient])
      OBVIOUS
    <3>3. /\ s \in Nat /\ l \in Nat /\ r \in Nat /\ w \in Nat
          /\ r <= w /\ r = s + l /\ k \in 1 .. l
      BY <1>2, <2>2, <3>1, <3>2, HandledTypes
    <3>4. s + k \in 1 .. w
      BY <3>3
    <3>5. wire'[newClient][s + k] = wire[newClient][s + k]
      BY <3>1, <3>2, <3>4 DEF StreamsGrow
    <3> QED
      BY <1>1, <2>2, <3>2, <3>5 DEF PendingInv
  <2>3. lpc \in Serving => newClient \in Conns
    BY <1>1 DEF PendingInv
  <2> QED
    BY <1>1, <1>3, <2>1, <2>2, <2>3 DEF PendingInv
<1> QED
  BY <1>4, <1>5, <1>6 DEF StreamInv

(* A step that receives and handles nothing, and moves the listener only   *)
(* where the stream invariant asks nothing new.                            *)
LEMMA QuietStream ==
  ASSUME StreamInv, StreamTypeOK', QueueInv',
         UNCHANGED << wire, sent, rd, handled, pending, newClient >>,
         lpc' \in Serving => lpc \in Serving \cup {"assign"},
         lpc' = "assign" => lpc = "assign",
         lpc' \in {"none", "while", "accept", "done"} =>
           lpc \in {"none", "while", "accept", "done"}
  PROVE  StreamInv'
<1>1. FramesIntact /\ WireInv /\ PendingInv
  BY DEF StreamInv
<1>2. FramesIntact'
  BY <1>1 DEF FramesIntact
<1>3. WireInv'
  <2>1. \A d \in Conns : wire'[d] = wire[d] /\ sent'[d] = sent[d]
    OBVIOUS
  <2> QED
    BY <1>1, <2>1, FramesStay DEF WireInv
<1>4. PendingInv'
  <2>1. \A c \in Conns : rd'[c] <= Len(wire'[c])
    BY <1>1 DEF PendingInv
  <2>2. lpc' \in {"none", "while", "accept", "assign", "done"} => pending' = <<>>
    BY <1>1 DEF PendingInv
  <2>3. lpc' = "assign" => /\ newClient' \in Conns
                           /\ rd'[newClient'] = 0 /\ handled'[newClient'] = <<>>
    BY <1>1 DEF PendingInv
  <2>4. Consumed(newClient)' = Consumed(newClient)
    BY DEF Consumed, FrameEnd
  <2>5. ASSUME lpc' \in Serving
        PROVE  /\ newClient \in Conns
               /\ rd[newClient] = Consumed(newClient) + Len(pending)
               /\ \A k \in 1 .. Len(pending) :
                    pending[k] = wire[newClient][Consumed(newClient) + k]
    <3>1. CASE lpc \in Serving
      BY <1>1, <3>1 DEF PendingInv
    <3>2. CASE lpc = "assign"
      <4>1. /\ newClient \in Conns /\ rd[newClient] = 0
            /\ handled[newClient] = <<>> /\ pending = <<>>
        BY <1>1, <3>2 DEF PendingInv
      <4>2. Consumed(newClient) = 0
        BY <4>1 DEF Consumed
      <4> QED
        BY <4>1, <4>2
    <3> QED
      BY <2>5, <3>1, <3>2
  <2> QED
    BY <2>1, <2>2, <2>3, <2>4, <2>5 DEF PendingInv
<1> QED
  BY <1>2, <1>3, <1>4 DEF StreamInv

(* Closing a socket that is not in the backlog leaves the backlog alone.   *)
LEMMA QueueStays ==
  ASSUME QueueInv, UNCHANGED << backlog, rd, handled >>,
         \A c \in Conns :
           conn'[c] # conn[c] => conn'[c] = "closed" /\ conn[c] # "queued",
         backlog \in Seq(Conns)
  PROVE  QueueInv'
<1>1. \A i \in 1 .. Len(backlog) : backlog[i] \in Conns
  BY SeqElement
<1>2. \A i \in 1 .. Len(backlog) : conn'[backlog[i]] = "queued"
  BY <1>1 DEF QueueInv
<1>3. \A c \in Conns :
        conn'[c] \in {"new", "queued"} => rd[c] = 0 /\ handled[c] = <<>>
  BY DEF QueueInv
<1> QED
  BY <1>2, <1>3 DEF QueueInv

(* Closing the newest client's socket does.                                *)
LEMMA CloseNewest ==
  ASSUME IInv, QueueInv, UNCHANGED << backlog, rd, handled >>,
         NEW s \in {NoSocket, newClient}, Close(s)
  PROVE  QueueInv'
<1>1. /\ backlog \in Seq(Conns)
      /\ conn \in [Conns -> {"new", "queued", "open", "closed"}]
      /\ newClient \in Conns => conn[newClient] \in {"open", "closed"}
  BY DEF IInv, ControlTypeOK, ListenerInv
<1>2. \A c \in Conns : conn'[c] = IF c = s THEN "closed" ELSE conn[c]
  BY <1>1, CloseEffect
<1>3. \A c \in Conns :
        conn'[c] # conn[c] => conn'[c] = "closed" /\ conn[c] # "queued"
  BY <1>1, <1>2, SocketAssumption
<1> QED
  BY <1>1, <1>3, QueueStays

-----------------------------------------------------------------------------
(* The steps.                                                              *)

(* Before anything is sent there is nothing to mix up.                     *)
LEMMA InitStream == Init => StreamInv
<1> SUFFICES ASSUME Init PROVE StreamInv
  OBVIOUS
<1>1. StreamTypeOK
  <2>1. pending \in Seq(Byte)
    BY DEF Init
  <2>2. wire \in [Conns -> Seq(Byte)] /\ rd \in [Conns -> Nat]
    BY DEF Init
  <2>3. sent \in [Conns -> Seq([msg : Messages, at : Nat])]
    BY DEF Init
  <2>4. handled \in [Conns -> Seq(Seq(Byte))]
    BY DEF Init
  <2>5. out \in [Conns -> Seq([part : Part, re : [from : Conns, n : Nat]])]
    BY DEF Init
  <2> QED
    BY <2>1, <2>2, <2>3, <2>4, <2>5 DEF StreamTypeOK
<1>2. FramesIntact
  BY DEF Init, FramesIntact
<1>3. WireInv
  BY DEF Init, WireInv
<1>4. QueueInv
  BY DEF Init, QueueInv
<1>5. PendingInv
  BY DEF Init, PendingInv, Serving
<1> QED
  BY <1>1, <1>2, <1>3, <1>4, <1>5 DEF StreamInv

(* accept takes the first client of the backlog, which has sent nothing    *)
(* that was received; pending was cleared.                                 *)
LEMMA AcceptStream ==
  ASSUME IInv, StreamInv, AcceptClient
  PROVE  StreamInv'
<1> DEFINE h == Head(backlog)
<1>1. /\ backlog \in Seq(Conns) /\ backlog # <<>>
      /\ conn \in [Conns -> {"new", "queued", "open", "closed"}]
  BY DEF IInv, ControlTypeOK, AcceptClient
<1>2. /\ Tail(backlog) \in Seq(Conns) /\ h \in Conns
      /\ Len(Tail(backlog)) = Len(backlog) - 1 /\ Len(backlog) \in Nat
      /\ \A i \in 1 .. Len(Tail(backlog)) : Tail(backlog)[i] = backlog[i + 1]
  BY <1>1, TailSeq, SeqElement
<1>3. h = backlog[1] /\ 1 \in 1 .. Len(backlog)
  BY <1>1
<1> HIDE DEF h
<1>4. /\ backlog' = Tail(backlog) /\ newClient' = h
      /\ conn' = [conn EXCEPT ![h] = "open"]
      /\ lpc = "accept" /\ lpc' = "assign"
      /\ UNCHANGED << wire, sent, rd, handled, out, pending >>
  BY DEF AcceptClient, h, peer
<1>5. StreamTypeOK /\ FramesIntact /\ WireInv /\ QueueInv /\ PendingInv
  BY DEF StreamInv
<1>6. conn[h] = "queued" /\ rd[h] = 0 /\ handled[h] = <<>>
  BY <1>2, <1>3, <1>5 DEF QueueInv
<1>7. \A i \in 1 .. Len(Tail(backlog)) :
        i + 1 \in 1 .. Len(backlog) /\ Tail(backlog)[i] # h
  BY <1>2, <1>3, <1>5 DEF QueueInv
<1>8. QueueInv'
  <2>1. ASSUME NEW i \in 1 .. Len(backlog'), NEW j \in 1 .. Len(backlog'),
               backlog'[i] = backlog'[j]
        PROVE  i = j
    <3>1. backlog[i + 1] = backlog[j + 1]
      BY <1>2, <1>4, <2>1
    <3>2. i + 1 \in 1 .. Len(backlog) /\ j + 1 \in 1 .. Len(backlog)
      BY <1>4, <1>7
    <3>3. i + 1 = j + 1
      BY <1>5, <3>1, <3>2 DEF QueueInv
    <3> QED
      BY <3>3
  <2>2. ASSUME NEW i \in 1 .. Len(backlog')
        PROVE  conn'[backlog'[i]] = "queued"
    <3>1. backlog'[i] = backlog[i + 1] /\ i + 1 \in 1 .. Len(backlog)
      BY <1>2, <1>4, <1>7
    <3>2. backlog[i + 1] # h
      BY <1>4, <1>7, <3>1
    <3>3. conn[backlog[i + 1]] = "queued" /\ backlog[i + 1] \in Conns
      BY <1>1, <1>5, <3>1, SeqElement DEF QueueInv
    <3> QED
      BY <1>1, <1>4, <3>1, <3>2, <3>3
  <2>3. \A c \in Conns :
          conn'[c] \in {"new", "queued"} => rd[c] = 0 /\ handled[c] = <<>>
    BY <1>1, <1>4, <1>5 DEF QueueInv
  <2> QED
    BY <1>4, <2>1, <2>2, <2>3 DEF QueueInv
<1>9. WireInv'
  <2>1. \A d \in Conns : wire'[d] = wire[d] /\ sent'[d] = sent[d]
    BY <1>4
  <2> QED
    BY <1>5, <2>1, FramesStay DEF WireInv
<1>10. PendingInv'
  BY <1>2, <1>4, <1>5, <1>6 DEF PendingInv, Serving
<1> QED
  BY <1>4, <1>5, <1>8, <1>9, <1>10 DEF StreamInv, StreamTypeOK, FramesIntact

(* recv puts the next bytes of the wire behind pending.                    *)
LEMMA RecvStream ==
  ASSUME IInv, StreamInv, NEW n \in 1 .. BufSize, RecvBytes(n)
  PROVE  StreamInv'
<1>1. PICK c : c = clientSocket
  OBVIOUS
<1>2. /\ c \in Conns /\ c = newClient /\ conn[c] = "open"
      /\ n <= Len(wire[c]) - rd[c]
      /\ pending' = pending \o SubSeq(wire[c], rd[c] + 1, rd[c] + n)
      /\ rd' = [rd EXCEPT ![c] = @ + n]
      /\ lpc = "recv" /\ lpc' = "parse"
      /\ UNCHANGED << newClient, conn, backlog, wire, sent, handled, out >>
  BY <1>1, SocketAssumption
     DEF RecvBytes, Usable, Unread, IInv, ListenerInv, sockets, peer, history
<1>3. StreamTypeOK /\ FramesIntact /\ WireInv /\ QueueInv /\ PendingInv
  BY DEF StreamInv
<1>4. PICK s, l, r, w : /\ s = Consumed(c) /\ l = Len(pending)
                        /\ r = rd[c] /\ w = Len(wire[c])
  OBVIOUS
<1>5. /\ s \in Nat /\ l \in Nat /\ r \in Nat /\ w \in Nat /\ n \in Nat
      /\ pending \in Seq(Byte) /\ wire[c] \in Seq(Byte)
  BY <1>2, <1>3, <1>4, HandledTypes, SentTypes, BoundAssumption
<1>6. r + n <= w /\ r = s + l
  BY <1>2, <1>3, <1>4, <1>5 DEF PendingInv, Serving
<1>7. PICK t : t = SubSeq(wire[c], r + 1, r + n)
  OBVIOUS
<1>8. /\ t \in Seq(Byte) /\ Len(t) = n
      /\ \A k \in 1 .. n : t[k] = wire[c][r + k]
  <2>1. PICK u : u = wire[c]
    OBVIOUS
  <2>2. u \in Seq(Byte) /\ r + n <= Len(u)
    BY <1>4, <1>5, <1>6, <2>1
  <2>3. t = SubSeq(u, r + 1, r + n)
    BY <1>7, <2>1
  <2>4. /\ SubSeq(u, r + 1, r + n) \in Seq(Byte)
        /\ Len(SubSeq(u, r + 1, r + n)) = n
        /\ \A k \in 1 .. n : SubSeq(u, r + 1, r + n)[k] = u[r + k]
    BY <1>5, <2>2, SliceSeq
  <2> QED
    BY <2>1, <2>3, <2>4
<1>9. pending' = pending \o t
  BY <1>2, <1>4, <1>7
<1>10. /\ pending' \in Seq(Byte) /\ Len(pending') = l + n
       /\ \A k \in 1 .. l : pending'[k] = pending[k]
       /\ \A k \in 1 .. n : pending'[l + k] = t[k]
  <2>1. /\ pending \o t \in Seq(Byte)
        /\ Len(pending \o t) = Len(pending) + Len(t)
        /\ \A k \in 1 .. Len(pending) : (pending \o t)[k] = pending[k]
        /\ \A k \in 1 .. Len(t) : (pending \o t)[Len(pending) + k] = t[k]
    <3>1. pending \in Seq(Byte) /\ t \in Seq(Byte)
      BY <1>5, <1>8
    <3> QED
      BY <3>1, ConcatSeq
  <2> QED
    BY <1>4, <1>8, <1>9, <2>1
<1>11. rd'[c] = r + n /\ rd' \in [Conns -> Nat]
       /\ \A d \in Conns : d # c => rd'[d] = rd[d]
  <2>1. rd \in [Conns -> Nat]
    BY <1>3 DEF StreamTypeOK
  <2>2. rd' = [rd EXCEPT ![c] = r + n]
    BY <1>2, <1>4
  <2>3. r + n \in Nat
    BY <1>5
  <2> QED
    BY <1>2, <2>1, <2>2, <2>3
<1>12. StreamTypeOK'
  BY <1>2, <1>3, <1>10, <1>11 DEF StreamTypeOK
<1>13. FramesIntact'
  BY <1>2, <1>3 DEF FramesIntact
<1>14. WireInv'
  <2>1. \A d \in Conns : wire'[d] = wire[d] /\ sent'[d] = sent[d]
    BY <1>2
  <2> QED
    BY <1>3, <2>1, FramesStay DEF WireInv
<1>15. QueueInv'
  BY <1>2, <1>3, <1>11 DEF QueueInv
<1>16. Consumed(c)' = s
  BY <1>2, <1>4 DEF Consumed, FrameEnd
<1>17. PendingInv'
  <2>1. \A d \in Conns : rd'[d] <= Len(wire'[d])
    BY <1>2, <1>3, <1>4, <1>6, <1>11 DEF PendingInv
  <2>2. r + n = s + (l + n)
    BY <1>5, <1>6
  <2>3. ASSUME NEW k \in 1 .. l + n
        PROVE  pending'[k] = wire[c][s + k]
    <3>1. CASE k <= l
      <4>1. k \in 1 .. l
        BY <1>5, <3>1
      <4>2. pending[k] = wire[c][s + k]
        BY <1>2, <1>3, <1>4, <4>1 DEF PendingInv, Serving
      <4> QED
        BY <1>10, <4>1, <4>2
    <3>2. CASE k > l
      <4>1. k - l \in 1 .. n /\ l + (k - l) = k /\ r + (k - l) = s + k
        BY <1>5, <1>6, <3>2
      <4> QED
        BY <1>8, <1>10, <4>1
    <3> QED
      BY <1>5, <3>1, <3>2
  <2> QED
    BY <1>2, <1>10, <1>11, <1>16, <2>1, <2>2, <2>3 DEF PendingInv, Serving
<1> QED
  BY <1>12, <1>13, <1>14, <1>15, <1>17 DEF StreamInv

(* Nothing is on the wire behind the last frame.                           *)
LEMMA WireEnds ==
  ASSUME StreamInv, NEW c \in Conns
  PROVE  Len(wire[c]) <= IF sent[c] = <<>> THEN 0
                         ELSE FrameEnd(c, Len(sent[c]))
<1>1. StreamTypeOK /\ WireInv
  BY DEF StreamInv
<1>2. CASE sent[c] = <<>>
  BY <1>1, <1>2 DEF WireInv
<1>3. CASE sent[c] # <<>>
  <2>1. PICK n : n = Len(sent[c])
    OBVIOUS
  <2>2. n \in 1 .. n /\ n \in 1 .. Len(sent[c])
    BY <1>1, <1>3, <2>1, SentTypes
  <2>3. PICK at, l : at = sent[c][n].at /\ l = Len(sent[c][n].msg)
    OBVIOUS
  <2>4. at \in Nat /\ l \in Nat /\ FrameEnd(c, n) = at + PrefixLen + l
    BY <1>1, <2>2, <2>3, SentTypes DEF FrameEnd
  <2>5. Len(wire[c]) \in {at + PrefixLen, FrameEnd(c, n)}
    BY <1>1, <2>1, <2>2, <2>3 DEF WireInv, FrameInv
  <2>6. at + PrefixLen <= at + PrefixLen + l
    BY <2>4 DEF PrefixLen
  <2>7. FrameEnd(c, n) <= FrameEnd(c, n)
    BY <2>4 DEF PrefixLen
  <2>8. Len(wire[c]) <= FrameEnd(c, n)
    BY <2>4, <2>5, <2>6, <2>7
  <2> QED
    BY <1>3, <2>1, <2>8
<1> QED
  BY <1>2, <1>3

(* If a whole prefix was received and not handled, then it is the prefix   *)
(* of the client's next message.                                           *)
LEMMA NextFrameSent ==
  ASSUME StreamInv, NEW c \in Conns,
         Len(wire[c]) >= Consumed(c) + PrefixLen
  PROVE  /\ Len(handled[c]) + 1 \in 1 .. Len(sent[c])
         /\ sent[c][Len(handled[c]) + 1].at = Consumed(c)
<1>1. StreamTypeOK /\ WireInv
  BY DEF StreamInv
<1>2. PICK h, n, s, w : /\ h = Len(handled[c]) /\ n = Len(sent[c])
                        /\ s = Consumed(c) /\ w = Len(wire[c])
  OBVIOUS
<1>3. /\ h \in Nat /\ n \in Nat /\ s \in Nat /\ w \in Nat
      /\ h <= n /\ w >= s + PrefixLen
  BY <1>1, <1>2, HandledTypes, SentTypes
<1>4. handled[c] \in Seq(Seq(Byte))
  BY HandledTypes
<1>5. h = 0 <=> handled[c] = <<>>
  BY <1>2, <1>4
<1>6. h # n
  <2>1. SUFFICES ASSUME h = n PROVE FALSE
    OBVIOUS
  <2>2. sent[c] \in Seq([msg : Messages, at : Nat])
    BY <1>1, SentTypes
  <2>3. n = 0 <=> sent[c] = <<>>
    BY <1>2, <2>2
  <2>4. s = IF sent[c] = <<>> THEN 0 ELSE FrameEnd(c, n)
    BY <1>2, <1>5, <2>1, <2>3 DEF Consumed
  <2>5. w <= s
    BY <1>2, <2>4, WireEnds
  <2> QED
    BY <1>3, <2>5 DEF PrefixLen
<1>7. h + 1 \in 1 .. n
  BY <1>3, <1>6
<1>8. FrameInv(c, h + 1)
  BY <1>1, <1>2, <1>7 DEF WireInv
<1>9. sent[c][h + 1].at = IF h + 1 = 1 THEN 0 ELSE FrameEnd(c, (h + 1) - 1)
  BY <1>8 DEF FrameInv
<1>10. (h + 1 = 1 <=> h = 0) /\ (h + 1) - 1 = h
  BY <1>3
<1>11. sent[c][h + 1].at = s
  BY <1>2, <1>5, <1>9, <1>10 DEF Consumed
<1> QED
  BY <1>2, <1>7, <1>11

(* The parse loop takes the client's next message, and all of it.          *)
LEMMA ParseStream ==
  ASSUME IInv, StreamInv, ParseMessage
  PROVE  StreamInv'
<1>1. PICK c : c = newClient
  OBVIOUS
<1>2. StreamTypeOK /\ FramesIntact /\ WireInv /\ QueueInv /\ PendingInv
  BY DEF StreamInv
<1>3. /\ lpc = "parse" /\ lpc' = "handle" /\ Complete(pending)
      /\ handled' = [handled EXCEPT ![c] = Append(@, FirstMsg(pending))]
      /\ pending' = AfterFirst(pending)
      /\ UNCHANGED << newClient, conn, backlog, wire, sent, rd, out >>
  BY <1>1 DEF ParseMessage, sockets, peer
<1>4. PICK h, s, l, w : /\ h = Len(handled[c]) /\ s = Consumed(c)
                        /\ l = Len(pending) /\ w = Len(wire[c])
  OBVIOUS
<1>5. /\ c \in Conns /\ rd[c] = s + l
      /\ \A k \in 1 .. l : pending[k] = wire[c][s + k]
  BY <1>1, <1>2, <1>3, <1>4 DEF PendingInv, Serving
<1>6. /\ h \in Nat /\ s \in Nat /\ l \in Nat /\ w \in Nat /\ s + l <= w
      /\ handled[c] \in Seq(Seq(Byte)) /\ pending \in Seq(Byte)
  BY <1>2, <1>4, <1>5, HandledTypes, SentTypes
<1>7. l >= PrefixLen
  BY <1>3, <1>4 DEF Complete
<1>8. w >= s + PrefixLen
  BY <1>6, <1>7 DEF PrefixLen
<1>9. h + 1 \in 1 .. Len(sent[c]) /\ sent[c][h + 1].at = s
  BY <1>4, <1>5, <1>8, NextFrameSent
<1>10. PICK m : m = sent[c][h + 1].msg
  OBVIOUS
<1>11. m \in Seq(Byte) /\ Len(m) \in Nat /\ Fits(m)
  BY <1>2, <1>5, <1>9, <1>10, SentTypes
<1>12. FrameInv(c, h + 1)
  BY <1>2, <1>5, <1>9 DEF WireInv
<1>13. /\ \A k \in 1 .. PrefixLen : wire[c][s + k] = LenPrefix(Len(m))[k]
       /\ \A k \in 1 .. Len(m) :
            s + PrefixLen + k <= w => wire[c][s + PrefixLen + k] = m[k]
  BY <1>4, <1>9, <1>10, <1>12 DEF FrameInv
<1>14. ASSUME NEW k \in 1 .. PrefixLen
       PROVE  pending[k] = LenPrefix(Len(m))[k]
  <2>1. k \in 1 .. l
    BY <1>6, <1>7 DEF PrefixLen
  <2> QED
    BY <1>5, <1>13, <2>1
<1>15. ASSUME NEW k \in 1 .. Len(m), PrefixLen + k <= l
       PROVE  pending[PrefixLen + k] = m[k]
  <2>1. PrefixLen + k \in 1 .. l /\ s + (PrefixLen + k) = s + PrefixLen + k
    BY <1>6, <1>11, <1>15 DEF PrefixLen
  <2>2. s + PrefixLen + k <= w
    BY <1>6, <1>15, <1>11 DEF PrefixLen
  <2> QED
    BY <1>5, <1>13, <2>1, <2>2
<1>16. /\ l >= PrefixLen + Len(m) /\ FirstMsg(pending) = m
       /\ pending' \in Seq(Byte) /\ Len(pending') = l - (PrefixLen + Len(m))
       /\ \A k \in 1 .. Len(pending') :
            pending'[k] = pending[PrefixLen + Len(m) + k]
  BY <1>3, <1>4, <1>6, <1>11, <1>14, <1>15, FrameTaken
<1>17. /\ handled'[c] = Append(handled[c], m)
       /\ \A d \in Conns : d # c => handled'[d] = handled[d]
  BY <1>2, <1>3, <1>5, <1>16 DEF StreamTypeOK
<1>18. /\ handled'[c] \in Seq(Seq(Byte)) /\ Len(handled'[c]) = h + 1
       /\ \A k \in 1 .. h : handled'[c][k] = handled[c][k]
       /\ handled'[c][h + 1] = m
  BY <1>4, <1>6, <1>11, <1>17, AppendSeq
<1>19. handled' \in [Conns -> Seq(Seq(Byte))]
  BY <1>2, <1>3, <1>17, <1>18 DEF StreamTypeOK
<1>20. StreamTypeOK'
  BY <1>2, <1>3, <1>16, <1>19 DEF StreamTypeOK
<1>21. FramesIntact'
  <2>1. ASSUME NEW d \in Conns, d # c
        PROVE  /\ Len(handled'[d]) <= Len(sent'[d])
               /\ \A i \in 1 .. Len(handled'[d]) :
                    handled'[d][i] = sent'[d][i].msg
    BY <1>2, <1>3, <1>17, <2>1 DEF FramesIntact
  <2>2. Len(handled'[c]) <= Len(sent'[c])
    BY <1>3, <1>9, <1>18
  <2>3. ASSUME NEW i \in 1 .. h + 1
        PROVE  handled'[c][i] = sent'[c][i].msg
    <3>1. CASE i = h + 1
      BY <1>3, <1>10, <1>18, <3>1
    <3>2. CASE i \in 1 .. h
      BY <1>2, <1>3, <1>4, <1>5, <1>18, <3>2 DEF FramesIntact
    <3> QED
      BY <1>6, <3>1, <3>2
  <2> QED
    BY <1>18, <2>1, <2>2, <2>3 DEF FramesIntact
<1>22. WireInv'
  <2>1. \A d \in Conns : wire'[d] = wire[d] /\ sent'[d] = sent[d]
    BY <1>3
  <2> QED
    BY <1>2, <2>1, FramesStay DEF WireInv
<1>23. QueueInv'
  <2>1. conn[c] \in {"open", "closed"}
    BY <1>1, <1>5 DEF IInv, ListenerInv
  <2> QED
    BY <1>2, <1>3, <1>17, <2>1 DEF QueueInv
<1>24. Consumed(c)' = s + (PrefixLen + Len(m))
  <2>1. handled'[c] # <<>>
    BY <1>6, <1>18
  <2>2. Consumed(c)' = FrameEnd(c, h + 1)
    BY <1>3, <1>18, <2>1 DEF Consumed, FrameEnd
  <2>3. FrameEnd(c, h + 1) = s + PrefixLen + Len(m)
    BY <1>9, <1>10 DEF FrameEnd
  <2> QED
    BY <1>6, <1>11, <2>2, <2>3 DEF PrefixLen
<1>25. PendingInv'
  <2>1. PICK f \in Nat : f = PrefixLen + Len(m)
    BY <1>11 DEF PrefixLen
  <2>2. /\ f <= l /\ Len(pending') = l - f /\ Consumed(c)' = s + f
        /\ \A k \in 1 .. l - f : pending'[k] = pending[f + k]
    BY <1>16, <1>24, <2>1
  <2>3. s + l = (s + f) + (l - f)
    BY <1>6, <2>2
  <2>4. ASSUME NEW k \in 1 .. l - f
        PROVE  pending'[k] = wire[c][(s + f) + k]
    <3>1. f + k \in 1 .. l /\ s + (f + k) = (s + f) + k
      BY <1>6, <2>2
    <3> QED
      BY <1>5, <2>2, <3>1
  <2>5. \A d \in Conns : rd'[d] <= Len(wire'[d])
    BY <1>2, <1>3 DEF PendingInv
  <2> QED
    BY <1>1, <1>3, <1>5, <2>2, <2>3, <2>4, <2>5 DEF PendingInv
<1> QED
  BY <1>20, <1>21, <1>22, <1>23, <1>25 DEF StreamInv

(* A send records the request it answers: the newest client's.             *)
LEMMA SendStream ==
  ASSUME IInv, StreamInv, SendPrefix \/ SendBody
  PROVE  StreamInv'
<1>1. StreamTypeOK /\ QueueInv /\ PendingInv
  BY DEF StreamInv
<1>2. /\ lpc \in {"sendPrefix", "sendBody"} /\ lpc' \in {"sendBody", "parse"}
      /\ UNCHANGED << newClient, pending, conn, backlog, wire, sent, rd, handled >>
  BY DEF SendPrefix, SendBody, SendPart, sockets, peer
<1>3. newClient \in Conns
  BY <1>1, <1>2 DEF PendingInv, Serving
<1>4. Request \in [from : Conns, n : Nat]
  BY <1>3, HandledTypes DEF Request
<1>5. ASSUME NEW part \in Part, NEW s \in Conns,
             out' = [out EXCEPT ![s] = Append(@, [part |-> part, re |-> Request])]
      PROVE  out' \in [Conns -> Seq([part : Part, re : [from : Conns, n : Nat]])]
  <2>1. out \in [Conns -> Seq([part : Part, re : [from : Conns, n : Nat]])]
    BY <1>1 DEF StreamTypeOK
  <2>2. PICK e : e = [part |-> part, re |-> Request]
    OBVIOUS
  <2>3. e \in [part : Part, re : [from : Conns, n : Nat]]
    BY <1>4, <2>2
  <2>4. Append(out[s], e) \in Seq([part : Part, re : [from : Conns, n : Nat]])
    BY <2>1, <2>3, AppendSeq
  <2> QED
    BY <1>5, <2>1, <2>2, <2>4
<1>6. out' \in [Conns -> Seq([part : Part, re : [from : Conns, n : Nat]])]
  <2>1. \/ out' = out
        \/ \E part \in Part, s \in Conns :
             out' = [out EXCEPT ![s] = Append(@, [part |-> part, re |-> Request])]
    BY DEF SendPrefix, SendBody, SendPart, Usable, Part
  <2>2. CASE out' = out
    BY <1>1, <2>2 DEF StreamTypeOK
  <2> QED
    BY <1>5, <2>1, <2>2
<1>7. StreamTypeOK'
  BY <1>1, <1>2, <1>6 DEF StreamTypeOK
<1>8. QueueInv'
  BY <1>1, <1>2 DEF QueueInv
<1> QED
  BY <1>2, <1>7, <1>8, QuietStream DEF Serving

(* The steps of the listener.                                              *)
LEMMA ListenerStream ==
  ASSUME IInv, StreamInv, ListenThread
  PROVE  StreamInv'
<1>1. StreamTypeOK /\ QueueInv /\ PendingInv
  BY DEF StreamInv
<1>2. UNCHANGED << wire, sent, rd, handled, pending, out >> => StreamTypeOK'
  BY <1>1 DEF StreamTypeOK
<1>3. UNCHANGED << conn, backlog, rd, handled >> => QueueInv'
  BY <1>1 DEF QueueInv
<1>4. ASSUME WhileRunning \/ InnerWhile \/ RecvEnds \/ ParseWaits \/ HandleMessage
      PROVE  StreamInv'
  <2>1. UNCHANGED << wire, sent, rd, handled, pending, out, newClient, conn,
                     backlog >>
    BY <1>4 DEF WhileRunning, InnerWhile, RecvEnds, ParseWaits, HandleMessage,
                sockets, peer, history
  <2>2. \/ lpc = "while" /\ lpc' \in {"accept", "done"}
        \/ /\ lpc \in {"inner", "recv", "parse", "handle"}
           /\ lpc' \in Serving
    BY <1>4 DEF WhileRunning, InnerWhile, RecvEnds, ParseWaits, HandleMessage,
                Serving
  <2> QED
    BY <1>2, <1>3, <2>1, <2>2, QuietStream DEF Serving
<1>5. CASE AcceptFails
  <2>1. /\ UNCHANGED << wire, sent, rd, handled, pending, out, newClient >>
        /\ lpc = "accept" /\ lpc' = "while"
    BY <1>5 DEF AcceptFails, OnAcceptFailure, peer, history
  <2>2. CASE UNCHANGED << conn, backlog >>
    BY <1>2, <1>3, <2>1, <2>2, QuietStream DEF Serving
  <2>3. CASE /\ backlog # <<>> /\ backlog' = Tail(backlog)
             /\ Close(Head(backlog))
    <3>1. /\ backlog \in Seq(Conns)
          /\ conn \in [Conns -> {"new", "queued", "open", "closed"}]
      BY DEF IInv, ControlTypeOK
    <3>2. /\ Tail(backlog) \in Seq(Conns)
          /\ Len(Tail(backlog)) = Len(backlog) - 1 /\ Len(backlog) \in Nat
          /\ \A i \in 1 .. Len(Tail(backlog)) :
               Tail(backlog)[i] = backlog[i + 1]
      BY <2>3, <3>1, TailSeq, SeqElement
    <3>3. Head(backlog) = backlog[1] /\ 1 \in 1 .. Len(backlog)
      BY <2>3, <3>1
    <3>4. \A c \in Conns :
            conn'[c] = IF c = backlog[1] THEN "closed" ELSE conn[c]
      BY <2>3, <3>1, <3>3, CloseEffect
    <3>5. \A i \in 1 .. Len(Tail(backlog)) : i + 1 \in 1 .. Len(backlog)
      BY <3>2
    <3>6. ASSUME NEW i \in 1 .. Len(backlog'), NEW j \in 1 .. Len(backlog'),
                 backlog'[i] = backlog'[j]
          PROVE  i = j
      <4>1. backlog[i + 1] = backlog[j + 1]
        BY <2>3, <3>2, <3>6
      <4>2. i + 1 \in 1 .. Len(backlog) /\ j + 1 \in 1 .. Len(backlog)
        BY <2>3, <3>5
      <4>3. i + 1 = j + 1
        BY <1>1, <4>1, <4>2 DEF QueueInv
      <4> QED
        BY <4>3
    <3>7. ASSUME NEW i \in 1 .. Len(backlog')
          PROVE  conn'[backlog'[i]] = "queued"
      <4>1. backlog'[i] = backlog[i + 1] /\ i + 1 \in 1 .. Len(backlog) /\ i + 1 # 1
        BY <2>3, <3>2, <3>5
      <4>2. backlog[i + 1] # backlog[1]
        BY <1>1, <3>3, <4>1 DEF QueueInv
      <4>3. conn[backlog[i + 1]] = "queued" /\ backlog[i + 1] \in Conns
        BY <1>1, <3>1, <4>1, SeqElement DEF QueueInv
      <4> QED
        BY <3>4, <4>1, <4>2, <4>3
    <3>8. \A c \in Conns :
            conn'[c] \in {"new", "queued"} => rd[c] = 0 /\ handled[c] = <<>>
      BY <1>1, <3>4 DEF QueueInv
    <3>9. QueueInv'
      BY <2>1, <3>6, <3>7, <3>8 DEF QueueInv
    <3> QED
      BY <1>2, <2>1, <3>9, QuietStream DEF Serving
  <2> QED
    BY <1>5, <2>2, <2>3 DEF AcceptFails, sockets
<1>6. CASE AssignClient \/ CloseClient
  <2>1. /\ UNCHANGED << wire, sent, rd, handled, pending, out, newClient,
                        backlog >>
        /\ Close(clientSocket)
        /\ \/ lpc = "assign" /\ lpc' = "inner"
           \/ lpc = "close" /\ lpc' = "reset"
    BY <1>6 DEF AssignClient, CloseClient, peer, history
  <2>2. clientSocket \in {NoSocket, newClient}
    BY DEF IInv, ListenerInv
  <2>3. QueueInv'
    BY <1>1, <2>1, <2>2, CloseNewest
  <2> QED
    BY <1>2, <2>1, <2>3, QuietStream DEF Serving
<1>7. CASE ForgetClient
  <2>1. /\ UNCHANGED << wire, sent, rd, handled, out, conn, backlog >>
        /\ pending' = <<>> /\ lpc' = "while"
    BY <1>7 DEF ForgetClient, ClearPending, sockets, peer, history
  <2>2. StreamTypeOK'
    <3>1. pending' \in Seq(Byte)
      BY <2>1
    <3> QED
      BY <1>1, <2>1, <3>1 DEF StreamTypeOK
  <2>3. FramesIntact'
    BY <2>1 DEF StreamInv, FramesIntact
  <2>4. WireInv'
    <3>1. \A d \in Conns : wire'[d] = wire[d] /\ sent'[d] = sent[d]
      BY <2>1
    <3> QED
      BY <3>1, FramesStay DEF StreamInv, WireInv
  <2>5. PendingInv'
    BY <1>1, <2>1 DEF PendingInv, Serving
  <2> QED
    BY <1>3, <2>1, <2>2, <2>3, <2>4, <2>5 DEF StreamInv
<1> QED
  BY <1>4, <1>5, <1>6, <1>7, AcceptStream, RecvStream, ParseStream, SendStream
     DEF ListenThread

(* The steps of main: Stop empties the backlog and closes the client.      *)
LEMMA MainStream ==
  ASSUME IInv, StreamInv, Main
  PROVE  StreamInv'
<1>1. StreamTypeOK /\ QueueInv /\ PendingInv
  BY DEF StreamInv
<1>2. UNCHANGED << wire, sent, rd, handled, pending, out >> => StreamTypeOK'
  BY <1>1 DEF StreamTypeOK
<1>3. UNCHANGED << conn, backlog, rd, handled >> => QueueInv'
  BY <1>1 DEF QueueInv
<1>4. CASE Start
  <2>1. /\ UNCHANGED << wire, sent, rd, handled, pending, out, newClient, conn,
                        backlog >>
        /\ lpc = "none" /\ lpc' = "while"
    BY <1>4 DEF Start, StartListens, sockets, peer, history, IInv, LifetimeInv
  <2> QED
    BY <1>2, <1>3, <2>1, QuietStream DEF Serving
<1>5. CASE StopServerSocket
  <2>1. /\ UNCHANGED << wire, sent, rd, handled, pending, out, newClient, lpc >>
        /\ backlog' = <<>>
        /\ conn' = [c \in Conns |->
                      IF conn[c] = "queued" THEN "closed" ELSE conn[c]]
    BY <1>5 DEF StopServerSocket, listener, peer, history
  <2>2. \A c \in Conns :
          conn'[c] \in {"new", "queued"} => rd[c] = 0 /\ handled[c] = <<>>
    BY <1>1, <2>1 DEF QueueInv
  <2>3. QueueInv'
    BY <2>1, <2>2 DEF QueueInv
  <2> QED
    BY <1>2, <2>1, <2>3, QuietStream
<1>6. CASE StopCloseClient
  <2>1. /\ UNCHANGED << wire, sent, rd, handled, pending, out, newClient, lpc,
                        backlog >>
        /\ Close(marg) /\ mpc = "closeClient"
    BY <1>6 DEF StopCloseClient, listener, peer, history
  <2>2. marg \in {NoSocket, newClient}
    BY <2>1 DEF IInv, StopInv
  <2>3. QueueInv'
    BY <1>1, <2>1, <2>2, CloseNewest
  <2> QED
    BY <1>2, <2>1, <2>3, QuietStream
<1>7. ASSUME \/ StartThreadFails \/ StartFails \/ Serve \/ StopRunning
             \/ StopCheckClient \/ StopLoadClient \/ StopResetClient
             \/ StopJoin \/ StopCleanup \/ ShutdownProtobuf
      PROVE  StreamInv'
  <2>1. UNCHANGED << wire, sent, rd, handled, pending, out, newClient, conn,
                     backlog, lpc >>
    BY <1>7 DEF StartThreadFails, StartListens, StartFails, Serve, StopRunning,
                StopCheckClient, StopLoadClient, StopResetClient, StopJoin,
                StopCleanup, ShutdownProtobuf, listener, sockets, peer, history
  <2> QED
    BY <1>2, <1>3, <2>1, QuietStream
<1> QED
  BY <1>4, <1>5, <1>6, <1>7 DEF Main, Stop

(* The steps of the clients and the network.                               *)
LEMMA EnvironmentStream ==
  ASSUME IInv, StreamInv, Clients \/ Interrupt
  PROVE  StreamInv'
<1>1. StreamTypeOK /\ QueueInv
  BY DEF StreamInv
<1>2. UNCHANGED << wire, sent, rd, handled, pending, out >> => StreamTypeOK'
  BY <1>1 DEF StreamTypeOK
<1>3. UNCHANGED << conn, backlog, rd, handled >> => QueueInv'
  BY <1>1 DEF QueueInv
<1>4. ASSUME NEW c \in Conns, Connect(c)
      PROVE  StreamInv'
  <2>1. /\ UNCHANGED << wire, sent, rd, handled, pending, out, newClient, lpc >>
        /\ conn[c] = "new" /\ conn' = [conn EXCEPT ![c] = "queued"]
        /\ backlog' = Append(backlog, c)
    BY <1>4 DEF Connect, listener, peer, history
  <2>2. /\ backlog \in Seq(Conns) /\ Len(backlog) \in Nat
        /\ \A i \in 1 .. Len(backlog) : backlog[i] \in Conns
        /\ conn \in [Conns -> {"new", "queued", "open", "closed"}]
    BY SeqElement DEF IInv, ControlTypeOK
  <2>3. /\ Len(backlog') = Len(backlog) + 1
        /\ \A k \in 1 .. Len(backlog) : backlog'[k] = backlog[k]
        /\ backlog'[Len(backlog) + 1] = c
    BY <2>1, <2>2, AppendSeq
  <2>4. \A i \in 1 .. Len(backlog) : backlog[i] # c /\ conn[backlog[i]] = "queued"
    BY <1>1, <2>1 DEF QueueInv
  <2>5. \A i \in 1 .. Len(backlog') :
          i \in 1 .. Len(backlog) \/ i = Len(backlog) + 1
    BY <2>2, <2>3
  <2>6. \A i, j \in 1 .. Len(backlog') : backlog'[i] = backlog'[j] => i = j
    BY <1>1, <2>3, <2>4, <2>5 DEF QueueInv
  <2>7. \A i \in 1 .. Len(backlog') : conn'[backlog'[i]] = "queued"
    BY <2>1, <2>2, <2>3, <2>4, <2>5
  <2>8. \A d \in Conns :
          conn'[d] \in {"new", "queued"} => rd[d] = 0 /\ handled[d] = <<>>
    BY <1>1, <2>1, <2>2 DEF QueueInv
  <2>9. QueueInv'
    BY <2>1, <2>6, <2>7, <2>8 DEF QueueInv
  <2> QED
    BY <1>2, <2>1, <2>9, QuietStream
<1>5. ASSUME NEW c \in Conns, NEW m \in Messages, WritePrefix(c, m)
      PROVE  StreamInv'
  <2>1. UNCHANGED << pending, rd, handled, conn, backlog, lpc, newClient >>
    BY <1>5 DEF WritePrefix, listener, sockets, history
  <2> QED
    BY <1>5, <2>1, WritePrefixWire, WriteStream
<1>6. ASSUME NEW c \in Conns, WriteBody(c)
      PROVE  StreamInv'
  <2>1. UNCHANGED << pending, rd, handled, conn, backlog, lpc, newClient >>
    BY <1>6 DEF WriteBody, listener, sockets, history
  <2> QED
    BY <1>6, <2>1, WriteBodyWire, WriteStream
<1>7. ASSUME \/ \E c \in Conns : Hangup(c) \/ Reset(c)
             \/ Interrupt
      PROVE  StreamInv'
  <2>1. UNCHANGED << wire, sent, rd, handled, pending, out, newClient, conn,
                     backlog, lpc >>
    BY <1>7 DEF Hangup, Reset, Interrupt, listener, sockets, peer, history
  <2> QED
    BY <1>2, <1>3, <2>1, QuietStream
<1> QED
  BY <1>4, <1>5, <1>6, <1>7 DEF Clients

-----------------------------------------------------------------------------
(* Every cut of every stream, in every interleaving with Stop, stays in    *)
(* the stream invariant.                                                   *)
THEOREM StreamSafe == Spec => []StreamInv
<1>1. IInv /\ StreamInv /\ [Next]_vars => StreamInv'
  <2> SUFFICES ASSUME IInv, StreamInv, [Next]_vars PROVE StreamInv'
    OBVIOUS
  <2>1. CASE UNCHANGED vars
    <3>1. UNCHANGED << wire, sent, rd, handled, pending, out, newClient, conn,
                       backlog, lpc >>
      BY <2>1 DEF vars, listener, sockets, peer, history
    <3>2. StreamTypeOK' /\ QueueInv'
      BY <3>1 DEF StreamInv, StreamTypeOK, QueueInv
    <3> QED
      BY <3>1, <3>2, QuietStream
  <2>2. CASE Exited
    BY <2>1, <2>2 DEF Exited
  <2> QED
    BY <2>1, <2>2, EnvironmentStream, ListenerStream, MainStream DEF Next
<1> QED
  BY InitStream, <1>1, ControlSafe, PTL DEF Spec

(* The handler gets exactly the messages the clients sent, in order,       *)
(* however recv cuts the streams and whoever was connected before.         *)
THEOREM FramesIntactSafe == Spec => []FramesIntact
<1>1. StreamInv => FramesIntact
  BY DEF StreamInv
<1> QED
  BY <1>1, StreamSafe, PTL

(* Every variable has its type in every reachable state.                   *)
THEOREM TypeCorrect == Spec => []TypeOK
<1>1. IInv /\ StreamInv => TypeOK
  BY DEF IInv, StreamInv, TypeOK
<1> QED
  BY <1>1, ControlSafe, StreamSafe, PTL

-----------------------------------------------------------------------------
(* What the listener may leave in pending when it goes back to recv.       *)

(* The listener only waits for bytes when it has no whole message left.    *)
Drained == lpc \in {"inner", "recv"} => ~Complete(pending)

(* A step that leads to recv leaves no whole message behind.               *)
LEMMA DrainedStep ==
  ASSUME StreamInv, Drained, [Next]_vars
  PROVE  Drained'
<1>1. ~Complete(<<>>)
  BY DEF Complete, PrefixLen
<1>2. CASE UNCHANGED << lpc, pending >>
  BY <1>2 DEF Drained
<1>3. CASE AssignClient
  BY <1>1, <1>3 DEF AssignClient, Drained, StreamInv, PendingInv
<1>4. CASE InnerWhile
  BY <1>4 DEF InnerWhile, Drained
<1>5. CASE ParseWaits
  BY <1>5 DEF ParseWaits, Drained
<1>6. CASE ListenThread /\ ~AssignClient /\ ~InnerWhile /\ ~ParseWaits
  <2>1. lpc' \notin {"inner", "recv"}
    BY <1>6 DEF ListenThread, WhileRunning, AcceptClient, AcceptFails,
           OnAcceptFailure, RecvBytes, RecvEnds, ParseMessage, HandleMessage,
           SendPrefix, SendBody, SendPart, CloseClient, ForgetClient
  <2> QED
    BY <2>1 DEF Drained
<1>7. CASE Main \/ Interrupt
  <2>1. UNCHANGED << lpc, pending >> \/ lpc' = "while"
    BY <1>7 DEF Main, Start, StartThreadFails, StartFails, StartListens, Serve,
           Stop, StopRunning, StopServerSocket, StopCheckClient,
           StopLoadClient, StopCloseClient, StopResetClient, StopJoin,
           StopCleanup, ShutdownProtobuf, Interrupt, listener
  <2> QED
    BY <1>2, <2>1 DEF Drained
<1>8. CASE Clients
  BY <1>2, <1>8 DEF Clients, Connect, WritePrefix, WriteBody, Hangup, Reset,
                    listener
<1>9. CASE UNCHANGED vars
  BY <1>2, <1>9 DEF vars, listener
<1> QED
  BY <1>3, <1>4, <1>5, <1>6, <1>7, <1>8, <1>9 DEF Next, Exited

(* Drained holds in every run of the server.                               *)
LEMMA DrainedSafe == Spec => []Drained
<1>1. Init => Drained
  BY DEF Init, Drained
<1> QED
  BY <1>1, DrainedStep, StreamSafe, PTL DEF Spec

(* When the frame of the next message has been received, the parse loop    *)
(* finds it in pending.                                                    *)
LEMMA ReceivedComplete ==
  ASSUME StreamInv, NEW c \in Conns, c = newClient, lpc \in Serving,
         NEW h \in Nat, h = Len(handled[c]), h + 1 \in 1 .. Len(sent[c]),
         rd[c] >= FrameEnd(c, h + 1)
  PROVE  Complete(pending)
<1>1. StreamTypeOK /\ WireInv /\ PendingInv
  BY DEF StreamInv
<1>2. FrameInv(c, h + 1)
  BY <1>1 DEF WireInv
<1>3. handled[c] \in Seq(Seq(Byte)) /\ Consumed(c) \in Nat /\ rd[c] \in Nat
      /\ pending \in Seq(Byte) /\ Len(pending) \in Nat
  BY <1>1, HandledTypes
<1>4. h = 0 <=> handled[c] = <<>>
  BY <1>3
<1>5. PICK m \in Seq(Byte), s \in Nat :
        m = sent[c][h + 1].msg /\ s = Consumed(c) /\ Fits(m)
  BY <1>1, <1>3, SentTypes
<1>6. sent[c][h + 1].at = s
  <2>1. sent[c][h + 1].at = IF h + 1 = 1 THEN 0 ELSE FrameEnd(c, (h + 1) - 1)
    BY <1>2 DEF FrameInv
  <2>2. (h + 1 = 1 <=> h = 0) /\ (h + 1) - 1 = h
    OBVIOUS
  <2> QED
    BY <1>4, <1>5, <2>1, <2>2 DEF Consumed
<1>7. FrameEnd(c, h + 1) = s + PrefixLen + Len(m) /\ Len(m) \in Nat
  BY <1>5, <1>6 DEF FrameEnd
<1>8. rd[c] = s + Len(pending)
      /\ \A k \in 1 .. Len(pending) : pending[k] = wire[c][s + k]
  BY <1>1, <1>5 DEF PendingInv
<1>9. Len(pending) >= PrefixLen + Len(m)
  BY <1>3, <1>7, <1>8 DEF PrefixLen
<1>10. \A k \in 1 .. PrefixLen : wire[c][s + k] = LenPrefix(Len(m))[k]
  BY <1>2, <1>5, <1>6 DEF FrameInv
<1>11. \A k \in 1 .. PrefixLen : k \in 1 .. Len(pending)
  BY <1>3, <1>7, <1>9 DEF PrefixLen
<1>12. \A k \in 1 .. PrefixLen : pending[k] = LenPrefix(Len(m))[k]
  BY <1>8, <1>10, <1>11
<1> QED
  BY <1>3, <1>5, <1>9, <1>12, FrameComplete

(* A message the listener has wholly received does not wait in pending     *)
(* while the listener waits in recv.                                       *)
THEOREM ReceivedIsHandledSafe == Spec => []ReceivedIsHandled
<1>1. IInv /\ StreamInv /\ Drained => ReceivedIsHandled
  <2> SUFFICES ASSUME IInv, StreamInv, Drained, NEW c \in Conns,
                      lpc = "recv", c = clientSocket,
                      NEW n, n = Len(handled[c]) + 1, n <= Len(sent[c]),
                      ~(rd[c] < FrameEnd(c, n))
               PROVE  FALSE
    BY DEF ReceivedIsHandled
  <2>1. c = newClient /\ lpc \in Serving
    BY SocketAssumption DEF IInv, ListenerInv, Serving
  <2>2. PICK h \in Nat : h = Len(handled[c])
    BY HandledTypes DEF StreamInv
  <2>3. n = h + 1 /\ n \in 1 .. Len(sent[c])
    <3>1. Len(sent[c]) \in Nat
      BY SentTypes DEF StreamInv
    <3> QED
      BY <2>2, <3>1
  <2>4. FrameEnd(c, n) \in Nat /\ rd[c] \in Nat
    BY <2>3, SentTypes, HandledTypes DEF StreamInv, FrameEnd, PrefixLen
  <2>5. Complete(pending)
    BY <2>1, <2>2, <2>3, <2>4, ReceivedComplete
  <2> QED
    BY <2>5 DEF Drained
<1> QED
  BY <1>1, ControlSafe, StreamSafe, DrainedSafe, PTL

(* Only recv takes the listener from recv to the end of its client, and on *)
(* a usable connection only once the last byte written was received.       *)
LEMMA HangupSeen ==
  ASSUME [Next]_vars, lpc = "recv", lpc' = "close", Usable(clientSocket)
  PROVE  Unread(clientSocket) = 0
<1>1. CASE RecvEnds
  BY <1>1 DEF RecvEnds
<1>2. CASE ListenThread /\ ~RecvEnds
  BY <1>2 DEF ListenThread, WhileRunning, AcceptClient, AcceptFails,
         AssignClient, InnerWhile, RecvBytes, ParseMessage, ParseWaits,
         HandleMessage, SendPrefix, SendBody, SendPart, CloseClient,
         ForgetClient
<1>3. CASE Main \/ Interrupt \/ Clients \/ UNCHANGED vars
  BY <1>3 DEF Main, Start, StartThreadFails, StartFails, StartListens, Serve,
         Stop, StopRunning, StopServerSocket, StopCheckClient, StopLoadClient,
         StopCloseClient, StopResetClient, StopJoin, StopCleanup,
         ShutdownProtobuf, Interrupt, Clients, Connect, WritePrefix, WriteBody,
         Hangup, Reset, vars, listener
<1> QED
  BY <1>1, <1>2, <1>3 DEF Next, Exited

(* A client that closes its end loses no message it wrote: all of them are *)
(* handled before the listener turns to the next client.                   *)
THEOREM HangupLosesNothingSafe == Spec => HangupLosesNothing
<1>1. IInv /\ StreamInv /\ ReceivedIsHandled /\ [Next]_vars =>
        [lpc = "recv" /\ lpc' = "close" /\ Usable(clientSocket) =>
           ~Written(clientSocket, Len(handled[clientSocket]) + 1)]_vars
  <2> SUFFICES ASSUME StreamInv, ReceivedIsHandled, [Next]_vars,
                      lpc = "recv", lpc' = "close", Usable(clientSocket),
                      NEW n, n = Len(handled[clientSocket]) + 1,
                      Written(clientSocket, n)
               PROVE  FALSE
    OBVIOUS
  <2>1. clientSocket \in Conns
    BY DEF Usable
  <2>2. n \in 1 .. Len(sent[clientSocket])
    <3>1. /\ Len(handled[clientSocket]) \in Nat
          /\ Len(sent[clientSocket]) \in Nat
      BY <2>1, HandledTypes, SentTypes DEF StreamInv
    <3> QED
      BY <3>1 DEF Written
  <2>3. rd[clientSocket] < FrameEnd(clientSocket, n)
    BY <2>1, <2>2 DEF ReceivedIsHandled
  <2>4. Len(wire[clientSocket]) >= FrameEnd(clientSocket, n)
    BY DEF Written
  <2>5. /\ rd[clientSocket] \in Nat /\ Len(wire[clientSocket]) \in Nat
        /\ FrameEnd(clientSocket, n) \in Nat
    BY <2>1, <2>2, HandledTypes, SentTypes DEF StreamInv
  <2>6. Len(wire[clientSocket]) - rd[clientSocket] = 0
    BY HangupSeen DEF Unread
  <2> QED
    BY <2>3, <2>4, <2>5, <2>6
<1> QED
  BY <1>1, ControlSafe, StreamSafe, ReceivedIsHandledSafe, PTL
     DEF Spec, HangupLosesNothing

-----------------------------------------------------------------------------
(* The way out of the listener while Stop joins.                           *)

(* A round of the parse loop takes at least a prefix out of pending,       *)
(* whatever the length in it says.                                         *)
LEMMA ParseShortens ==
  ASSUME NEW p \in Seq(Byte), Complete(p)
  PROVE  Len(AfterFirst(p)) \in Nat /\ Len(AfterFirst(p)) + PrefixLen <= Len(p)
<1>1. Len(p) \in Nat /\ Len(p) >= 4
  BY DEF Complete, PrefixLen
<1>2. p[1] \in Nat /\ p[2] \in Nat /\ p[3] \in Nat /\ p[4] \in Nat
  BY <1>1, BaseAssumption DEF Byte
<1>3. PICK x \in Nat : x = MsgLen(p)
  <2>1. \A a, b \in Nat : a + Base * b \in Nat
    BY BaseAssumption
  <2>2. PICK y \in Nat : y = p[3] + Base * p[4]
    BY <1>2, <2>1
  <2>3. PICK z \in Nat : z = p[2] + Base * y
    BY <1>2, <2>1
  <2>4. MsgLen(p) = p[1] + Base * z
    BY <2>2, <2>3 DEF MsgLen
  <2> QED
    BY <1>2, <2>1, <2>4
<1>4. AfterFirst(p) = SubSeq(p, 4 + x + 1, Len(p))
  BY <1>3 DEF AfterFirst, PrefixLen
<1>5. Len(AfterFirst(p)) = IF 4 + x + 1 <= Len(p) THEN Len(p) - (4 + x) ELSE 0
  BY <1>1, <1>4
<1> QED
  BY <1>1, <1>5 DEF PrefixLen

(* Once Stop joins, each step of the listener brings it nearer to the end  *)
(* of its thread and nobody else's step moves it.                          *)
LEMMA ListenerStepNearer ==
  ASSUME IInv, StreamInv, [Next]_vars, mpc = "join"
  PROVE  UNCHANGED listener \/ Remaining' < Remaining
<1>1. pending \in Seq(Byte) /\ Len(pending) \in Nat /\ lpc \in ListenerPc
  BY DEF IInv, ControlTypeOK, StreamInv, StreamTypeOK
<1>2. ~running /\ ~listening
  BY DEF IInv, StopInv, Stopping
<1>3. ASSUME Len(pending') = Len(pending), lpc' \in ListenerPc,
             WayOut[lpc'] < WayOut[lpc]
      PROVE  Remaining' < Remaining
  <2>1. WayOut[lpc'] \in Nat /\ WayOut[lpc] \in Nat
    BY <1>1, <1>3 DEF WayOut, ListenerPc
  <2> QED
    BY <1>1, <1>3, <2>1 DEF Remaining
<1>4. CASE WhileRunning
  BY <1>2, <1>3, <1>4 DEF WhileRunning, WayOut, ListenerPc
<1>5. CASE AcceptClient
  BY <1>2, <1>5 DEF AcceptClient
<1>6. CASE AcceptFails
  BY <1>3, <1>6 DEF AcceptFails, OnAcceptFailure, WayOut, ListenerPc
<1>7. CASE AssignClient
  BY <1>3, <1>7 DEF AssignClient, WayOut, ListenerPc
<1>8. CASE InnerWhile
  BY <1>2, <1>3, <1>8 DEF InnerWhile, WayOut, ListenerPc
<1>9. ASSUME NEW n \in 1 .. BufSize, RecvBytes(n)
      PROVE  FALSE
  BY <1>9 DEF RecvBytes, Usable, IInv, JoinInv, Serving, NothingOpen
<1>10. CASE RecvEnds
  BY <1>3, <1>10 DEF RecvEnds, WayOut, ListenerPc
<1>11. CASE ParseMessage
  <2>1. PICK k \in Nat, l \in Nat : /\ k = Len(pending') /\ l = Len(pending)
                                    /\ k + 4 <= l
    BY <1>1, <1>11, ParseShortens DEF ParseMessage, PrefixLen
  <2>2. lpc = "parse" /\ lpc' = "handle"
    BY <1>11 DEF ParseMessage
  <2>3. Remaining' = k + 8 /\ Remaining = l + 5
    BY <2>1, <2>2 DEF Remaining, WayOut
  <2> QED
    BY <2>1, <2>3
<1>12. CASE ParseWaits
  BY <1>3, <1>12 DEF ParseWaits, WayOut, ListenerPc
<1>13. CASE HandleMessage
  BY <1>3, <1>13 DEF HandleMessage, WayOut, ListenerPc
<1>14. CASE SendPrefix
  BY <1>3, <1>14 DEF SendPrefix, SendPart, WayOut, ListenerPc
<1>15. CASE SendBody
  BY <1>3, <1>15 DEF SendBody, SendPart, WayOut, ListenerPc
<1>16. CASE CloseClient
  BY <1>3, <1>16 DEF CloseClient, WayOut, ListenerPc
<1>17. CASE ForgetClient
  <2>1. Len(pending') = 0 /\ lpc = "reset" /\ lpc' = "while"
    BY <1>17 DEF ForgetClient, ClearPending
  <2>2. Remaining' = 1 /\ Remaining = Len(pending) + 2
    BY <2>1 DEF Remaining, WayOut
  <2> QED
    BY <1>1, <2>2
<1>18. CASE Main \/ Interrupt \/ Clients \/ UNCHANGED vars
  BY <1>18 DEF Main, Start, StartThreadFails, StartFails, StartListens, Serve,
         Stop, StopRunning, StopServerSocket, StopCheckClient, StopLoadClient,
         StopCloseClient, StopResetClient, StopJoin, StopCleanup,
         ShutdownProtobuf, Interrupt, Clients, Connect, WritePrefix, WriteBody,
         Hangup, Reset, vars, listener
<1> QED
  BY <1>4, <1>5, <1>6, <1>7, <1>8, <1>9, <1>10, <1>11, <1>12, <1>13, <1>14,
     <1>15, <1>16, <1>17, <1>18 DEF Next, Exited, ListenThread

(* While Stop joins, nothing can keep the listener from its end: it takes  *)
(* at most Remaining steps more.                                           *)
THEOREM ListenerNearerSafe == Spec => ListenerNearer
<1>1. IInv /\ StreamInv /\ [Next]_vars =>
        [mpc = "join" => UNCHANGED listener \/ Remaining' < Remaining]_vars
  BY ListenerStepNearer
<1> QED
  BY <1>1, ControlSafe, StreamSafe, PTL DEF Spec, ListenerNearer
=============================================================================
