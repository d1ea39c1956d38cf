---------------------------- MODULE RepliesProofs ----------------------------
(* Each client gets the replies to its own messages, in order and in whole *)
(* frames: the reply invariant of NetworkServer and what follows from it.  *)
EXTENDS StreamProofs, FiniteSetTheorems

-----------------------------------------------------------------------------
(* Counting the messages that can be parsed.                               *)

(* No message has none that can be parsed, one more adds at most one.      *)
LEMMA CountStep ==
  ASSUME NEW c \in Conns, NEW n \in Nat
  PROVE  /\ Answerable(c, n) \in Nat
         /\ Answerable(c, 0) = 0
         /\ handled[c][n + 1] \in Unparsable =>
              Answerable(c, n + 1) = Answerable(c, n)
         /\ handled[c][n + 1] \notin Unparsable =>
              Answerable(c, n + 1) = Answerable(c, n) + 1
<1> DEFINE P(k) == { j \in 1 .. k : handled[c][j] \notin Unparsable }
<1>1. IsFiniteSet(P(n))
  <2>1. IsFiniteSet(1 .. n)
    BY FS_Interval
  <2>2. P(n) \in SUBSET (1 .. n)
    OBVIOUS
  <2> QED
    BY <2>1, <2>2, FS_Subset
<1>2. P(0) = {}
  OBVIOUS
<1>3. handled[c][n + 1] \in Unparsable => P(n + 1) = P(n)
  OBVIOUS
<1>4. handled[c][n + 1] \notin Unparsable => P(n + 1) = P(n) \cup {n + 1}
  OBVIOUS
<1>5. n + 1 \notin P(n)
  OBVIOUS
<1>6. \A k : Answerable(c, k) = Cardinality(P(k))
  BY DEF Answerable
<1> HIDE DEF P
<1>7. Cardinality(P(n)) \in Nat
  BY <1>1, FS_CardinalityType
<1>8. Cardinality(P(n) \cup {n + 1}) = Cardinality(P(n)) + 1
  BY <1>1, <1>5, FS_AddElement
<1>9. Cardinality(P(0)) = 0
  BY <1>2, FS_EmptySet
<1> QED
  BY <1>3, <1>4, <1>6, <1>7, <1>8, <1>9

(* What was handled before does not count differently after.               *)
LEMMA CountStays ==
  ASSUME NEW c \in Conns, NEW n \in Nat,
         \A j \in 1 .. n : handled'[c][j] = handled[c][j]
  PROVE  Answerable(c, n)' = Answerable(c, n)
<1>1. { j \in 1 .. n : handled'[c][j] \notin Unparsable }
        = { j \in 1 .. n : handled[c][j] \notin Unparsable }
  OBVIOUS
<1> QED
  BY <1>1 DEF Answerable

(* The type of what was sent to a client.                                  *)
LEMMA OutTypes ==
  ASSUME StreamTypeOK, NEW c \in Conns
  PROVE  /\ out[c] \in Seq([part : Part, re : [from : Conns, n : Nat]])
         /\ Len(out[c]) \in Nat
         /\ handled[c] \in Seq(Seq(Byte)) /\ Len(handled[c]) \in Nat
<1>1. /\ out[c] \in Seq([part : Part, re : [from : Conns, n : Nat]])
      /\ handled[c] \in Seq(Seq(Byte))
  BY DEF StreamTypeOK
<1> QED
  BY <1>1, SeqElement

-----------------------------------------------------------------------------
(* RepliesInv step by step.                                                *)

(* Part i of what c was sent belongs there, and answers c's message n.     *)
Belongs(c, i, n) ==
  /\ out[c][i].part = IF i % 2 = 1 THEN "prefix" ELSE "body"
  /\ i % 2 = 0 => out[c][i].re = out[c][i - 1].re
  /\ out[c][i].re.from = c
  /\ n \in 1 .. Len(handled[c]) /\ handled[c][n] \notin Unparsable
  /\ Answerable(c, n) = (i + 1) \div 2

(* What it says of the replies that are out.                               *)
SentInv ==
  \A c \in Conns, i \in Nat, n \in Nat :
    i \in 1 .. Len(out[c]) /\ out[c][i].re.n = n => Belongs(c, i, n)

(* What it says of the message the listener is at.                         *)
RequestInv ==
  lpc \in Replying =>
    /\ newClient \in Conns /\ handled[newClient] # <<>>
    /\ lpc # "handle" =>
         handled[newClient][Len(handled[newClient])] \notin Unparsable

(* And of what the client of the listener was sent.                        *)
PointInv ==
  \A c \in Conns, n \in Nat :
    c = newClient /\ n = Settled /\ lpc \in Serving \ {"close"} /\ Usable(c) =>
         /\ Answered(c, n)
         /\ Len(out[c]) = 2 * Answerable(c, n) + IF lpc = "sendBody" THEN 1 ELSE 0
         /\ lpc = "sendBody" => out[c][Len(out[c])].re = Request

RepliesParts == SentInv /\ RequestInv /\ PointInv

(* The parts are all of RepliesInv.                                        *)
LEMMA PartsSuffice ==
  ASSUME StreamInv, RepliesParts
  PROVE  RepliesInv
<1>1. StreamTypeOK /\ PendingInv
  BY DEF StreamInv
<1>2. ASSUME NEW c \in Conns, NEW i \in 1 .. Len(out[c])
      PROVE  out[c][i].re.n \in Nat /\ i \in Nat
  <2>1. out[c][i] \in [part : Part, re : [from : Conns, n : Nat]]
    BY <1>1, OutTypes, SeqElement
  <2> QED
    BY <2>1
<1>3. RepliesFramed
  BY <1>2 DEF RepliesParts, SentInv, Belongs, RepliesFramed
<1>4. RepliesMatch
  BY <1>2 DEF RepliesParts, SentInv, Belongs, RepliesMatch
<1>5. \A c \in Conns : \A i \in 1 .. Len(out[c]) :
        out[c][i].re.n \in 1 .. Len(handled[c])
  BY <1>2 DEF RepliesParts, SentInv, Belongs
<1>6. ASSUME lpc \in Serving \ {"close"}, Usable(newClient)
      PROVE  /\ Answered(newClient, Settled)
             /\ Len(out[newClient]) = 2 * Answerable(newClient, Settled)
                                        + IF lpc = "sendBody" THEN 1 ELSE 0
             /\ lpc = "sendBody" =>
                  out[newClient][Len(out[newClient])].re = Request
  <2>1. newClient \in Conns
    BY <1>6 DEF Usable
  <2>2. Settled \in Nat
    <3>1. /\ handled[newClient] \in Seq(Seq(Byte))
          /\ Len(handled[newClient]) \in Nat
      BY <1>1, <2>1, OutTypes
    <3>2. lpc \in Replying => Len(handled[newClient]) # 0
      BY <3>1 DEF RepliesParts, RequestInv
    <3> QED
      BY <3>1, <3>2 DEF Settled
  <2> QED
    BY <1>6, <2>1, <2>2 DEF RepliesParts, PointInv
<1> QED
  BY <1>3, <1>4, <1>5, <1>6 DEF RepliesInv, ReplyInv, RepliesParts, RequestInv

(* What was answered and counted stays so while nothing is sent or handled.*)
LEMMA CountsStay ==
  ASSUME UNCHANGED << handled, out >>
  PROVE  \A c \in Conns, n \in Nat : /\ Answerable(c, n)' = Answerable(c, n)
                                     /\ Answered(c, n)' = Answered(c, n)
BY DEF Answerable, Answered

(* Replies and messages that stay the same stay in SentInv.                *)
LEMMA SentStays ==
  ASSUME SentInv, UNCHANGED << handled, out >>
  PROVE  SentInv'
<1>1. ASSUME NEW c \in Conns, NEW i \in Nat, NEW n \in Nat, Belongs(c, i, n)
      PROVE  Belongs(c, i, n)'
  <2>1. Answerable(c, n)' = Answerable(c, n)
    BY CountsStay
  <2> QED
    BY <1>1, <2>1 DEF Belongs
<1> QED
  BY <1>1 DEF SentInv

(* A step that sends nothing, handles nothing and does not bring the       *)
(* listener to another point of a reply.                                   *)
LEMMA QuietReplies ==
  ASSUME RepliesParts, UNCHANGED << handled, out, newClient >>,
         \/ lpc' = lpc
         \/ /\ lpc \in { "inner", "recv", "parse" }
            /\ lpc' \in { "inner", "recv", "parse" }
         \/ lpc' \notin Serving \ {"close"},
         \A c \in Conns : Usable(c)' => Usable(c)
  PROVE  RepliesParts'
<1>1. SentInv'
  BY SentStays DEF RepliesParts
<1>2. CASE lpc' \notin Serving \ {"close"}
  BY <1>1, <1>2 DEF RepliesParts, RequestInv, PointInv, Serving, Replying
<1>3. CASE lpc' = lpc
  <2>1. Settled' = Settled /\ Request' = Request
    BY <1>3 DEF Settled, Request
  <2>2. RequestInv'
    BY <1>3 DEF RepliesParts, RequestInv
  <2>3. PointInv'
    BY <1>3, <2>1, CountsStay DEF RepliesParts, PointInv
  <2> QED
    BY <1>1, <2>2, <2>3 DEF RepliesParts
<1>4. CASE /\ lpc \in { "inner", "recv", "parse" }
           /\ lpc' \in { "inner", "recv", "parse" }
  <2>1. Settled' = Settled /\ lpc' \notin Replying
    BY <1>4 DEF Settled, Replying
  <2>2. lpc # "sendBody" /\ lpc' # "sendBody" /\ lpc \in Serving \ {"close"}
    BY <1>4 DEF Serving
  <2>3. PointInv'
    BY <2>1, <2>2, CountsStay DEF RepliesParts, PointInv
  <2> QED
    BY <1>1, <2>1, <2>3 DEF RepliesParts, RequestInv
<1> QED
  BY <1>2, <1>3, <1>4

(* Nothing is out before the server starts.                                *)
LEMMA InitReplies == Init => RepliesParts
<1> SUFFICES ASSUME Init PROVE RepliesParts
  OBVIOUS
<1>1. \A c \in Conns : Len(out[c]) = 0
  BY DEF Init
<1>2. lpc = "none"
  BY DEF Init
<1> QED
  BY <1>1, <1>2 DEF RepliesParts, SentInv, RequestInv, PointInv, Serving,
                    Replying

(* accept's new client has sent nothing that was read, and was sent        *)
(* nothing.                                                                *)
LEMMA AssignReplies ==
  ASSUME StreamInv, RepliesParts, AssignClient
  PROVE  RepliesParts'
<1>1. SentInv /\ StreamTypeOK /\ PendingInv
  BY DEF StreamInv, RepliesParts
<1>2. /\ lpc = "assign" /\ lpc' = "inner"
      /\ UNCHANGED << newClient, handled, out >>
  BY DEF AssignClient, history
<1>3. newClient \in Conns /\ Len(handled[newClient]) = 0
  BY <1>1, <1>2 DEF PendingInv
<1>4. Len(out[newClient]) = 0
  <2>1. /\ out[newClient] \in Seq([part : Part, re : [from : Conns, n : Nat]])
        /\ Len(out[newClient]) \in Nat
    BY <1>1, <1>3, OutTypes
  <2>2. SUFFICES ASSUME 1 \in 1 .. Len(out[newClient]) PROVE FALSE
    BY <2>1
  <2>3. out[newClient][1] \in [part : Part, re : [from : Conns, n : Nat]]
    BY <2>1, <2>2, SeqElement
  <2>4. out[newClient][1].re.n \in Nat
    BY <2>3
  <2>5. out[newClient][1].re.n \in 1 .. Len(handled[newClient])
    BY <1>1, <1>3, <2>2, <2>4 DEF SentInv, Belongs
  <2> QED
    BY <1>3, <2>5
<1>5. ASSUME NEW c \in Conns, c = newClient
      PROVE  /\ Answerable(c, 0)' = 0 /\ Answered(c, 0)'
             /\ Len(out'[c]) = 2 * 0 + 0
  <2>1. Answerable(c, 0) = 0 /\ Answered(c, 0)
    BY CountStep DEF Answered
  <2> QED
    BY <1>2, <1>4, <1>5, <2>1, CountsStay
<1>6. Settled' = 0 /\ lpc' \notin Replying /\ lpc' # "sendBody"
  BY <1>2, <1>3 DEF Settled, Replying
<1>7. PointInv'
  BY <1>2, <1>5, <1>6 DEF PointInv
<1> QED
  BY <1>1, <1>2, <1>6, <1>7, SentStays DEF RepliesParts, RequestInv

(* The parse loop takes a message: the ones before it are settled.         *)
LEMMA ParseReplies ==
  ASSUME StreamInv, RepliesParts, ParseMessage
  PROVE  RepliesParts'
<1>1. SentInv /\ PointInv /\ StreamTypeOK /\ PendingInv
  BY DEF StreamInv, RepliesParts
<1>2. /\ lpc = "parse" /\ lpc' = "handle"
      /\ handled' = [handled EXCEPT ![newClient] = Append(@, FirstMsg(pending))]
      /\ UNCHANGED << newClient, out, conn, fin >>
  BY DEF ParseMessage, sockets, peer
<1>3. newClient \in Conns
  BY <1>1, <1>2 DEF PendingInv, Serving
<1>4. ASSUME NEW d \in Conns
      PROVE  /\ Len(handled[d]) \in Nat /\ Len(handled'[d]) \in Nat
             /\ Len(handled[d]) <= Len(handled'[d])
             /\ \A j \in 1 .. Len(handled[d]) : handled'[d][j] = handled[d][j]
             /\ d = newClient => Len(handled'[d]) = Len(handled[d]) + 1
  <2>1. handled \in [Conns -> Seq(Seq(Byte))]
    BY <1>1 DEF StreamTypeOK
  <2>2. handled[d] \in Seq(Seq(Byte)) /\ Len(handled[d]) \in Nat
    BY <1>1, OutTypes
  <2>3. CASE d # newClient
    BY <1>2, <2>1, <2>2, <2>3
  <2>4. CASE d = newClient
    <3>1. handled'[d] = Append(handled[d], FirstMsg(pending))
      BY <1>2, <2>1, <2>4
    <3>2. /\ Len(handled'[d]) = Len(handled[d]) + 1
          /\ \A j \in 1 .. Len(handled[d]) : handled'[d][j] = handled[d][j]
      BY <2>2, <3>1
    <3> QED
      BY <2>2, <2>4, <3>2
  <2> QED
    BY <2>3, <2>4
<1>5. ASSUME NEW d \in Conns, NEW k \in Nat, k <= Len(handled[d])
      PROVE  /\ Answerable(d, k)' = Answerable(d, k)
             /\ Answered(d, k) => Answered(d, k)'
  <2>1. \A j \in 1 .. k : handled'[d][j] = handled[d][j]
    BY <1>4, <1>5
  <2> QED
    BY <1>2, <2>1, CountStays DEF Answered
<1>6. SentInv'
  <2>1. ASSUME NEW d \in Conns, NEW i \in Nat, NEW n \in Nat, Belongs(d, i, n)
        PROVE  Belongs(d, i, n)'
    <3>1. n \in Nat /\ n \in 1 .. Len(handled[d]) /\ n <= Len(handled[d])
      BY <1>4, <2>1 DEF Belongs
    <3>2. /\ n \in 1 .. Len(handled'[d]) /\ handled'[d][n] = handled[d][n]
          /\ Answerable(d, n)' = Answerable(d, n)
      BY <1>4, <1>5, <3>1
    <3> QED
      BY <1>2, <2>1, <3>2 DEF Belongs
  <2> QED
    BY <1>1, <1>2, <2>1 DEF SentInv
<1>7. Settled = Len(handled[newClient]) /\ Settled' = Len(handled[newClient])
  BY <1>2, <1>3, <1>4 DEF Settled, Replying
<1>8. PointInv'
  <2> SUFFICES ASSUME NEW c \in Conns, NEW n \in Nat,
                      c = newClient, n = Len(handled[c]), Usable(c)
               PROVE  /\ Answered(c, n)'
                      /\ Len(out[c]) = 2 * Answerable(c, n)' + 0
    <3>1. lpc' # "sendBody"
      BY <1>2
    <3>2. \A c \in Conns : Usable(c)' = Usable(c)
      BY <1>2 DEF Usable
    <3> QED
      BY <1>2, <1>7, <3>1, <3>2 DEF PointInv
  <2>1. Answered(c, n) /\ Len(out[c]) = 2 * Answerable(c, n) + 0
    BY <1>1, <1>2, <1>7 DEF PointInv, Serving
  <2> QED
    BY <1>4, <1>5, <2>1
<1>9. RequestInv'
  <2>1. Len(handled'[newClient]) # 0
    BY <1>3, <1>4
  <2>2. handled'[newClient] # <<>>
    BY <2>1
  <2> QED
    BY <1>2, <1>3, <2>2 DEF RequestInv
<1> QED
  BY <1>6, <1>8, <1>9 DEF RepliesParts

(* The message before this one.                                            *)
LEMMA Predecessor ==
  ASSUME NEW n \in Nat, n # 0
  PROVE  \E k \in Nat : k = n - 1 /\ n = k + 1
<1>1. n - 1 \in Nat
  OBVIOUS
<1> QED
  BY <1>1

(* HandleMessage settles a message that has no reply and gives the others  *)
(* to SendMessage.                                                         *)
LEMMA HandleReplies ==
  ASSUME StreamInv, RepliesParts, HandleMessage
  PROVE  RepliesParts'
<1> DEFINE last == Len(handled[newClient])
<1>1. SentInv /\ PointInv /\ StreamTypeOK
  BY DEF StreamInv, RepliesParts
<1>2. /\ lpc = "handle" /\ UNCHANGED << newClient, handled, out, conn, fin >>
      /\ lpc' = IF handled[newClient][last] \notin Unparsable
                  THEN "sendPrefix" ELSE "parse"
  BY DEF HandleMessage, HasReply, sockets, peer, history
<1>3. newClient \in Conns /\ handled[newClient] # <<>>
  BY <1>2 DEF RepliesParts, RequestInv, Replying
<1>4. last \in Nat /\ last # 0
  <2>1. handled[newClient] \in Seq(Seq(Byte))
    BY <1>1, <1>3, OutTypes
  <2> QED
    BY <1>3, <2>1
<1>5. SentInv'
  BY <1>1, <1>2, SentStays
<1>6. RequestInv'
  BY <1>2, <1>3 DEF RequestInv, Replying
<1>7. \A c \in Conns : Usable(c)' = Usable(c)
  BY <1>2 DEF Usable
<1>8. ASSUME NEW c \in Conns, c = newClient, Usable(c)
      PROVE  /\ Answered(c, last - 1)
             /\ Len(out[c]) = 2 * Answerable(c, last - 1) + 0
  <2>1. Settled = last - 1 /\ last - 1 \in Nat
    BY <1>2, <1>4 DEF Settled, Replying
  <2> QED
    BY <1>1, <1>2, <1>8, <2>1 DEF PointInv, Serving
<1>9. CASE handled[newClient][last] \notin Unparsable
  <2>1. Settled' = last - 1 /\ lpc' = "sendPrefix"
    BY <1>2, <1>9 DEF Settled, Replying
  <2>2. PointInv'
    <3> SUFFICES ASSUME NEW c \in Conns, NEW n \in Nat,
                        c = newClient, n = last - 1, Usable(c)
                 PROVE  /\ Answered(c, n)'
                        /\ Len(out[c]) = 2 * Answerable(c, n)' + 0
      BY <1>2, <1>7, <2>1 DEF PointInv
    <3> QED
      BY <1>2, <1>8, CountsStay
  <2> QED
    BY <1>5, <1>6, <2>2 DEF RepliesParts
<1>10. CASE handled[newClient][last] \in Unparsable
  <2>1. Settled' = last /\ lpc' = "parse"
    BY <1>2, <1>10 DEF Settled, Replying
  <2>2. PointInv'
    <3> SUFFICES ASSUME NEW c \in Conns, NEW n \in Nat,
                        c = newClient, n = last, Usable(c)
                 PROVE  /\ Answered(c, n)'
                        /\ Len(out[c]) = 2 * Answerable(c, n)' + 0
      BY <1>2, <1>7, <2>1 DEF PointInv
    <3>1. n # 0
      BY <1>4
    <3>2. PICK k \in Nat : k = n - 1 /\ n = k + 1
      BY <3>1, Predecessor
    <3>3. Answered(c, k) /\ Len(out[c]) = 2 * Answerable(c, k) + 0
      BY <1>8, <3>2
    <3>4. handled[c][n] \in Unparsable
      BY <1>10
    <3>5. Answerable(c, n) = Answerable(c, k)
      BY <3>2, <3>4, CountStep
    <3>6. Answered(c, n)
      BY <3>2, <3>3, <3>4 DEF Answered
    <3> QED
      BY <1>2, <3>3, <3>5, <3>6, CountsStay
  <2> QED
    BY <1>5, <1>6, <2>2 DEF RepliesParts
<1> QED
  BY <1>9, <1>10

(* What a successful send of SendMessage adds to the replies.              *)
LEMMA SendEffect ==
  ASSUME IInv, StreamInv, RepliesParts, NEW part \in Part,
         lpc \in {"sendPrefix", "sendBody"}, Usable(clientSocket),
         out' = [out EXCEPT ![clientSocket] =
                   Append(@, [part |-> part, re |-> Request])]
  PROVE  /\ newClient \in Conns /\ clientSocket = newClient
         /\ Len(handled[newClient]) \in Nat \ {0}
         /\ \A c \in Conns : c # newClient => out'[c] = out[c]
         /\ Len(out[newClient]) \in Nat
         /\ Len(out'[newClient]) = Len(out[newClient]) + 1
         /\ \A i \in 1 .. Len(out[newClient]) :
              out'[newClient][i] = out[newClient][i]
         /\ out'[newClient][Len(out[newClient]) + 1]
              = [part |-> part, re |-> Request]
         /\ Request \in [from : Conns, n : Nat]
<1>1. StreamTypeOK /\ lpc \in Replying
  BY DEF StreamInv, Replying
<1>2. clientSocket = newClient /\ newClient \in Conns
  BY SocketAssumption DEF IInv, ListenerInv, Usable
<1>3. /\ out[newClient] \in Seq([part : Part, re : [from : Conns, n : Nat]])
      /\ handled[newClient] \in Seq(Seq(Byte))
      /\ Len(handled[newClient]) \in Nat /\ Len(out[newClient]) \in Nat
  BY <1>1, <1>2, OutTypes
<1>4. Len(handled[newClient]) # 0
  <2>1. handled[newClient] # <<>>
    BY <1>1 DEF RepliesParts, RequestInv
  <2> QED
    BY <1>3, <2>1
<1>5. Request \in [from : Conns, n : Nat]
  BY <1>2, <1>3 DEF Request
<1>6. PICK e : e = [part |-> part, re |-> Request]
  OBVIOUS
<1>7. e \in [part : Part, re : [from : Conns, n : Nat]]
  BY <1>5, <1>6
<1>8. out \in [Conns -> Seq([part : Part, re : [from : Conns, n : Nat]])]
  BY <1>1 DEF StreamTypeOK
<1>9. /\ out'[newClient] = Append(out[newClient], e)
      /\ \A c \in Conns : c # newClient => out'[c] = out[c]
  BY <1>2, <1>6, <1>8
<1>10. /\ Len(out'[newClient]) = Len(out[newClient]) + 1
       /\ \A i \in 1 .. Len(out[newClient]) :
            out'[newClient][i] = out[newClient][i]
       /\ out'[newClient][Len(out[newClient]) + 1] = e
  BY <1>3, <1>7, <1>9, AppendSeq
<1> QED
  BY <1>2, <1>3, <1>4, <1>5, <1>6, <1>9, <1>10

(* Something comes before whatever has an even number.                     *)
LEMMA EvenIsSecond ==
  ASSUME NEW i \in Nat, i # 0, i % 2 = 0
  PROVE  i - 1 \in 1 .. i - 1
OBVIOUS

(* What was out before a part was added is out after it.                   *)
LEMMA SentBefore ==
  ASSUME NEW c \in Conns, NEW i \in Nat, NEW n \in Nat, Belongs(c, i, n),
         Len(out[c]) \in Nat, i \in 1 .. Len(out[c]),
         \A j \in 1 .. Len(out[c]) : out'[c][j] = out[c][j],
         handled' = handled
  PROVE  Belongs(c, i, n)'
<1>1. i % 2 = 0 => i - 1 \in 1 .. Len(out[c])
  <2>1. i % 2 = 0 => i - 1 \in 1 .. i - 1
    BY EvenIsSecond
  <2> QED
    BY <2>1
<1>2. Answerable(c, n)' = Answerable(c, n)
  BY DEF Answerable
<1> QED
  BY <1>1, <1>2 DEF Belongs

(* A step adds e, part l of what d is sent, for its message h.             *)
PartAdded(d, l, e, h) ==
  /\ \A c \in Conns : Len(out[c]) \in Nat
  /\ \A c \in Conns : c # d => out'[c] = out[c]
  /\ Len(out[d]) = l - 1 /\ Len(out'[d]) = l /\ l # 0
  /\ \A i \in 1 .. l - 1 : out'[d][i] = out[d][i]
  /\ out'[d][l] = e
  /\ e.part = IF l % 2 = 1 THEN "prefix" ELSE "body"
  /\ l % 2 = 0 => out[d][l - 1].re = e.re
  /\ e.re.from = d /\ e.re.n = h /\ h \in 1 .. Len(handled[d])
  /\ handled[d][h] \notin Unparsable
  /\ Answerable(d, h) = (l + 1) \div 2

(* A part of a reply that is where it belongs leaves SentInv true.         *)
LEMMA SentGrows ==
  ASSUME SentInv, handled' = handled,
         NEW d \in Conns, NEW l \in Nat, NEW e, NEW h \in Nat,
         PartAdded(d, l, e, h)
  PROVE  SentInv'
<1> USE DEF PartAdded
<1>1. Belongs(d, l, h)'
  <2>1. l % 2 = 0 => out'[d][l - 1] = out[d][l - 1]
    BY EvenIsSecond
  <2>2. Answerable(d, h)' = Answerable(d, h)
    BY DEF Answerable
  <2> QED
    BY <2>1, <2>2 DEF Belongs
<1>2. ASSUME NEW c \in Conns, NEW i \in Nat, NEW n \in Nat,
             i \in 1 .. Len(out[c]), out[c][i].re.n = n
      PROVE  Belongs(c, i, n)'
  <2>1. Belongs(c, i, n)
    BY <1>2 DEF SentInv
  <2>2. \A j \in 1 .. Len(out[c]) : out'[c][j] = out[c][j]
    OBVIOUS
  <2> QED
    BY <1>2, <2>1, <2>2, SentBefore
<1>3. ASSUME NEW c \in Conns, NEW i \in Nat, NEW n \in Nat,
             i \in 1 .. Len(out'[c]), out'[c][i].re.n = n
      PROVE  Belongs(c, i, n)'
  <2>1. CASE c = d /\ i = l
    <3>1. n = h
      BY <1>3, <2>1
    <3> QED
      BY <1>1, <2>1, <3>1
  <2>2. CASE c # d \/ i # l
    <3>1. i \in 1 .. Len(out[c]) /\ out'[c][i] = out[c][i]
      <4>1. CASE c # d
        <5>1. out'[c] = out[c]
          BY <4>1
        <5> QED
          BY <1>3, <5>1
      <4>2. CASE c = d
        <5>1. i \in 1 .. l - 1
          BY <1>3, <2>2, <4>2
        <5> QED
          BY <4>2, <5>1
      <4> QED
        BY <4>1, <4>2
    <3> QED
      BY <1>2, <1>3, <3>1
  <2> QED
    BY <2>1, <2>2
<1> QED
  BY <1>3 DEF SentInv

(* What is answered stays answered when a part is added.                   *)
LEMMA AnsweredGrows ==
  ASSUME NEW c \in Conns, NEW n \in Nat, Answered(c, n), handled' = handled,
         Len(out[c]) \in Nat, Len(out'[c]) \in Nat,
         Len(out[c]) <= Len(out'[c]),
         \A i \in 1 .. Len(out[c]) : out'[c][i] = out[c][i]
  PROVE  Answered(c, n)'
<1>1. ASSUME NEW k \in 1 .. n, handled[c][k] \notin Unparsable
      PROVE  \E i \in 1 .. Len(out'[c]) :
               out'[c][i] = [part |-> "body", re |-> [from |-> c, n |-> k]]
  <2>1. PICK i \in 1 .. Len(out[c]) :
          out[c][i] = [part |-> "body", re |-> [from |-> c, n |-> k]]
    BY <1>1 DEF Answered
  <2>2. i \in 1 .. Len(out'[c]) /\ out'[c][i] = out[c][i]
    OBVIOUS
  <2> QED
    BY <2>1, <2>2
<1> QED
  BY <1>1 DEF Answered

(* SendMessage with a connection that is no longer usable.                 *)
LEMMA SendFailsReplies ==
  ASSUME IInv, RepliesParts, lpc \in {"sendPrefix", "sendBody"},
         ~Usable(clientSocket), lpc' = "parse",
         UNCHANGED << newClient, handled, out, conn, fin >>
  PROVE  RepliesParts'
<1>1. \A c \in Conns : c = newClient => ~Usable(c)
  BY DEF IInv, ListenerInv, Serving, NothingOpen, Usable
<1>2. \A c \in Conns : Usable(c)' = Usable(c)
  BY DEF Usable
<1>3. PointInv'
  BY <1>1, <1>2 DEF PointInv
<1>4. RequestInv'
  BY DEF RequestInv, Replying
<1> QED
  BY <1>3, <1>4, SentStays DEF RepliesParts

(* SendMessage: the prefix goes where the first part of the reply belongs, *)
(* the body right behind it.                                               *)
LEMMA SendReplies ==
  ASSUME IInv, StreamInv, RepliesParts, SendPrefix \/ SendBody
  PROVE  RepliesParts'
<1>1. /\ lpc \in {"sendPrefix", "sendBody"} /\ lpc' \in {"sendBody", "parse"}
      /\ UNCHANGED << newClient, handled, conn, fin >>
  BY DEF SendPrefix, SendBody, SendPart, sockets, peer
<1>2. CASE ~Usable(clientSocket)
  <2>1. lpc' = "parse" /\ out' = out
    BY <1>2 DEF SendPrefix, SendBody, SendPart
  <2> QED
    BY <1>1, <1>2, <2>1, SendFailsReplies
<1>3. CASE Usable(clientSocket)
  <2>1. PICK part \in Part :
          /\ out' = [out EXCEPT ![clientSocket] =
                       Append(@, [part |-> part, re |-> Request])]
          /\ \/ lpc = "sendPrefix" /\ lpc' = "sendBody" /\ part = "prefix"
             \/ lpc = "sendBody" /\ lpc' = "parse" /\ part = "body"
    BY <1>3 DEF SendPrefix, SendBody, SendPart, Part
  <2>2. /\ newClient \in Conns /\ clientSocket = newClient
        /\ Len(handled[newClient]) \in Nat \ {0}
        /\ \A c \in Conns : c # newClient => out'[c] = out[c]
        /\ Len(out[newClient]) \in Nat
        /\ Len(out'[newClient]) = Len(out[newClient]) + 1
        /\ \A i \in 1 .. Len(out[newClient]) :
             out'[newClient][i] = out[newClient][i]
        /\ out'[newClient][Len(out[newClient]) + 1]
             = [part |-> part, re |-> Request]
    BY <1>1, <1>3, <2>1, SendEffect
  <2>3. PICK d \in Conns, n \in Nat, h \in Nat, l \in Nat :
          /\ d = newClient /\ h = Len(handled[newClient]) /\ h = n + 1
          /\ l = Len(out[newClient]) + 1
    <3>1. PICK h \in Nat : h = Len(handled[newClient]) /\ h # 0
      BY <2>2
    <3>2. PICK n \in Nat : h = n + 1
      <4>1. h - 1 \in Nat /\ h = (h - 1) + 1
        BY <3>1
      <4> QED
        BY <4>1
    <3>3. PICK l \in Nat : l = Len(out[newClient]) + 1
      BY <2>2
    <3> QED
      BY <2>2, <3>1, <3>2, <3>3
  <2>4. PICK e : e = [part |-> part, re |-> Request]
    OBVIOUS
  <2>5. /\ e.part = part /\ e.re = Request
        /\ Request.from = d /\ Request.n = h
    BY <2>3, <2>4 DEF Request
  <2>6. /\ \A c \in Conns : Len(out[c]) \in Nat
        /\ \A c \in Conns : c # d => out'[c] = out[c]
        /\ Len(out[d]) = l - 1 /\ Len(out'[d]) = l /\ l # 0
        /\ \A i \in 1 .. l - 1 : out'[d][i] = out[d][i]
        /\ out'[d][l] = e
    <3>1. \A c \in Conns : Len(out[c]) \in Nat
      BY OutTypes DEF StreamInv
    <3>2. Len(out[d]) = l - 1 /\ Len(out'[d]) = l /\ l # 0
      BY <2>2, <2>3
    <3> QED
      BY <2>2, <2>3, <2>4, <3>1, <3>2
  <2>7. handled[d][h] \notin Unparsable /\ h \in 1 .. Len(handled[d])
    BY <1>1, <2>3 DEF RepliesParts, RequestInv, Replying
  <2>8. PICK a \in Nat : a = Answerable(d, n) /\ Answerable(d, h) = a + 1
    <3>1. Answerable(d, n) \in Nat
      BY CountStep
    <3>2. handled[d][n + 1] \notin Unparsable
      BY <2>3, <2>7
    <3>3. Answerable(d, n + 1) = Answerable(d, n) + 1
      BY <3>2, CountStep
    <3> QED
      BY <2>3, <3>1, <3>3
  <2>9. Settled = n
    BY <1>1, <2>3 DEF Settled, Replying
  <2>10. /\ Answered(d, n)
         /\ Len(out[d]) = 2 * a + IF lpc = "sendBody" THEN 1 ELSE 0
         /\ lpc = "sendBody" => out[d][Len(out[d])].re = Request
    BY <1>1, <1>3, <2>2, <2>3, <2>8, <2>9
    DEF RepliesParts, PointInv, Serving
  <2>11. Answered(d, n)' /\ Answerable(d, n)' = a /\ Answerable(d, h)' = a + 1
    <3>1. Answered(d, n)'
      BY <1>1, <2>6, <2>10, AnsweredGrows
    <3>2. Answerable(d, n)' = Answerable(d, n) /\ Answerable(d, h)' = Answerable(d, h)
      BY <1>1 DEF Answerable
    <3> QED
      BY <2>8, <3>1, <3>2
  <2>12. Request' = Request /\ \A c \in Conns : Usable(c)' = Usable(c)
    BY <1>1 DEF Request, Usable
  <2>13. CASE lpc = "sendPrefix" /\ lpc' = "sendBody" /\ part = "prefix"
    <3>1. l = 2 * a + 1
      BY <2>6, <2>10, <2>13
    <3>2. l % 2 = 1 /\ (l + 1) \div 2 = a + 1
      BY <3>1
    <3>3. SentInv'
      <4>1. /\ e.part = IF l % 2 = 1 THEN "prefix" ELSE "body"
            /\ l % 2 = 0 => out[d][l - 1].re = e.re
            /\ e.re.from = d /\ e.re.n = h
            /\ Answerable(d, h) = (l + 1) \div 2
        BY <2>5, <2>8, <2>13, <3>2
      <4>2. SentInv /\ handled' = handled
        BY <1>1 DEF RepliesParts
      <4>3. PartAdded(d, l, e, h)
        BY <2>6, <2>7, <4>1 DEF PartAdded
      <4> QED
        BY <4>2, <4>3, SentGrows
    <3>4. RequestInv'
      BY <1>1, <2>2, <2>3, <2>7, <2>13 DEF RequestInv, RepliesParts, Replying
    <3>5. Settled' = n
      BY <1>1, <2>3, <2>13 DEF Settled, Replying
    <3>6. Len(out'[d]) = 2 * Answerable(d, n)' + 1
      BY <2>6, <2>11, <3>1
    <3>7. out'[d][Len(out'[d])].re = Request'
      BY <2>5, <2>6, <2>12
    <3>8. PointInv'
      BY <1>1, <2>3, <2>11, <2>13, <3>5, <3>6, <3>7 DEF PointInv
    <3> QED
      BY <3>3, <3>4, <3>8 DEF RepliesParts
  <2>14. CASE lpc = "sendBody" /\ lpc' = "parse" /\ part = "body"
    <3>1. l = 2 * a + 2
      BY <2>6, <2>10, <2>14
    <3>2. l % 2 = 0 /\ (l + 1) \div 2 = a + 1
      BY <3>1
    <3>3. out[d][l - 1].re = e.re
      BY <2>5, <2>6, <2>10, <2>14
    <3>4. SentInv'
      <4>1. /\ e.part = IF l % 2 = 1 THEN "prefix" ELSE "body"
            /\ l % 2 = 0 => out[d][l - 1].re = e.re
            /\ e.re.from = d /\ e.re.n = h
            /\ Answerable(d, h) = (l + 1) \div 2
        BY <2>5, <2>8, <2>14, <3>2, <3>3
      <4>2. SentInv /\ handled' = handled
        BY <1>1 DEF RepliesParts
      <4>3. PartAdded(d, l, e, h)
        BY <2>6, <2>7, <4>1 DEF PartAdded
      <4> QED
        BY <4>2, <4>3, SentGrows
    <3>5. RequestInv'
      BY <2>14 DEF RequestInv, Replying
    <3>6. Settled' = h
      BY <1>1, <2>3, <2>14 DEF Settled, Replying
    <3>7. Len(out'[d]) = 2 * Answerable(d, h)' + 0
      BY <2>6, <2>11, <3>1
    <3>8. Answered(d, h)'
      <4> SUFFICES ASSUME NEW k \in 1 .. h, handled'[d][k] \notin Unparsable
                   PROVE  \E i \in 1 .. Len(out'[d]) :
                            out'[d][i] = [part |-> "body",
                                          re |-> [from |-> d, n |-> k]]
        BY DEF Answered
      <4>1. CASE k = h
        <5>1. e = [part |-> "body", re |-> [from |-> d, n |-> k]]
          BY <2>3, <2>4, <2>14, <4>1 DEF Request
        <5>2. l \in 1 .. Len(out'[d])
          BY <2>6
        <5> QED
          BY <2>6, <5>1, <5>2
      <4>2. CASE k # h
        <5>1. k \in 1 .. n
          BY <2>3, <4>2
        <5> QED
          BY <2>11, <5>1 DEF Answered
      <4> QED
        BY <4>1, <4>2
    <3>9. PointInv'
      BY <1>1, <2>3, <2>14, <3>6, <3>7, <3>8 DEF PointInv
    <3> QED
      BY <3>4, <3>5, <3>9 DEF RepliesParts
  <2> QED
    BY <2>1, <2>13, <2>14
<1> QED
  BY <1>2, <1>3

-----------------------------------------------------------------------------
(* Every step.                                                             *)

(* closesocket makes no connection usable.                                 *)
LEMMA CloseUsable ==
  ASSUME IInv, NEW s, Close(s), fin' = fin
  PROVE  \A c \in Conns : Usable(c)' => Usable(c)
BY CloseEffect DEF IInv, ControlTypeOK, Usable

(* No step of the listener leaves the parts.                               *)
LEMMA ListenerReplies ==
  ASSUME IInv, StreamInv, RepliesParts, ListenThread
  PROVE  RepliesParts'
<1> USE DEF listener, sockets, peer, history, members
<1>1. UNCHANGED << conn, fin >> => \A c \in Conns : Usable(c)' => Usable(c)
  BY DEF Usable
<1>2. CASE WhileRunning
  BY <1>1, <1>2, QuietReplies DEF WhileRunning, Serving
<1>3. CASE AcceptClient
  <2>1. SentInv'
    BY <1>3, SentStays DEF AcceptClient, RepliesParts
  <2>2. lpc' = "assign"
    BY <1>3 DEF AcceptClient
  <2> QED
    BY <2>1, <2>2 DEF RepliesParts, RequestInv, PointInv, Serving, Replying
<1>4. CASE AcceptFails
  <2>1. SentInv'
    BY <1>4, SentStays DEF AcceptFails, RepliesParts
  <2>2. lpc' = "while"
    BY <1>4 DEF AcceptFails, OnAcceptFailure
  <2> QED
    BY <2>1, <2>2 DEF RepliesParts, RequestInv, PointInv, Serving, Replying
<1>5. CASE AssignClient
  BY <1>5, AssignReplies
<1>6. CASE InnerWhile
  BY <1>1, <1>6, QuietReplies DEF InnerWhile, Serving
<1>7. ASSUME NEW n \in 1 .. BufSize, RecvBytes(n) PROVE RepliesParts'
  BY <1>1, <1>7, QuietReplies DEF RecvBytes
<1>8. CASE RecvEnds
  BY <1>1, <1>8, QuietReplies DEF RecvEnds, Serving
<1>9. CASE ParseMessage
  BY <1>9, ParseReplies
<1>10. CASE ParseWaits
  BY <1>1, <1>10, QuietReplies DEF ParseWaits
<1>11. CASE HandleMessage
  BY <1>11, HandleReplies
<1>12. CASE SendPrefix \/ SendBody
  BY <1>12, SendReplies
<1>13. CASE CloseClient
  <2>1. \A c \in Conns : Usable(c)' => Usable(c)
    BY <1>13, CloseUsable DEF CloseClient
  <2> QED
    BY <1>13, <2>1, QuietReplies DEF CloseClient, Serving
<1>14. CASE ForgetClient
  BY <1>1, <1>14, QuietReplies DEF ForgetClient, Serving
<1> QED
  BY <1>2, <1>3, <1>4, <1>5, <1>6, <1>7, <1>8, <1>9, <1>10, <1>11, <1>12,
     <1>13, <1>14 DEF ListenThread

(* No step of main, of a client or of the network leaves them.             *)
LEMMA OtherReplies ==
  ASSUME IInv, StreamInv, RepliesParts, Main \/ Clients \/ Interrupt
  PROVE  RepliesParts'
<1> USE DEF listener, sockets, peer, history, members
<1>1. UNCHANGED << conn, fin >> => \A c \in Conns : Usable(c)' => Usable(c)
  BY DEF Usable
<1>2. CASE Start \/ StartThreadFails
  <2>1. lpc' \in {"while", lpc}
    BY <1>2 DEF Start, StartThreadFails, StartListens
  <2> QED
    BY <1>1, <1>2, <2>1, QuietReplies
    DEF Start, StartThreadFails, StartListens, Serving
<1>3. CASE StartFails \/ Serve \/ ShutdownProtobuf
  BY <1>1, <1>3, QuietReplies DEF StartFails, Serve, ShutdownProtobuf
<1>4. CASE StopRunning \/ StopCheckClient \/ StopLoadClient \/ StopResetClient
  BY <1>1, <1>4, QuietReplies
  DEF StopRunning, StopCheckClient, StopLoadClient, StopResetClient
<1>5. CASE StopJoin \/ StopCleanup
  BY <1>1, <1>5, QuietReplies DEF StopJoin, StopCleanup
<1>6. CASE StopServerSocket
  <2>1. \A c \in Conns : Usable(c)' => Usable(c)
    BY <1>6 DEF StopServerSocket, Usable
  <2> QED
    BY <1>6, <2>1, QuietReplies DEF StopServerSocket
<1>7. CASE StopCloseClient
  <2>1. \A c \in Conns : Usable(c)' => Usable(c)
    BY <1>7, CloseUsable DEF StopCloseClient
  <2> QED
    BY <1>7, <2>1, QuietReplies DEF StopCloseClient
<1>8. CASE Interrupt
  BY <1>1, <1>8, QuietReplies DEF Interrupt
<1>9. ASSUME NEW c \in Conns, Connect(c) PROVE RepliesParts'
  <2>1. \A d \in Conns : Usable(d)' => Usable(d)
    BY <1>9 DEF Connect, Usable, IInv, ControlTypeOK
  <2> QED
    BY <1>9, <2>1, QuietReplies DEF Connect
<1>10. ASSUME NEW c \in Conns, NEW m \in Messages, WritePrefix(c, m)
       PROVE  RepliesParts'
  BY <1>1, <1>10, QuietReplies DEF WritePrefix
<1>11. ASSUME NEW c \in Conns, WriteBody(c) PROVE RepliesParts'
  BY <1>1, <1>11, QuietReplies DEF WriteBody
<1>12. ASSUME NEW c \in Conns, Hangup(c) \/ Reset(c) PROVE RepliesParts'
  <2>1. \A d \in Conns : Usable(d)' => Usable(d)
    BY <1>12 DEF Hangup, Reset, Usable, CanWrite, IInv, ControlTypeOK
  <2> QED
    BY <1>12, <2>1, QuietReplies DEF Hangup, Reset
<1> QED
  BY <1>2, <1>3, <1>4, <1>5, <1>6, <1>7, <1>8, <1>9, <1>10, <1>11, <1>12
  DEF Main, Stop, Clients

(* The parts hold at every step of Stop, the listener and the clients.     *)
LEMMA RepliesPartsSafe == Spec => []RepliesParts
<1>1. IInv /\ StreamInv /\ RepliesParts /\ [Next]_vars => RepliesParts'
  <2> SUFFICES ASSUME IInv, StreamInv, RepliesParts, [Next]_vars
               PROVE  RepliesParts'
    OBVIOUS
  <2>1. CASE UNCHANGED vars
    <3>1. UNCHANGED << handled, out, newClient, lpc, conn, fin >>
      BY <2>1 DEF vars, listener, sockets, peer, history
    <3>2. \A c \in Conns : Usable(c)' => Usable(c)
      BY <3>1 DEF Usable
    <3> QED
      BY <3>1, <3>2, QuietReplies
  <2>2. CASE Exited
    BY <2>1, <2>2 DEF Exited
  <2> QED
    BY <2>1, <2>2, ListenerReplies, OtherReplies DEF Next
<1> QED
  BY InitReplies, <1>1, ControlSafe, StreamSafe, PTL DEF Spec

-----------------------------------------------------------------------------
(* Whatever happens to a connection, no part of a reply comes where        *)
(* another one belongs.                                                    *)
THEOREM RepliesSafe == Spec => []RepliesInv
<1>1. StreamInv /\ RepliesParts => RepliesInv
  BY PartsSuffice
<1> QED
  BY <1>1, StreamSafe, RepliesPartsSafe, PTL

(* Every cut of every stream, in every interleaving with Stop, leaves both *)
(* directions of every connection in order.                                *)
THEOREM ConnectionSafe == Spec => []ConnectionInv
BY StreamSafe, RepliesSafe, PTL DEF ConnectionInv

(* Prefixes and bodies of replies alternate on every connection.           *)
THEOREM RepliesFramedSafe == Spec => []RepliesFramed
<1>1. RepliesInv => RepliesFramed
  BY DEF RepliesInv
<1> QED
  BY <1>1, RepliesSafe, PTL

(* The k-th reply on a connection answers its k-th parsable message.       *)
THEOREM RepliesMatchSafe == Spec => []RepliesMatch
<1>1. RepliesInv => RepliesMatch
  BY DEF RepliesInv
<1> QED
  BY <1>1, RepliesSafe, PTL

(* The listener waits in recv only when all it could answer is answered.   *)
THEOREM AnswersAllSafe == Spec => []AnswersAll
<1>1. IInv /\ RepliesInv => AnswersAll
  <2> SUFFICES ASSUME IInv, RepliesInv, lpc = "recv", Usable(clientSocket)
               PROVE  Answered(clientSocket, Len(handled[clientSocket]))
    BY DEF AnswersAll
  <2>1. clientSocket = newClient
    BY SocketAssumption DEF IInv, ListenerInv, Usable
  <2>2. Settled = Len(handled[newClient])
    BY DEF Settled, Replying
  <2> QED
    BY <2>1, <2>2 DEF RepliesInv, ReplyInv, Serving
<1> QED
  BY <1>1, ControlSafe, RepliesSafe, PTL
=============================================================================
