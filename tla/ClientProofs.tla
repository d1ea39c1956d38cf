---------------------------- MODULE ClientProofs ----------------------------
(* Theorems about the clients and the server together, for any number of   *)
(* clients, any videos and any faults: the composition keeps what the      *)
(* server promises, and its calls are those of RemoteCalls.                *)
EXTENDS Client, RepliesProofs

-----------------------------------------------------------------------------
(* The types of the clients' variables.                                    *)

(* A frame that goes into the decoder was a packet of the file.            *)
ClientTypeInv ==
  /\ command \in [Conns -> {"list", "image", "video"}]
  /\ cpc \in [Conns -> ClientPc]
  /\ packets \in [Conns -> Nat] /\ held \in [Conns -> Nat]
  /\ \A c \in Conns : packets[c] + held[c] <= MaxPackets
  /\ request \in [Conns -> Messages]
  /\ asked \in [Conns -> Nat] /\ got \in [Conns -> Nat]
  /\ broken \subseteq Conns

(* The clients' requests are messages.                                     *)
LEMMA RequestTypes ==
  /\ ListRequest \in Messages /\ ImageRequest \in Messages
  /\ FrameRequest \in Messages /\ FinalFrame \in Messages
BY ClientAssumption

(* Before it connects a client has a type.                                 *)
LEMMA InitClientType == ClientsInit => ClientTypeInv
<1> SUFFICES ASSUME ClientsInit PROVE ClientTypeInv
  OBVIOUS
<1>1. /\ packets \in [Conns -> Nat] /\ held \in [Conns -> Nat]
      /\ \A c \in Conns : packets[c] + held[c] <= MaxPackets
  BY ClientAssumption DEF ClientsInit
<1>2. request \in [Conns -> Messages]
  BY RequestTypes DEF ClientsInit
<1>3. command \in [Conns -> {"list", "image", "video"}]
  BY ClientAssumption DEF ClientsInit
<1> QED
  BY <1>1, <1>2, <1>3 DEF ClientsInit, ClientTypeInv, ClientPc

(* No step of a client or of its environment leaves the types.             *)
LEMMA ClientTypeStep ==
  ASSUME ClientTypeInv, NEW c \in Conns, ClientProgram(c) \/ Environment(c)
  PROVE  ClientTypeInv'
<1> USE DEF ClientTypeInv, Goto, Exit, Send, video, stream, clients
<1>1. CASE ConnectClient(c)
  BY <1>1 DEF ConnectClient, ClientPc
<1>2. CASE RunCommand(c)
  <2>1. request' \in [Conns -> Messages]
    BY <1>2, RequestTypes DEF RunCommand
  <2> QED
    BY <1>2, <2>1 DEF RunCommand, ClientPc
<1>3. CASE GiveUp(c)
  BY <1>3 DEF GiveUp, ClientPc
<1>4. CASE DecodePacket(c)
  <2>1. /\ packets' \in [Conns -> Nat] /\ held' \in [Conns -> Nat]
        /\ \A d \in Conns : packets'[d] + held'[d] <= MaxPackets
    <3>1. packets[c] \in Nat /\ packets[c] # 0 /\ held[c] \in Nat
      BY <1>4 DEF DecodePacket, EndOfFile
    <3>2. packets[c] - 1 \in Nat /\ held[c] + 1 \in Nat
      BY <3>1
    <3> QED
      BY <1>4, <3>1, <3>2 DEF DecodePacket
  <2> QED
    BY <1>4, <2>1 DEF DecodePacket, ClientPc
<1>5. CASE ReceiveFrame(c)
  <2>1. /\ held' \in [Conns -> Nat]
        /\ \A d \in Conns : packets'[d] + held'[d] <= MaxPackets
    <3>1. CASE held' = held
      BY <1>5, <3>1 DEF ReceiveFrame
    <3>2. CASE held[c] > 0 /\ held' = [held EXCEPT ![c] = @ - 1]
      <4>1. held[c] \in Nat /\ held[c] - 1 \in Nat /\ packets[c] \in Nat
        BY <3>2
      <4>2. MaxPackets \in Nat
        BY ClientAssumption
      <4> QED
        BY <1>5, <3>2, <4>1, <4>2 DEF ReceiveFrame
    <3> QED
      BY <1>5, <3>1, <3>2 DEF ReceiveFrame
  <2>2. request' \in [Conns -> Messages]
    BY <1>5, RequestTypes DEF ReceiveFrame
  <2>3. cpc' \in [Conns -> ClientPc]
    BY <1>5 DEF ReceiveFrame, ClientPc
  <2> QED
    BY <1>5, <2>1, <2>2, <2>3 DEF ReceiveFrame
<1>6. CASE SendFinalFrame(c)
  <2>1. request' \in [Conns -> Messages]
    BY <1>6, RequestTypes DEF SendFinalFrame
  <2> QED
    BY <1>6, <2>1 DEF SendFinalFrame, ClientPc
<1>7. CASE SendMessagePrefix(c)
  <2>1. asked' \in [Conns -> Nat]
    BY <1>7 DEF SendMessagePrefix
  <2>2. cpc' \in [Conns -> ClientPc]
    BY <1>7 DEF SendMessagePrefix, ClientPc
  <2> QED
    BY <1>7, <2>1, <2>2 DEF SendMessagePrefix
<1>8. CASE SendMessageBody(c)
  BY <1>8 DEF SendMessageBody, AfterSend, ClientPc
<1>9. CASE ReceiveMessage(c)
  <2>1. got' \in [Conns -> Nat]
    BY <1>9 DEF ReceiveMessage, Receive
  <2>2. cpc' \in [Conns -> ClientPc]
    BY <1>9 DEF ReceiveMessage, Receive, AfterReply, ClientPc
  <2> QED
    BY <1>9, <2>1, <2>2 DEF ReceiveMessage, Receive
<1>10. CASE ReturnOk(c)
  BY <1>10 DEF ReturnOk, ClientPc
<1>11. CASE Kill(c)
  BY <1>11 DEF Kill, ClientPc
<1>12. CASE LateReply(c)
  BY <1>12 DEF LateReply
<1>13. CASE NetworkFails(c)
  BY <1>13 DEF NetworkFails
<1> QED
  BY <1>1, <1>2, <1>3, <1>4, <1>5, <1>6, <1>7, <1>8, <1>9, <1>10, <1>11,
     <1>12, <1>13 DEF ClientProgram, Environment

(* Every variable of the clients keeps its type.                           *)
LEMMA ClientTypeInvSafe == CastSpec => []ClientTypeInv
<1>1. ClientTypeInv /\ [CastNext]_all => ClientTypeInv'
  <2> SUFFICES ASSUME ClientTypeInv, [CastNext]_all PROVE ClientTypeInv'
    OBVIOUS
  <2>1. CASE UNCHANGED clients
    BY <2>1 DEF ClientTypeInv, clients, video, stream
  <2>2. CASE \E c \in Conns : ClientProgram(c) \/ Environment(c)
    BY <2>2, ClientTypeStep
  <2> QED
    BY <2>1, <2>2 DEF CastNext, Server, AllExited, all
<1> QED
  BY InitClientType, <1>1, PTL DEF CastSpec

(* The number of frames in the decoder and of packets is bounded by the    *)
(* file, and all the rest of a client is what it is declared to be.        *)
THEOREM ClientTypeCorrect == CastSpec => []ClientTypeOK
<1>1. ClientTypeInv => ClientTypeOK
  <2> SUFFICES ASSUME ClientTypeInv PROVE ClientTypeOK
    OBVIOUS
  <2>1. packets \in [Conns -> 0 .. MaxPackets] /\ held \in [Conns -> 0 .. MaxPackets]
    BY ClientAssumption DEF ClientTypeInv
  <2> QED
    BY <2>1 DEF ClientTypeInv, ClientTypeOK
<1> QED
  BY <1>1, ClientTypeInvSafe, PTL

-----------------------------------------------------------------------------
(* The composition is a run of the server.                                 *)

(* What a client does to the server's variables is what NetworkServer lets *)
(* a client or the network do.                                             *)
LEMMA ClientSteps ==
  ASSUME ClientTypeInv, NEW c \in Conns, ClientProgram(c) \/ Environment(c)
  PROVE  Clients \/ UNCHANGED vars
<1>1. ASSUME CloseStream(c) PROVE Clients \/ UNCHANGED vars
  BY <1>1 DEF CloseStream, Clients
<1>2. CASE ConnectClient(c)
  BY <1>2 DEF ConnectClient, Clients
<1>3. CASE RunCommand(c) \/ DecodePacket(c) \/ ReceiveFrame(c) \/ SendFinalFrame(c)
  BY <1>3 DEF RunCommand, DecodePacket, ReceiveFrame, SendFinalFrame
<1>4. CASE GiveUp(c) \/ ReturnOk(c) \/ Kill(c)
  BY <1>1, <1>4 DEF GiveUp, ReturnOk, Kill, Exit
<1>5. CASE SendMessagePrefix(c)
  <2>1. request[c] \in Messages
    BY DEF ClientTypeInv
  <2>2. WritePrefix(c, request[c]) => Clients
    BY <2>1 DEF Clients
  <2> QED
    BY <1>1, <1>5, <2>2 DEF SendMessagePrefix, Exit
<1>6. CASE SendMessageBody(c)
  BY <1>1, <1>6 DEF SendMessageBody, Exit, Clients
<1>7. CASE ReceiveMessage(c)
  BY <1>1, <1>7 DEF ReceiveMessage, Receive, Exit
<1>8. CASE LateReply(c) \/ NetworkFails(c)
  BY <1>8 DEF LateReply, NetworkFails, Clients
<1> QED
  BY <1>2, <1>3, <1>4, <1>5, <1>6, <1>7, <1>8 DEF ClientProgram, Environment

(* A step of the composition is a step of the server or of its             *)
(* environment, or the server does not see it.                             *)
LEMMA CastStep ==
  ASSUME ClientTypeInv, [CastNext]_all
  PROVE  [Next]_vars
<1>1. CASE UNCHANGED all
  BY <1>1 DEF all
<1>2. CASE Server
  BY <1>2 DEF Server, Next
<1>3. CASE \E c \in Conns : ClientProgram(c) \/ Environment(c)
  BY <1>3, ClientSteps DEF Next
<1>4. CASE AllExited
  BY <1>4 DEF AllExited, all
<1> QED
  BY <1>1, <1>2, <1>3, <1>4 DEF CastNext

(* All that is true of the server with any clients is true of it with      *)
(* these.                                                                  *)
THEOREM CastIsServer == CastSpec => Spec
<1>1. ClientsInit => Init
  BY DEF ClientsInit
<1> QED
  BY <1>1, CastStep, ClientTypeInvSafe, PTL DEF CastSpec, Spec

(* The server's invariants hold in the composition.                        *)
LEMMA ServerSafe == CastSpec => [](IInv /\ StreamInv /\ RepliesParts)
BY CastIsServer, ControlSafe, StreamSafe, RepliesPartsSafe, PTL

-----------------------------------------------------------------------------
(* CallInv: what a client has asked and read.                              *)

(* A step of the server's process sends no request, and replies only grow. *)
LEMMA ServerOut ==
  ASSUME IInv, StreamInv, RepliesParts, ListenThread \/ Main \/ Interrupt
  PROVE  /\ sent' = sent
         /\ \A c \in Conns : /\ Len(out[c]) \in Nat /\ Len(out'[c]) \in Nat
                             /\ Len(out[c]) <= Len(out'[c])
<1> USE DEF peer, history, sockets
<1>1. \A c \in Conns : Len(out[c]) \in Nat
  BY OutTypes DEF StreamInv
<1>2. CASE SendPrefix \/ SendBody
  <2>1. sent' = sent
    BY <1>2 DEF SendPrefix, SendBody, SendPart
  <2>2. CASE out' = out
    BY <1>1, <2>1, <2>2
  <2>3. CASE out' # out
    <3>1. PICK part \in Part :
            /\ lpc \in {"sendPrefix", "sendBody"} /\ Usable(clientSocket)
            /\ out' = [out EXCEPT ![clientSocket] =
                         Append(@, [part |-> part, re |-> Request])]
      BY <1>2, <2>3 DEF SendPrefix, SendBody, SendPart, Part
    <3>2. /\ \A c \in Conns : c # newClient => out'[c] = out[c]
          /\ Len(out'[newClient]) = Len(out[newClient]) + 1
      BY <3>1, SendEffect
    <3> QED
      BY <1>1, <2>1, <3>2
  <2> QED
    BY <2>2, <2>3
<1>3. CASE ListenThread /\ ~(SendPrefix \/ SendBody)
  <2>1. UNCHANGED << sent, out >>
    BY <1>3 DEF ListenThread, WhileRunning, AcceptClient, AcceptFails,
                AssignClient, InnerWhile, RecvBytes, RecvEnds, ParseMessage,
                ParseWaits, HandleMessage, CloseClient, ForgetClient
  <2> QED
    BY <1>1, <2>1
<1>4. CASE Main \/ Interrupt
  <2>1. UNCHANGED << sent, out >>
    BY <1>4 DEF Main, Start, StartThreadFails, StartFails, StartListens, Serve,
                Stop, StopRunning, StopServerSocket, StopCheckClient,
                StopLoadClient, StopCloseClient, StopResetClient, StopJoin,
                StopCleanup, ShutdownProtobuf, Interrupt
  <2> QED
    BY <1>1, <2>1
<1> QED
  BY <1>2, <1>3, <1>4

(* What a client cannot touch: the messages handled, the replies, and, but *)
(* for what it writes, what was sent.                                      *)
LEMMA ClientQuiet ==
  ASSUME Clients \/ UNCHANGED vars
  PROVE  UNCHANGED << handled, out, lpc, newClient, clientSocket >>
BY DEF Clients, Connect, WritePrefix, WriteBody, Hangup, Reset, vars, members,
       listener, history

(* Closing a connection sends nothing.                                     *)
LEMMA CloseStreamQuiet ==
  ASSUME NEW c \in Conns, CloseStream(c)
  PROVE  sent' = sent
BY DEF CloseStream, Hangup, Reset, vars, peer

(* A step of client c is no step of client d.                              *)
LEMMA OthersStay ==
  ASSUME ClientTypeInv, StreamInv, NEW c \in Conns, NEW d \in Conns, d # c,
         ClientProgram(c) \/ Environment(c)
  PROVE  /\ cpc'[d] = cpc[d] /\ asked'[d] = asked[d] /\ got'[d] = got[d]
         /\ request'[d] = request[d] /\ sent'[d] = sent[d]
<1>1. StreamTypeOK
  BY DEF StreamInv
<1>2. ASSUME CloseStream(c) PROVE sent'[d] = sent[d]
  BY <1>2, CloseStreamQuiet
<1> USE DEF ClientTypeInv, Goto, Exit, Send, video, stream, clients
<1>3. CASE ConnectClient(c)
  BY <1>3 DEF ConnectClient, Connect, peer
<1>4. CASE RunCommand(c) \/ DecodePacket(c) \/ ReceiveFrame(c) \/ SendFinalFrame(c)
  BY <1>4 DEF RunCommand, DecodePacket, ReceiveFrame, SendFinalFrame, vars, peer
<1>5. CASE GiveUp(c) \/ ReturnOk(c) \/ Kill(c)
  BY <1>2, <1>5 DEF GiveUp, ReturnOk, Kill
<1>6. CASE SendMessagePrefix(c)
  <2>1. WritePrefix(c, request[c]) => sent'[d] = sent[d]
    BY <1>1 DEF WritePrefix, StreamTypeOK
  <2> QED
    BY <1>2, <1>6, <2>1 DEF SendMessagePrefix, vars, peer
<1>7. CASE SendMessageBody(c)
  BY <1>2, <1>7 DEF SendMessageBody, WriteBody, vars, peer
<1>8. CASE ReceiveMessage(c)
  BY <1>2, <1>8 DEF ReceiveMessage, Receive, vars, peer
<1>9. CASE LateReply(c) \/ NetworkFails(c)
  BY <1>9 DEF LateReply, NetworkFails, Reset
<1> QED
  BY <1>3, <1>4, <1>5, <1>6, <1>7, <1>8, <1>9 DEF ClientProgram, Environment

(* A client that stops where it is, or gives up, asks and reads no more.   *)
LEMMA EndsCall ==
  ASSUME ClientTypeInv, NEW c \in Conns, ReadInv(c), AskInv(c),
         cpc'[c] \in {"error", "killed", cpc[c]}, command' = command,
         UNCHANGED << request, asked, got, sent, out >>
  PROVE  ReadInv(c)' /\ AskInv(c)'
<1>1. ReadInv(c)'
  BY DEF ReadInv
<1>2. AskInv(c)'
  BY DEF AskInv
<1> QED
  BY <1>1, <1>2

(* Each step of a client keeps its own CallInv.                            *)
LEMMA OwnCall ==
  ASSUME ClientTypeInv, StreamInv, NEW c \in Conns, ReadInv(c), AskInv(c),
         ClientProgram(c) \/ Environment(c)
  PROVE  ReadInv(c)' /\ AskInv(c)'
<1>1. /\ cpc[c] \in ClientPc /\ asked[c] \in Nat /\ got[c] \in Nat
      /\ command[c] \in {"list", "image", "video"}
      /\ Len(out[c]) \in Nat
  BY OutTypes DEF ClientTypeInv, StreamInv
<1>2. command' = command /\ out' = out
  <2>1. command' = command
    BY DEF ClientProgram, ConnectClient, RunCommand, GiveUp, DecodePacket,
           ReceiveFrame, SendFinalFrame, SendMessagePrefix, SendMessageBody,
           ReceiveMessage, Receive, ReturnOk, Environment, Kill, LateReply,
           NetworkFails, clients
  <2> QED
    BY <2>1, ClientSteps, ClientQuiet
<1>3. ASSUME Exit(c, "error") \/ Exit(c, "killed"),
             UNCHANGED << request, asked, got >>
      PROVE  ReadInv(c)' /\ AskInv(c)'
  <2>1. sent' = sent
    BY <1>3, CloseStreamQuiet DEF Exit
  <2>2. cpc'[c] \in {"error", "killed"}
    BY <1>3 DEF Exit, Goto, ClientTypeInv
  <2> QED
    BY <1>2, <1>3, <2>1, <2>2, EndsCall
<1> USE DEF ClientTypeInv, Goto, Send, video, stream
<1>4. CASE ConnectClient(c)
  <2>1. /\ cpc[c] = "connect" /\ cpc'[c] = "run"
        /\ UNCHANGED << request, asked, got, sent >>
    BY <1>4 DEF ConnectClient, Connect, peer
  <2> QED
    BY <1>1, <1>2, <2>1 DEF ReadInv, AskInv
<1>5. CASE RunCommand(c)
  <2>1. /\ cpc[c] = "run" /\ UNCHANGED << asked, got, sent >>
        /\ \/ /\ command[c] # "video" /\ cpc'[c] = "sendPrefix"
              /\ request'[c] \in {ListRequest, ImageRequest}
           \/ /\ command[c] = "video" /\ cpc'[c] = "packet"
              /\ request'[c] = request[c]
    BY <1>5 DEF RunCommand, vars, peer
  <2>2. ReadInv(c)'
    BY <1>1, <1>2, <2>1 DEF ReadInv
  <2>3. AskInv(c)'
    BY <1>2, <2>1, ClientAssumption DEF AskInv, Requests
  <2> QED
    BY <2>2, <2>3
<1>6. CASE GiveUp(c) \/ Kill(c)
  BY <1>3, <1>6 DEF GiveUp, Kill
<1>7. CASE DecodePacket(c)
  <2>1. /\ cpc[c] = "packet" /\ cpc'[c] = "frame"
        /\ UNCHANGED << request, asked, got, sent >>
    BY <1>7 DEF DecodePacket, vars, peer
  <2> QED
    BY <1>1, <1>2, <2>1 DEF ReadInv, AskInv
<1>8. CASE ReceiveFrame(c)
  <2>1. /\ cpc[c] = "frame" /\ UNCHANGED << asked, got, sent >>
        /\ \/ cpc'[c] = "sendPrefix" /\ request'[c] = FrameRequest
           \/ cpc'[c] = "packet" /\ request'[c] = request[c]
    BY <1>8 DEF ReceiveFrame, vars, peer
  <2>2. ReadInv(c)'
    BY <1>1, <1>2, <2>1 DEF ReadInv
  <2>3. AskInv(c)'
    BY <1>2, <2>1 DEF AskInv, Requests
  <2> QED
    BY <2>2, <2>3
<1>9. CASE SendFinalFrame(c)
  <2>1. /\ cpc[c] = "packet" /\ cpc'[c] = "sendPrefix"
        /\ request'[c] = FinalFrame /\ UNCHANGED << asked, got, sent >>
    BY <1>9 DEF SendFinalFrame, vars, peer
  <2>2. ReadInv(c)'
    BY <1>1, <1>2, <2>1 DEF ReadInv
  <2>3. AskInv(c)'
    BY <1>2, <2>1 DEF AskInv, Requests
  <2> QED
    BY <2>2, <2>3
<1>10. CASE SendMessagePrefix(c)
  <2>1. CASE Exit(c, "error") /\ UNCHANGED asked
    BY <1>3, <1>10, <2>1 DEF SendMessagePrefix
  <2>2. CASE WritePrefix(c, request[c]) \/ UNCHANGED vars
    <3>1. CASE UNCHANGED asked
      BY <1>3, <1>10, <2>1, <3>1 DEF SendMessagePrefix
    <3>2. CASE asked' # asked
      <4>1. /\ cpc[c] = "sendPrefix" /\ cpc'[c] = "sendBody"
            /\ asked'[c] = asked[c] + 1 /\ UNCHANGED << request, got >>
        BY <1>10, <3>2 DEF SendMessagePrefix
      <4>2. ReadInv(c)'
        BY <1>1, <1>2, <4>1 DEF ReadInv
      <4>3. /\ Len(sent'[c]) <= Len(sent[c]) + 1 /\ Len(sent[c]) \in Nat
            /\ Len(sent'[c]) \in Nat
            /\ \A i \in 1 .. Len(sent'[c]) :
                 sent'[c][i].msg \in Requests
        <5>1. /\ sent \in [Conns -> Seq([msg : Messages, at : Nat])]
              /\ sent[c] \in Seq([msg : Messages, at : Nat])
              /\ Len(sent[c]) \in Nat /\ Len(wire[c]) \in Nat
              /\ request[c] \in Messages
          BY SentTypes DEF StreamInv, StreamTypeOK
        <5>2. CASE sent' = sent
          BY <5>1, <5>2 DEF AskInv
        <5>3. CASE WritePrefix(c, request[c])
          <6>1. PICK r : r = [msg |-> request[c], at |-> Len(wire[c])]
            OBVIOUS
          <6>2. r \in [msg : Messages, at : Nat]
            BY <5>1, <6>1
          <6>3. sent'[c] = Append(sent[c], r)
            BY <5>1, <5>3, <6>1 DEF WritePrefix
          <6>4. /\ Len(sent'[c]) = Len(sent[c]) + 1
                /\ \A i \in 1 .. Len(sent[c]) : sent'[c][i] = sent[c][i]
                /\ sent'[c][Len(sent[c]) + 1] = r
            BY <5>1, <6>2, <6>3, AppendSeq
          <6>5. r.msg \in Requests
            BY <6>1 DEF AskInv
          <6>6. ASSUME NEW i \in 1 .. Len(sent'[c])
                PROVE  sent'[c][i].msg \in Requests
            <7>1. CASE i = Len(sent[c]) + 1
              BY <6>4, <6>5, <7>1
            <7>2. CASE i # Len(sent[c]) + 1
              <8>1. i \in 1 .. Len(sent[c])
                BY <5>1, <6>4, <7>2
              <8> QED
                BY <6>4, <8>1 DEF AskInv
            <7> QED
              BY <7>1, <7>2
          <6> QED
            BY <5>1, <6>4, <6>6
        <5> QED
          BY <2>2, <5>2, <5>3 DEF vars, peer
      <4>4. AskInv(c)'
        <5>1. Len(sent[c]) <= asked[c]
          BY DEF AskInv
        <5>2. Len(sent'[c]) <= asked'[c]
          BY <1>1, <4>1, <4>3, <5>1
        <5> QED
          BY <1>2, <4>1, <4>3, <5>2 DEF AskInv
      <4> QED
        BY <4>2, <4>4
    <3> QED
      BY <3>1, <3>2
  <2> QED
    BY <1>10, <2>1, <2>2 DEF SendMessagePrefix
<1>11. CASE SendMessageBody(c)
  <2>1. CASE Exit(c, "error")
    BY <1>3, <1>11, <2>1 DEF SendMessageBody
  <2>2. CASE WriteBody(c) \/ UNCHANGED vars
    <3>1. sent' = sent /\ UNCHANGED << request, asked, got >>
      BY <1>11, <2>2 DEF SendMessageBody, WriteBody, vars, peer
    <3>2. CASE ~Exit(c, "error")
      <4>1. cpc[c] = "sendBody" /\ cpc'[c] = AfterSend(c)
        BY <1>11, <3>2 DEF SendMessageBody
      <4>2. /\ request[c] = FinalFrame => cpc'[c] = "drop" /\ command[c] = "video"
            /\ request[c] # FinalFrame => cpc'[c] = "receivePrefix"
        BY <4>1 DEF AfterSend, AskInv
      <4>3. ReadInv(c)'
        BY <1>1, <1>2, <3>1, <4>1, <4>2 DEF ReadInv
      <4>4. AskInv(c)'
        BY <1>2, <3>1, <4>2 DEF AskInv
      <4> QED
        BY <4>3, <4>4
    <3> QED
      BY <2>1, <3>2
  <2> QED
    BY <1>11, <2>1, <2>2 DEF SendMessageBody
<1>12. CASE ReceiveMessage(c)
  <2>1. CASE Exit(c, "error") /\ UNCHANGED got
    BY <1>3, <1>12, <2>1 DEF ReceiveMessage, Receive
  <2>2. CASE /\ got[c] < Len(out[c]) /\ got' = [got EXCEPT ![c] = @ + 1]
             /\ \/ cpc[c] = "receivePrefix" /\ Goto(c, "receiveBody")
                \/ cpc[c] = "receiveBody" /\ Goto(c, AfterReply(c))
             /\ UNCHANGED << vars, request, asked >>
    <3>1. /\ got'[c] = got[c] + 1 /\ got'[c] <= Len(out[c])
          /\ UNCHANGED << request, asked, sent >>
      BY <1>1, <2>2 DEF vars, peer
    <3>2. \/ cpc[c] = "receivePrefix" /\ cpc'[c] = "receiveBody"
          \/ /\ cpc[c] = "receiveBody"
             /\ cpc'[c] = IF command[c] = "video" THEN "frame" ELSE "drop"
      BY <2>2 DEF AfterReply
    <3>3. ReadInv(c)'
      BY <1>1, <1>2, <3>1, <3>2 DEF ReadInv
    <3>4. AskInv(c)'
      BY <1>2, <3>1, <3>2 DEF AskInv
    <3> QED
      BY <3>3, <3>4
  <2> QED
    BY <1>12, <2>1, <2>2 DEF ReceiveMessage, Receive
<1>13. CASE ReturnOk(c)
  <2>1. sent' = sent /\ UNCHANGED << request, asked, got >>
    BY <1>13, CloseStreamQuiet DEF ReturnOk, Exit
  <2>2. cpc[c] = "drop" /\ cpc'[c] = "ok"
    BY <1>13 DEF ReturnOk, Exit
  <2> QED
    BY <1>1, <1>2, <2>1, <2>2 DEF ReadInv, AskInv
<1>14. CASE LateReply(c) \/ NetworkFails(c)
  <2>1. UNCHANGED << cpc, request, asked, got, sent >>
    BY <1>14 DEF LateReply, NetworkFails, Reset, clients
  <2> QED
    BY <1>2, <2>1, EndsCall
<1> QED
  BY <1>4, <1>5, <1>6, <1>7, <1>8, <1>9, <1>10, <1>11, <1>12, <1>13, <1>14
  DEF ClientProgram, Environment

(* Every client reads what it asked for, no more and no less.              *)
THEOREM CallSafe == CastSpec => []CallInv
<1>1. ClientsInit => CallInv
  <2> SUFFICES ASSUME ClientsInit, NEW c \in Conns PROVE ReadInv(c) /\ AskInv(c)
    BY DEF CallInv
  <2>1. ReadInv(c)
    BY DEF ClientsInit, Init, ReadInv
  <2>2. AskInv(c)
    BY ClientAssumption DEF ClientsInit, Init, AskInv, Requests
  <2> QED
    BY <2>1, <2>2
<1>2. ClientTypeInv /\ IInv /\ StreamInv /\ RepliesParts /\ CallInv
        /\ [CastNext]_all => CallInv'
  <2> SUFFICES ASSUME ClientTypeInv, IInv, StreamInv, RepliesParts, CallInv,
                      [CastNext]_all
               PROVE  CallInv'
    OBVIOUS
  <2>1. CASE UNCHANGED all
    <3>1. UNCHANGED << cpc, command, request, asked, got, sent, out >>
      BY <2>1 DEF all, vars, clients, video, stream, peer, history
    <3> QED
      BY <3>1 DEF CallInv, ReadInv, AskInv
  <2>2. CASE Server
    <3>1. /\ UNCHANGED << cpc, command, request, asked, got, sent >>
          /\ \A c \in Conns : Len(out[c]) \in Nat /\ Len(out'[c]) \in Nat
                                /\ Len(out[c]) <= Len(out'[c])
      BY <2>2, ServerOut DEF Server, clients, stream
    <3>2. \A c \in Conns : got[c] \in Nat
      BY DEF ClientTypeInv
    <3>3. ASSUME NEW c \in Conns PROVE ReadInv(c)'
      BY <3>1, <3>2 DEF CallInv, ReadInv
    <3>4. ASSUME NEW c \in Conns PROVE AskInv(c)'
      BY <3>1 DEF CallInv, AskInv
    <3> QED
      BY <3>3, <3>4 DEF CallInv
  <2>3. ASSUME NEW c \in Conns, ClientProgram(c) \/ Environment(c)
        PROVE  CallInv'
    <3>1. ReadInv(c)' /\ AskInv(c)'
      BY <2>3, OwnCall DEF CallInv
    <3>2. ASSUME NEW d \in Conns, d # c PROVE ReadInv(d)' /\ AskInv(d)'
      <4>1. /\ cpc'[d] = cpc[d] /\ asked'[d] = asked[d] /\ got'[d] = got[d]
            /\ request'[d] = request[d] /\ sent'[d] = sent[d]
        BY <2>3, <3>2, OthersStay
      <4>2. out' = out
        BY <2>3, ClientSteps, ClientQuiet
      <4>3. command' = command
        BY <2>3 DEF ClientProgram, ConnectClient, RunCommand, GiveUp,
               DecodePacket, ReceiveFrame, SendFinalFrame, SendMessagePrefix,
               SendMessageBody, ReceiveMessage, Receive, ReturnOk, Environment,
               Kill, LateReply, NetworkFails, clients
      <4> QED
        BY <4>1, <4>2, <4>3 DEF CallInv, ReadInv, AskInv
    <3> QED
      BY <3>1, <3>2 DEF CallInv
  <2>4. CASE AllExited
    BY <2>1, <2>4 DEF AllExited
  <2> QED
    BY <2>1, <2>2, <2>3, <2>4 DEF CastNext
<1> QED
  BY <1>1, <1>2, ServerSafe, ClientTypeInvSafe, PTL DEF CastSpec

(* Every client is where its command can be, types included.               *)
THEOREM CastSafe == CastSpec => []CastInv
BY ClientTypeCorrect, CallSafe, PTL DEF CastInv

-----------------------------------------------------------------------------
(* What a client reads.                                                    *)

(* Halves of even and odd numbers.                                         *)
LEMMA Halves ==
  ASSUME NEW i \in Nat, NEW n \in Nat
  PROVE  /\ i + 1 = 2 * n => (i + 1) \div 2 = n /\ i % 2 = 1
         /\ i = 2 * n => (i + 1) \div 2 = n /\ i % 2 = 0
OBVIOUS

(* What was handled was sent.                                              *)
LEMMA LenTypes ==
  ASSUME FramesIntact, NEW c \in Conns, NEW j \in 1 .. Len(handled[c])
  PROVE  j \in 1 .. Len(sent[c])
BY DEF FramesIntact

(* No client sends what cannot be parsed: each message has its reply.      *)
LEMMA AllAnswerable ==
  ASSUME FramesIntact, CallInv, NEW c \in Conns, Len(handled[c]) \in Nat,
         NEW n \in 1 .. Len(handled[c])
  PROVE  Answerable(c, n) = n
<1>1. ASSUME NEW j \in 1 .. n PROVE handled[c][j] \notin Unparsable
  <2>1. j \in 1 .. Len(handled[c])
    OBVIOUS
  <2>2. handled[c][j] = sent[c][j].msg /\ Len(handled[c]) <= Len(sent[c])
    BY <2>1 DEF FramesIntact
  <2>3. sent[c][j].msg \in Requests
    <3>1. \A i \in 1 .. Len(sent[c]) : sent[c][i].msg \in Requests
      BY DEF CallInv, AskInv
    <3>2. CASE j \in 1 .. Len(sent[c])
      BY <3>1, <3>2
    <3> QED
      BY <2>1, <2>2, <3>2, LenTypes
  <2> QED
    BY <2>2, <2>3, ClientAssumption DEF Requests
<1>2. { j \in 1 .. n : handled[c][j] \notin Unparsable } = 1 .. n
  BY <1>1
<1>3. Cardinality(1 .. n) = n
  BY FS_Interval
<1> QED
  BY <1>2, <1>3 DEF Answerable

(* Part i of what a client is sent is of the reply to its request number   *)
(* (i + 1) \div 2, which was handled.                                      *)
LEMMA ReplyTo ==
  ASSUME StreamInv, SentInv, FramesIntact, CallInv,
         NEW c \in Conns, NEW i \in 1 .. Len(out[c])
  PROVE  /\ out[c][i] = [part |-> IF i % 2 = 1 THEN "prefix" ELSE "body",
                         re   |-> [from |-> c, n |-> (i + 1) \div 2]]
         /\ (i + 1) \div 2 \in 1 .. Len(handled[c])
<1>1. /\ out[c] \in Seq([part : Part, re : [from : Conns, n : Nat]])
      /\ Len(out[c]) \in Nat /\ Len(handled[c]) \in Nat
  BY OutTypes DEF StreamInv
<1>2. out[c][i] \in [part : Part, re : [from : Conns, n : Nat]]
  BY <1>1, SeqElement
<1>3. PICK n \in Nat : n = out[c][i].re.n
  BY <1>2
<1>4. i \in Nat
  BY <1>1
<1>5. Belongs(c, i, n)
  BY <1>3, <1>4 DEF SentInv
<1>6. n \in 1 .. Len(handled[c]) /\ Answerable(c, n) = (i + 1) \div 2
  BY <1>5 DEF Belongs
<1>7. n = (i + 1) \div 2
  BY <1>1, <1>6, AllAnswerable
<1>8. /\ out[c][i].part = IF i % 2 = 1 THEN "prefix" ELSE "body"
      /\ out[c][i].re.from = c
  BY <1>5 DEF Belongs
<1> QED
  BY <1>2, <1>3, <1>6, <1>7, <1>8

(* When a client reads: which part, and that its request was handled.      *)
LEMMA ReadStep ==
  ASSUME ClientTypeInv, StreamInv, SentInv, FramesIntact, CallInv,
         NEW c \in Conns, ClientProgram(c) \/ Environment(c), got'[c] # got[c]
  PROVE  /\ cpc[c] \in {"receivePrefix", "receiveBody"}
         /\ UNCHANGED << vars, asked >> /\ got' = [got EXCEPT ![c] = @ + 1]
         /\ cpc[c] = "receivePrefix" => cpc'[c] = "receiveBody"
         /\ cpc[c] = "receiveBody" => cpc'[c] \in {"frame", "drop"}
         /\ got[c] + 1 \in 1 .. Len(out[c])
         /\ asked[c] \in 1 .. Len(handled[c])
         /\ out[c][got[c] + 1] =
              [part |-> IF cpc[c] = "receivePrefix" THEN "prefix" ELSE "body",
               re   |-> [from |-> c, n |-> asked[c]]]
<1>1. ReceiveMessage(c)
  BY DEF ClientProgram, ConnectClient, RunCommand, GiveUp, DecodePacket,
         ReceiveFrame, SendFinalFrame, SendMessagePrefix, SendMessageBody,
         ReturnOk, Environment, Kill, LateReply, NetworkFails, clients, stream
<1>2. /\ cpc[c] \in {"receivePrefix", "receiveBody"}
      /\ got[c] < Len(out[c]) /\ UNCHANGED << vars, asked >>
      /\ got' = [got EXCEPT ![c] = @ + 1]
      /\ cpc[c] = "receivePrefix" => cpc'[c] = "receiveBody"
      /\ cpc[c] = "receiveBody" => cpc'[c] \in {"frame", "drop"}
  BY <1>1 DEF ReceiveMessage, Receive, Goto, AfterReply, ClientTypeInv
<1>3. /\ asked[c] \in Nat /\ got[c] \in Nat /\ Len(out[c]) \in Nat
      /\ Len(handled[c]) \in Nat
  BY OutTypes DEF ClientTypeInv, StreamInv
<1>4. PICK i \in Nat : i = got[c] + 1
  BY <1>3
<1>5. i \in 1 .. Len(out[c])
  BY <1>2, <1>3, <1>4
<1>6. /\ cpc[c] = "receivePrefix" => i + 1 = 2 * asked[c]
      /\ cpc[c] = "receiveBody" => i = 2 * asked[c]
  BY <1>3, <1>4 DEF CallInv, ReadInv
<1>7. /\ (i + 1) \div 2 = asked[c]
      /\ i % 2 = IF cpc[c] = "receivePrefix" THEN 1 ELSE 0
  BY <1>2, <1>3, <1>6, Halves
<1>8. /\ out[c][i] = [part |-> IF i % 2 = 1 THEN "prefix" ELSE "body",
                      re   |-> [from |-> c, n |-> (i + 1) \div 2]]
      /\ (i + 1) \div 2 \in 1 .. Len(handled[c])
  BY <1>5, ReplyTo
<1> QED
  BY <1>2, <1>3, <1>4, <1>5, <1>7, <1>8

(* Every client reads the reply to its latest request, in order and whole, *)
(* whatever the other clients, the network and Stop do.                    *)
THEOREM ReadsOwnReplySafe == CastSpec => ReadsOwnReply
<1>1. ClientTypeInv /\ StreamInv /\ RepliesParts /\ FramesIntact /\ CallInv
        /\ [CastNext]_all => [ReadsOwn]_all
  <2> SUFFICES ASSUME ClientTypeInv, StreamInv, RepliesParts, FramesIntact,
                      CallInv, [CastNext]_all, NEW c \in Conns, got'[c] # got[c]
               PROVE  out[c][got'[c]] =
                        [part |-> IF cpc[c] = "receivePrefix" THEN "prefix"
                                                              ELSE "body",
                         re   |-> [from |-> c, n |-> asked[c]]]
    BY DEF ReadsOwn
  <2>1. PICK d \in Conns : ClientProgram(d) \/ Environment(d)
    BY DEF CastNext, Server, AllExited, all, clients, stream
  <2>2. d = c
    BY <2>1, OthersStay
  <2>3. ClientProgram(c) \/ Environment(c)
    BY <2>1, <2>2
  <2>4. got'[c] = got[c] + 1
    BY <2>3, ReadStep DEF RepliesParts, ClientTypeInv
  <2> QED
    BY <2>3, <2>4, ReadStep DEF RepliesParts
<1> QED
  BY <1>1, ClientTypeInvSafe, ServerSafe, CallSafe, CastIsServer,
     FramesIntactSafe, PTL DEF ReadsOwnReply, CastSpec

-----------------------------------------------------------------------------
(* The calls are those of RemoteCalls.                                     *)

(* The refinement mapping of Calls, by name.                               *)
Performed == [c \in Conns |-> Len(handled[c])]
Returned  == [c \in Conns |-> got[c] \div 2]
Outcome   == [c \in Conns |->
                IF ~Ended(c) THEN "working"
                ELSE IF cpc[c] # "ok" THEN "failed"
                ELSE IF command[c] = "video" THEN "posted" ELSE "answered"]

(* What a step of client c can be: it ends, issues, reads a part, or none. *)
Ends(c) ==
  /\ ~Ended(c) /\ UNCHANGED << asked, got >>
  /\ \E r \in {"ok", "error", "killed"} :
       /\ cpc' = [cpc EXCEPT ![c] = r]
       /\ r = "ok" => cpc[c] = "drop"
Issues(c) ==
  /\ cpc[c] = "sendPrefix" /\ cpc' = [cpc EXCEPT ![c] = "sendBody"]
  /\ asked' = [asked EXCEPT ![c] = @ + 1] /\ got' = got
Goes(c) ==
  /\ ~Ended(c) /\ UNCHANGED << asked, got >>
  /\ \E r \in ClientPc \ {"ok", "error", "killed"} :
       cpc' = [cpc EXCEPT ![c] = r]
Reads(c) ==
  /\ got' = [got EXCEPT ![c] = @ + 1] /\ asked' = asked
  /\ \/ /\ cpc[c] = "receivePrefix" /\ cpc' = [cpc EXCEPT ![c] = "receiveBody"]
     \/ /\ cpc[c] = "receiveBody"
        /\ \E r \in {"frame", "drop"} : cpc' = [cpc EXCEPT ![c] = r]

(* Every step of client c or its environment is one of these.              *)
LEMMA ClientKinds ==
  ASSUME ClientTypeInv, NEW c \in Conns, ClientProgram(c) \/ Environment(c)
  PROVE  /\ command' = command
         /\ \/ Ends(c) \/ Issues(c) \/ Goes(c) \/ Reads(c)
            \/ UNCHANGED << cpc, asked, got >>
<1> USE DEF Goto, Exit, Send, video, stream, clients, Ended
<1>1. CASE ConnectClient(c)
  BY <1>1 DEF ConnectClient, Goes, ClientPc
<1>2. CASE RunCommand(c)
  BY <1>2 DEF RunCommand, Goes, ClientPc
<1>3. CASE GiveUp(c)
  BY <1>3 DEF GiveUp, Ends
<1>4. CASE DecodePacket(c) \/ ReceiveFrame(c) \/ SendFinalFrame(c)
  BY <1>4 DEF DecodePacket, ReceiveFrame, SendFinalFrame, Goes, ClientPc
<1>5. CASE SendMessagePrefix(c)
  BY <1>5 DEF SendMessagePrefix, Issues, Ends
<1>6. CASE SendMessageBody(c)
  BY <1>6 DEF SendMessageBody, AfterSend, Goes, Ends, ClientPc
<1>7. CASE ReceiveMessage(c)
  BY <1>7 DEF ReceiveMessage, Receive, AfterReply, Reads, Ends
<1>8. CASE ReturnOk(c)
  BY <1>8 DEF ReturnOk, Ends
<1>9. CASE Kill(c)
  BY <1>9 DEF Kill, Ends
<1>10. CASE LateReply(c) \/ NetworkFails(c)
  BY <1>10 DEF LateReply, NetworkFails
<1> QED
  BY <1>1, <1>2, <1>3, <1>4, <1>5, <1>6, <1>7, <1>8, <1>9, <1>10
  DEF ClientProgram, Environment

(* The listener performs a call: the request was issued, and is not        *)
(* performed twice.                                                        *)
LEMMA PerformStep ==
  ASSUME IInv, StreamInv, RepliesParts, FramesIntact', CallInv, ClientTypeInv,
         Server, handled' # handled
  PROVE  \E c \in Conns : Calls!Perform(c)
<1>1. ListenThread \/ Main \/ Interrupt
  BY DEF Server
<1>2. ParseMessage
  BY <1>1 DEF ListenThread, WhileRunning, AcceptClient, AcceptFails,
         AssignClient, InnerWhile, RecvBytes, RecvEnds, ParseWaits,
         HandleMessage, SendPrefix, SendBody, SendPart, CloseClient,
         ForgetClient, Main, Start, StartListens, StartThreadFails, StartFails,
         Serve, Stop, StopRunning, StopServerSocket, StopCheckClient,
         StopLoadClient, StopCloseClient, StopResetClient, StopJoin,
         StopCleanup, ShutdownProtobuf, Interrupt, history
<1>3. PICK c : c = newClient
  OBVIOUS
<1>4. c \in Conns
  BY <1>2, <1>3 DEF StreamInv, PendingInv, ParseMessage, Serving
<1>5. /\ handled[c] \in Seq(Seq(Byte)) /\ Len(handled[c]) \in Nat
      /\ \A d \in Conns : Len(handled[d]) \in Nat
  BY <1>4, OutTypes DEF StreamInv
<1>6. /\ handled' = [handled EXCEPT ![c] = Append(@, FirstMsg(pending))]
      /\ handled \in [Conns -> Seq(Seq(Byte))]
  BY <1>2, <1>3 DEF ParseMessage, StreamInv, StreamTypeOK
<1>7. Len(handled'[c]) = Len(handled[c]) + 1
  BY <1>4, <1>5, <1>6
<1>8. Len(handled'[c]) <= Len(sent[c])
  BY <1>1, <1>4, ServerOut DEF FramesIntact
<1>9. /\ asked[c] \in Nat /\ Len(sent[c]) <= asked[c] /\ Len(sent[c]) \in Nat
  BY <1>4, SentTypes DEF ClientTypeInv, CallInv, AskInv, StreamInv
<1>10. Len(handled[c]) < asked[c]
  BY <1>5, <1>7, <1>8, <1>9
<1>11. Performed' = [Performed EXCEPT ![c] = @ + 1]
  BY <1>4, <1>6, <1>7 DEF Performed
<1>12. Performed[c] < asked[c]
  BY <1>4, <1>10 DEF Performed
<1>13. UNCHANGED << asked, Returned, Outcome >>
  BY DEF Server, clients, stream, Returned, Outcome, Ended
<1> QED
  BY <1>4, <1>11, <1>12, <1>13 DEF Calls!Perform, Performed, Returned, Outcome

(* A step of a client.                                                     *)
LEMMA CallStep ==
  ASSUME StreamInv, SentInv, FramesIntact, CallInv, ClientTypeInv,
         NEW c \in Conns, ClientProgram(c) \/ Environment(c)
  PROVE  \/ Calls!Issue(c) \/ Calls!Return(c) \/ Calls!Finish(c) \/ Calls!Fail(c)
         \/ UNCHANGED Calls!vars
<1>1. handled' = handled /\ command' = command
  BY ClientSteps, ClientQuiet, ClientKinds
<1>2. Performed' = Performed
  BY <1>1 DEF Performed
<1>3. /\ cpc \in [Conns -> ClientPc] /\ asked[c] \in Nat /\ got[c] \in Nat
      /\ got \in [Conns -> Nat]
  BY DEF ClientTypeInv
<1>4. ReadInv(c)
  BY DEF CallInv
<1>5. ASSUME NEW r \in ClientPc, cpc' = [cpc EXCEPT ![c] = r]
      PROVE  Outcome' = [Outcome EXCEPT ![c] =
               IF r \notin {"ok", "error", "killed"} THEN "working"
               ELSE IF r # "ok" THEN "failed"
               ELSE IF command[c] = "video" THEN "posted" ELSE "answered"]
  BY <1>1, <1>3, <1>5 DEF Outcome, Ended
<1>6. ~Ended(c) => Outcome[c] = "working"
  BY DEF Outcome
<1>7. ASSUME NEW r \in ClientPc \ {"ok", "error", "killed"}, ~Ended(c),
             cpc' = [cpc EXCEPT ![c] = r]
      PROVE  Outcome' = Outcome
  <2>1. Outcome' = [Outcome EXCEPT ![c] = "working"]
    BY <1>5, <1>7
  <2>2. Outcome = [d \in Conns |-> Outcome[d]]
    BY DEF Outcome
  <2> QED
    BY <1>6, <1>7, <2>1, <2>2
<1>8. got' = got => Returned' = Returned
  BY DEF Returned
<1>9. CASE Ends(c)
  <2>1. PICK r \in {"ok", "error", "killed"} :
          cpc' = [cpc EXCEPT ![c] = r] /\ (r = "ok" => cpc[c] = "drop")
    BY <1>9 DEF Ends
  <2>2. Outcome[c] = "working" /\ UNCHANGED << asked, Performed, Returned >>
    BY <1>2, <1>6, <1>8, <1>9 DEF Ends
  <2>3. CASE r # "ok"
    <3>1. Outcome' = [Outcome EXCEPT ![c] = "failed"]
      BY <1>5, <2>1, <2>3 DEF ClientPc
    <3> QED
      BY <2>2, <3>1 DEF Calls!Fail, Performed, Returned, Outcome
  <2>4. CASE r = "ok"
    <3>1. Outcome' = [Outcome EXCEPT ![c] =
                        IF command[c] = "video" THEN "posted" ELSE "answered"]
      BY <1>5, <2>1, <2>4 DEF ClientPc
    <3>2. IF command[c] = "video" THEN got[c] + 2 = 2 * asked[c]
                                  ELSE got[c] = 2 * asked[c]
      BY <1>4, <2>1, <2>4 DEF ReadInv
    <3>3. Returned[c] = got[c] \div 2
      BY DEF Returned
    <3>4. IF command[c] = "video" THEN Returned[c] + 1 = asked[c]
                                  ELSE Returned[c] = asked[c]
      BY <1>3, <3>2, <3>3
    <3> QED
      BY <2>2, <3>1, <3>4 DEF Calls!Finish, Performed, Returned, Outcome
  <2> QED
    BY <2>3, <2>4
<1>10. CASE Issues(c)
  <2>1. Outcome' = Outcome /\ Outcome[c] = "working"
    BY <1>6, <1>7, <1>10 DEF Issues, Ended, ClientPc
  <2>2. Returned[c] = asked[c] /\ Returned' = Returned
    <3>1. got[c] = 2 * asked[c]
      BY <1>4, <1>10 DEF Issues, ReadInv
    <3>2. Returned[c] = got[c] \div 2
      BY DEF Returned
    <3>3. got[c] \div 2 = asked[c]
      BY <1>3, <3>1
    <3> QED
      BY <1>8, <1>10, <3>2, <3>3 DEF Issues
  <2>3. asked' = [asked EXCEPT ![c] = @ + 1]
    BY <1>10 DEF Issues
  <2> QED
    BY <1>2, <2>1, <2>2, <2>3 DEF Calls!Issue, Performed, Returned, Outcome
<1>11. CASE Goes(c)
  <2>1. Outcome' = Outcome
    BY <1>7, <1>11 DEF Goes
  <2>2. UNCHANGED << asked, Returned >>
    BY <1>8, <1>11 DEF Goes
  <2> QED
    BY <1>2, <2>1, <2>2 DEF Calls!vars, Performed, Returned, Outcome
<1>12. CASE Reads(c)
  <2>1. PICK r \in {"receiveBody", "frame", "drop"} :
             cpc' = [cpc EXCEPT ![c] = r]
    BY <1>12 DEF Reads
  <2>2. Outcome' = Outcome /\ Outcome[c] = "working" /\ asked' = asked
    BY <1>6, <1>7, <1>12, <2>1 DEF Reads, Ended, ClientPc
  <2>3. Returned[c] = got[c] \div 2 /\ Returned \in [Conns -> Int]
    BY <1>3 DEF Returned
  <2>4. Returned' = [Returned EXCEPT ![c] = (got[c] + 1) \div 2]
    BY <1>3, <1>12 DEF Reads, Returned
  <2>5. CASE cpc[c] = "receivePrefix"
    <3>1. got[c] + 2 = 2 * asked[c]
      BY <1>4, <2>5 DEF ReadInv
    <3>2. (got[c] + 1) \div 2 = got[c] \div 2
      BY <1>3, <3>1
    <3>3. Returned' = Returned
      BY <2>3, <2>4, <3>2
    <3> QED
      BY <1>2, <2>2, <3>3 DEF Calls!vars, Performed, Returned, Outcome
  <2>6. CASE cpc[c] = "receiveBody"
    <3>1. got[c] + 1 = 2 * asked[c]
      BY <1>4, <2>6 DEF ReadInv
    <3>2. (got[c] + 1) \div 2 = asked[c] /\ got[c] \div 2 = asked[c] - 1
      BY <1>3, <3>1
    <3>3. Returned' = [Returned EXCEPT ![c] = @ + 1]
      <4>1. (got[c] + 1) \div 2 = Returned[c] + 1
        BY <1>3, <2>3, <3>2
      <4> QED
        BY <2>4, <4>1
    <3>4. got'[c] # got[c]
      BY <1>3, <1>12 DEF Reads
    <3>5. asked[c] <= Performed[c] /\ Performed[c] \in Nat
      <4>1. asked[c] \in 1 .. Len(handled[c])
        BY <3>4, ReadStep
      <4>2. Len(handled[c]) \in Nat
        BY OutTypes DEF StreamInv
      <4> QED
        BY <4>1, <4>2 DEF Performed
    <3>6. Returned[c] < Performed[c]
      BY <1>3, <2>3, <3>2, <3>5
    <3> QED
      BY <1>2, <2>2, <3>3, <3>6 DEF Calls!Return, Performed, Returned, Outcome
  <2> QED
    BY <1>12, <2>5, <2>6 DEF Reads
<1>13. CASE UNCHANGED << cpc, asked, got >>
  <2>1. Outcome' = Outcome
    BY <1>1, <1>13 DEF Outcome, Ended
  <2> QED
    BY <1>2, <1>8, <1>13, <2>1 DEF Calls!vars, Performed, Returned, Outcome
<1> QED
  BY <1>9, <1>10, <1>11, <1>12, <1>13, ClientKinds

(* Every run of the clients and the server is one of calls that are        *)
(* performed at most once, and before they return.                         *)
THEOREM ImplementsCallsSafe == CastSpec => ImplementsCalls
<1>1. ClientsInit => Calls!Init
  <2> SUFFICES ASSUME ClientsInit PROVE Calls!Init
    OBVIOUS
  <2>1. \A c \in Conns : /\ asked[c] = 0 /\ got[c] = 0 /\ ~Ended(c)
                         /\ handled[c] = <<>>
    BY DEF ClientsInit, Init, Ended
  <2>2. asked = [c \in Conns |-> 0]
    BY DEF ClientsInit
  <2>3. Performed = [c \in Conns |-> 0]
    BY <2>1 DEF Performed
  <2>4. Returned = [c \in Conns |-> 0]
    BY <2>1 DEF Returned
  <2>5. Outcome = [c \in Conns |-> "working"]
    BY <2>1 DEF Outcome
  <2> QED
    BY <2>2, <2>3, <2>4, <2>5 DEF Calls!Init, Performed, Returned, Outcome
<1>2. ClientTypeInv /\ IInv /\ StreamInv /\ StreamInv' /\ RepliesParts
        /\ CallInv /\ [CastNext]_all => [Calls!Next]_(Calls!vars)
  <2> SUFFICES ASSUME ClientTypeInv, IInv, StreamInv, StreamInv', RepliesParts,
                      CallInv, [CastNext]_all
               PROVE  Calls!Next \/ UNCHANGED Calls!vars
    OBVIOUS
  <2>1. FramesIntact /\ FramesIntact' /\ SentInv
    BY DEF StreamInv, RepliesParts
  <2>2. CASE UNCHANGED clients /\ handled' = handled
    <3>1. UNCHANGED << asked, Performed, Returned, Outcome >>
      BY <2>2 DEF clients, stream, Performed, Returned, Outcome, Ended
    <3> QED
      BY <3>1 DEF Calls!vars, Performed, Returned, Outcome
  <2>3. CASE Server
    <3>1. CASE handled' # handled
      BY <2>1, <2>3, <3>1, PerformStep DEF Calls!Next
    <3> QED
      BY <2>2, <2>3, <3>1 DEF Server
  <2>4. CASE \E c \in Conns : ClientProgram(c) \/ Environment(c)
    BY <2>1, <2>4, CallStep DEF Calls!Next
  <2>5. CASE UNCHANGED all
    BY <2>2, <2>5 DEF all, vars, history
  <2> QED
    BY <2>3, <2>4, <2>5 DEF CastNext, AllExited
<1> QED
  BY <1>1, <1>2, ClientTypeInvSafe, ServerSafe, CallSafe, PTL
  DEF ImplementsCalls, Calls!Spec, CastSpec

-----------------------------------------------------------------------------
(* The server does not wait for a client that waits for it.                *)

(* Where the bytes of a client stand in its call: nothing it asked is left *)
(* to be written when it reads, nor when it is done.                       *)
Posted == {"receivePrefix", "receiveBody", "drop"}

AskedInv ==
  \A c \in Conns :
    ~Gone(c) => Len(sent[c]) = asked[c] /\ (cpc[c] \in Posted => ~BodyDue(c))

(* A connection that is gone does not come back.                           *)
LEMMA GoneStays ==
  ASSUME IInv, StreamInv, [Next]_vars, NEW c \in Conns, Gone(c)
  PROVE  Gone(c)'
<1>1. /\ conn \in [Conns -> {"new", "queued", "open", "closed"}]
      /\ fin \in [Conns -> {"up", "fin", "reset"}] /\ backlog \in Seq(Conns)
  BY DEF IInv, ControlTypeOK
<1> USE DEF Gone, sockets, peer
<1>2. CASE UNCHANGED << conn, fin >>
  BY <1>2
<1>3. CASE AcceptClient
  <2>1. 1 \in 1 .. Len(backlog) /\ Head(backlog) = backlog[1]
    BY <1>1, <1>3 DEF AcceptClient
  <2>2. conn[Head(backlog)] = "queued"
    BY <2>1 DEF StreamInv, QueueInv
  <2>3. /\ conn' = [conn EXCEPT ![Head(backlog)] = "open"] /\ fin' = fin
    BY <1>3 DEF AcceptClient
  <2> QED
    BY <1>1, <2>2, <2>3
<1>4. CASE AcceptFails \/ AssignClient \/ CloseClient \/ StopCloseClient
  <2>1. fin' = fin /\ (conn' = conn \/ \E s : Close(s))
    BY <1>4 DEF AcceptFails, AssignClient, CloseClient, StopCloseClient
  <2> QED
    BY <2>1 DEF Close
<1>5. CASE StopServerSocket
  BY <1>5 DEF StopServerSocket
<1>6. CASE Clients
  BY <1>1, <1>6 DEF Clients, Connect, WritePrefix, WriteBody, Hangup, Reset,
                    CanWrite
<1>7. CASE ListenThread /\ ~(AcceptClient \/ AcceptFails \/ AssignClient \/ CloseClient)
  BY <1>2, <1>7 DEF ListenThread, WhileRunning, InnerWhile, RecvBytes, RecvEnds,
         ParseMessage, ParseWaits, HandleMessage, SendPrefix, SendBody,
         SendPart, ForgetClient
<1>8. CASE (Main \/ Interrupt) /\ ~(StopCloseClient \/ StopServerSocket)
  BY <1>2, <1>8 DEF Main, Start, StartThreadFails, StartFails, StartListens,
         Serve, Stop, StopRunning, StopCheckClient, StopLoadClient,
         StopResetClient, StopJoin, StopCleanup, ShutdownProtobuf, Interrupt
<1>9. CASE UNCHANGED vars
  BY <1>2, <1>9 DEF vars
<1> QED
  BY <1>3, <1>4, <1>5, <1>6, <1>7, <1>8, <1>9 DEF Next, Exited, Main, Stop

(* The server writes nothing on the wire of a client.                      *)
LEMMA ServerWire ==
  ASSUME ListenThread \/ Main \/ Interrupt
  PROVE  UNCHANGED << sent, wire >>
BY DEF ListenThread, WhileRunning, AcceptClient, AcceptFails, AssignClient,
       InnerWhile, RecvBytes, RecvEnds, ParseMessage, ParseWaits,
       HandleMessage, SendPrefix, SendBody, SendPart, CloseClient,
       ForgetClient, Main, Start, StartThreadFails, StartFails, StartListens,
       Serve, Stop, StopRunning, StopServerSocket, StopCheckClient,
       StopLoadClient, StopCloseClient, StopResetClient, StopJoin,
       StopCleanup, ShutdownProtobuf, Interrupt, peer

(* Closing a connection writes nothing.                                    *)
LEMMA CloseStreamWire ==
  ASSUME NEW c \in Conns, CloseStream(c)
  PROVE  UNCHANGED << sent, wire >>
BY DEF CloseStream, Hangup, Reset, vars, peer

(* Nor does a step of client c on the wire of client d.                    *)
LEMMA OthersWire ==
  ASSUME StreamInv, NEW c \in Conns, NEW d \in Conns, d # c,
         ClientProgram(c) \/ Environment(c)
  PROVE  wire'[d] = wire[d]
<1>1. StreamTypeOK
  BY DEF StreamInv
<1>2. CloseStream(c) => wire' = wire
  BY CloseStreamWire
<1>3. ConnectClient(c) => wire' = wire
  BY DEF ConnectClient, Connect, peer
<1>4. RunCommand(c) \/ DecodePacket(c) \/ ReceiveFrame(c) \/ SendFinalFrame(c)
        => wire' = wire
  BY DEF RunCommand, DecodePacket, ReceiveFrame, SendFinalFrame, vars, peer
<1>5. GiveUp(c) \/ ReturnOk(c) \/ Kill(c) \/ ReceiveMessage(c) => wire' = wire
  BY <1>2 DEF GiveUp, ReturnOk, Kill, ReceiveMessage, Receive, Exit, vars, peer
<1>6. LateReply(c) \/ NetworkFails(c) => wire' = wire
  BY DEF LateReply, NetworkFails, Reset
<1>7. WritePrefix(c, request[c]) \/ WriteBody(c) => wire'[d] = wire[d]
  BY <1>1 DEF WritePrefix, WriteBody, StreamTypeOK
<1>8. SendMessagePrefix(c) \/ SendMessageBody(c) => wire'[d] = wire[d]
  BY <1>2, <1>7 DEF SendMessagePrefix, SendMessageBody, Exit, vars, peer
<1> QED
  BY <1>3, <1>4, <1>5, <1>6, <1>8 DEF ClientProgram, Environment

(* When its body is on the wire, nothing of a message is due.              *)
LEMMA BodyWritten ==
  ASSUME StreamInv, NEW c \in Conns, WriteBody(c)
  PROVE  sent' = sent /\ ~BodyDue(c)'
<1>1. StreamTypeOK
  BY DEF StreamInv
<1>2. /\ sent' = sent /\ BodyDue(c)
      /\ wire' = [wire EXCEPT ![c] = @ \o LastSent(c).msg]
  BY <1>1 DEF WriteBody
<1>3. Len(sent[c]) \in 1 .. Len(sent[c])
  BY <1>1, <1>2, SentTypes DEF BodyDue
<1>4. PICK m \in Seq(Byte), at \in Nat : m = LastSent(c).msg /\ at = LastSent(c).at
  BY <1>1, <1>3, SentTypes DEF LastSent
<1>5. m # <<>> /\ Len(wire[c]) = at + PrefixLen
  BY <1>2, <1>4 DEF BodyDue
<1>6. Len(m) \in Nat /\ Len(m) # 0
  BY <1>4, <1>5
<1>7. wire[c] \in Seq(Byte) /\ wire'[c] = wire[c] \o m
  BY <1>1, <1>2, <1>4 DEF StreamTypeOK
<1>8. Len(wire'[c]) = at + PrefixLen + Len(m)
  BY <1>5, <1>7, ConcatSeq
<1>9. LastSent(c)' = LastSent(c)
  BY <1>2 DEF LastSent
<1>10. Len(wire'[c]) # at + PrefixLen
  BY <1>4, <1>6, <1>8 DEF PrefixLen
<1> QED
  BY <1>2, <1>4, <1>9, <1>10 DEF BodyDue

(* Each step of a client keeps its own part of AskedInv.                   *)
LEMMA OwnAsked ==
  ASSUME ClientTypeInv, IInv, StreamInv, AskedInv, NEW c \in Conns,
         ClientProgram(c) \/ Environment(c), ~Gone(c)'
  PROVE  /\ Len(sent'[c]) = asked'[c]
         /\ cpc'[c] \in Posted => ~BodyDue(c)'
<1> USE DEF Posted
<1>2. [Next]_vars
  BY ClientSteps DEF Next
<1>3. ~Gone(c)
  BY <1>2, GoneStays
<1>4. Len(sent[c]) = asked[c] /\ (cpc[c] \in Posted => ~BodyDue(c))
  BY <1>3 DEF AskedInv
<1>5. UNCHANGED vars => BodyDue(c)' = BodyDue(c) /\ sent' = sent
  BY DEF vars, peer, BodyDue, LastSent
<1>6. ASSUME sent' = sent, asked'[c] = asked[c], cpc'[c] \notin Posted
      PROVE  Len(sent'[c]) = asked'[c] /\ (cpc'[c] \in Posted => ~BodyDue(c)')
  BY <1>4, <1>6
<1> USE DEF ClientTypeInv, Goto, video, stream, clients
<1>7. ASSUME Exit(c, "error") \/ Exit(c, "killed") \/ Exit(c, "ok"),
             asked' = asked
      PROVE  Len(sent'[c]) = asked'[c] /\ (cpc'[c] \in Posted => ~BodyDue(c)')
  BY <1>6, <1>7, CloseStreamQuiet DEF Exit
<1>8. CASE ConnectClient(c)
  BY <1>6, <1>8 DEF ConnectClient, Connect, peer
<1>9. CASE RunCommand(c) \/ DecodePacket(c) \/ ReceiveFrame(c) \/ SendFinalFrame(c)
  <2>1. sent' = sent /\ asked' = asked
    BY <1>5, <1>9 DEF RunCommand, DecodePacket, ReceiveFrame, SendFinalFrame
  <2>2. cpc'[c] \in {"sendPrefix", "packet", "frame"}
    BY <1>9 DEF RunCommand, DecodePacket, ReceiveFrame, SendFinalFrame, Send
  <2> QED
    BY <1>6, <2>1, <2>2
<1>10. CASE GiveUp(c) \/ ReturnOk(c) \/ Kill(c)
  BY <1>7, <1>10 DEF GiveUp, ReturnOk, Kill
<1>11. CASE SendMessagePrefix(c)
  <2>1. WritePrefix(c, request[c]) /\ asked'[c] = asked[c] + 1 /\ cpc'[c] = "sendBody"
    BY <1>3, <1>11 DEF SendMessagePrefix
  <2>2. sent' = [sent EXCEPT ![c] = Append(@, [msg |-> request[c], at |-> Len(wire[c])])]
    BY <2>1 DEF WritePrefix
  <2>3. /\ sent \in [Conns -> Seq([msg : Messages, at : Nat])]
        /\ Len(wire[c]) \in Nat /\ request[c] \in Messages
    BY SentTypes DEF StreamInv, StreamTypeOK
  <2>4. sent[c] \in Seq([msg : Messages, at : Nat])
        /\ [msg |-> request[c], at |-> Len(wire[c])] \in [msg : Messages, at : Nat]
    BY <2>3
  <2>5. Len(sent'[c]) = Len(sent[c]) + 1
    BY <2>2, <2>3, <2>4, AppendSeq
  <2> QED
    BY <1>4, <2>1, <2>5
<1>12. CASE SendMessageBody(c)
  <2>1. WriteBody(c) /\ asked' = asked
    BY <1>3, <1>12 DEF SendMessageBody
  <2> QED
    BY <1>4, <2>1, BodyWritten
<1>13. CASE ReceiveMessage(c)
  <2>1. cpc[c] \in Posted /\ asked' = asked
    BY <1>13 DEF ReceiveMessage, Receive
  <2>2. UNCHANGED vars \/ Exit(c, "error")
    BY <1>13 DEF ReceiveMessage, Receive
  <2> QED
    BY <1>4, <1>5, <1>7, <2>1, <2>2
<1>14. CASE LateReply(c) \/ NetworkFails(c)
  <2>1. UNCHANGED << sent, wire, asked, cpc >>
    BY <1>14 DEF LateReply, NetworkFails, Reset
  <2>2. BodyDue(c)' = BodyDue(c)
    BY <2>1 DEF BodyDue, LastSent
  <2> QED
    BY <1>4, <2>1, <2>2
<1> QED
  BY <1>8, <1>9, <1>10, <1>11, <1>12, <1>13, <1>14
  DEF ClientProgram, Environment

(* And so does every step of the composition.                              *)
LEMMA AskedStep ==
  ASSUME ClientTypeInv, IInv, StreamInv, RepliesParts, AskedInv, [CastNext]_all
  PROVE  AskedInv'
<1> SUFFICES ASSUME NEW c \in Conns, ~Gone(c)'
             PROVE  /\ Len(sent'[c]) = asked'[c]
                    /\ cpc'[c] \in Posted => ~BodyDue(c)'
  BY DEF AskedInv
<1>1. [Next]_vars
  BY CastStep
<1>2. ~Gone(c)
  BY <1>1, GoneStays
<1>3. ASSUME sent'[c] = sent[c], wire'[c] = wire[c], asked'[c] = asked[c],
             cpc'[c] = cpc[c]
      PROVE  /\ Len(sent'[c]) = asked'[c]
             /\ cpc'[c] \in Posted => ~BodyDue(c)'
  <2>1. BodyDue(c)' = BodyDue(c)
    BY <1>3 DEF BodyDue, LastSent
  <2> QED
    BY <1>2, <1>3, <2>1 DEF AskedInv
<1>4. CASE UNCHANGED all
  BY <1>3, <1>4 DEF all, vars, clients, stream, peer
<1>5. CASE Server
  BY <1>3, <1>5, ServerWire DEF Server, clients, stream
<1>6. CASE \E d \in Conns : ClientProgram(d) \/ Environment(d)
  <2>1. PICK d \in Conns : ClientProgram(d) \/ Environment(d)
    BY <1>6
  <2>2. CASE d = c
    BY <2>1, <2>2, OwnAsked
  <2>3. CASE d # c
    BY <1>3, <2>1, <2>3, OthersStay, OthersWire
  <2> QED
    BY <2>2, <2>3
<1> QED
  BY <1>4, <1>5, <1>6 DEF CastNext, AllExited

(* AskedInv holds in every run.                                            *)
LEMMA AskedSafe == CastSpec => []AskedInv
<1>1. ClientsInit => AskedInv
  BY DEF ClientsInit, Init, AskedInv, Posted
<1> QED
  BY <1>1, AskedStep, ClientTypeInvSafe, ServerSafe, PTL DEF CastSpec

(* What the listener has received of a client that has written all it      *)
(* asked, when there is one message more than it has handled: all of it.   *)
LEMMA LastMessageComplete ==
  ASSUME StreamInv, NEW c \in Conns, c = newClient, lpc \in Serving,
         ~BodyDue(c), Len(sent[c]) = Len(handled[c]) + 1, Unread(c) = 0
  PROVE  Complete(pending)
<1>1. StreamTypeOK /\ WireInv
  BY DEF StreamInv
<1>2. PICK h \in Nat : h = Len(handled[c])
  BY <1>1, HandledTypes
<1>3. h + 1 \in 1 .. Len(sent[c]) /\ sent[c] # <<>>
  BY <1>1, <1>2, SentTypes
<1>4. Len(wire[c]) = FrameEnd(c, h + 1)
  BY <1>1, <1>2, <1>3, WireComplete DEF WireInv
<1>5. rd[c] = Len(wire[c]) /\ rd[c] \in Nat
  BY <1>1, HandledTypes, SentTypes DEF Unread, StreamTypeOK
<1> QED
  BY <1>2, <1>3, <1>4, <1>5, ReceivedComplete

(* The server and a client never wait for each other.                      *)
THEOREM NoMutualWaitSafe == CastSpec => []NoMutualWait
<1>1. ClientTypeInv /\ IInv /\ StreamInv /\ RepliesParts /\ FramesIntact
        /\ CallInv /\ AskedInv /\ Drained => NoMutualWait
  <2> SUFFICES ASSUME ClientTypeInv, IInv, StreamInv, RepliesParts,
                      FramesIntact, CallInv, AskedInv, Drained, NEW c \in Conns,
                      cpc[c] \in {"receivePrefix", "receiveBody"},
                      got[c] = Len(out[c]), lpc = "recv", clientSocket = c,
                      Usable(c), Unread(c) = 0
               PROVE  FALSE
    BY DEF NoMutualWait
  <2>1. c = newClient /\ ~Gone(c) /\ lpc \in Serving
    BY SocketAssumption DEF IInv, ListenerInv, Usable, Gone, Serving
  <2>2. PICK h \in Nat : h = Len(handled[c])
    BY HandledTypes
  <2>3. Len(out[c]) = 2 * Answerable(c, h) + 0
    <3>1. h = Settled /\ lpc \in Serving \ {"close"} /\ lpc # "sendBody"
      BY <2>1, <2>2 DEF Settled, Replying, Serving
    <3> QED
      BY <2>1, <3>1 DEF RepliesParts, PointInv
  <2>4. Answerable(c, h) = h
    <3>1. h \in 1 .. Len(handled[c]) => Answerable(c, h) = h
      BY <2>2, AllAnswerable
    <3>2. h = 0 => Answerable(c, h) = 0
      <4>1. { j \in 1 .. 0 : handled[c][j] \notin Unparsable } = {}
        OBVIOUS
      <4> QED
        BY <4>1, FS_EmptySet DEF Answerable
    <3>3. h \in 1 .. Len(handled[c]) \/ h = 0
      BY <2>2
    <3> QED
      BY <3>1, <3>2, <3>3
  <2>5. asked[c] = h + 1
    <3>1. got[c] = 2 * h /\ asked[c] \in Nat
      BY <2>3, <2>4 DEF ClientTypeInv
    <3>2. \/ got[c] + 2 = 2 * asked[c]
          \/ got[c] + 1 = 2 * asked[c]
      BY DEF CallInv, ReadInv
    <3> QED
      BY <3>1, <3>2
  <2>6. Len(sent[c]) = Len(handled[c]) + 1 /\ ~BodyDue(c)
    BY <2>1, <2>2, <2>5 DEF AskedInv, Posted
  <2>7. Complete(pending)
    BY <2>1, <2>6, LastMessageComplete
  <2> QED
    BY <2>7 DEF Drained
<1>2. CastSpec => []Drained
  BY CastIsServer, DrainedSafe, PTL
<1>3. CastSpec => []FramesIntact
  BY CastIsServer, FramesIntactSafe, PTL
<1> QED
  BY <1>1, <1>2, <1>3, AskedSafe, CallSafe, ClientTypeInvSafe, ServerSafe, PTL
-----------------------------------------------------------------------------
(* A client's command comes to its end.                                    *)

(* How far from the end of the program a client at p with request r is.    *)
Place(p, r) == IF r = FinalFrame /\ p \in {"sendPrefix", "sendBody"}
                 THEN ToEnd[p] - 6 ELSE ToEnd[p]

(* The places in their order.                                              *)
LEMMA Places ==
  ASSUME NEW p \in ClientPc, NEW r
  PROVE  /\ Place(p, r) \in Nat
         /\ p \in {"ok", "error", "killed"} => Place(p, r) = 0
         /\ p \notin {"ok", "error", "killed"} => Place(p, r) > 0
         /\ p = "drop" => Place(p, r) = 1
         /\ p = "packet" => Place(p, r) = 4
         /\ p = "frame" => Place(p, r) = 5
         /\ p = "receiveBody" => Place(p, r) = 6
         /\ p = "receivePrefix" => Place(p, r) = 7
         /\ p = "sendBody" => Place(p, r) = IF r = FinalFrame THEN 2 ELSE 8
         /\ p = "sendPrefix" => Place(p, r) = IF r = FinalFrame THEN 3 ELSE 9
         /\ p = "run" => Place(p, r) = 10
         /\ p = "connect" => Place(p, r) = 11
BY DEF Place, ToEnd, ClientPc

(* A step that reads no packet and takes no frame out of the decoder is    *)
(* nearer when its place is.                                               *)
LEMMA PlaceNearer ==
  ASSUME ClientTypeInv, NEW c \in Conns, packets'[c] = packets[c],
         held'[c] = held[c], cpc'[c] \in ClientPc,
         Place(cpc'[c], request'[c]) < Place(cpc[c], request[c])
  PROVE  ToGo(c)' < ToGo(c)
<1>1. PICK p \in Nat, h \in Nat : p = packets[c] /\ h = held[c]
  BY DEF ClientTypeInv
<1>2. PICK x \in Nat, y \in Nat : /\ x = Place(cpc[c], request[c])
                                  /\ y = Place(cpc'[c], request'[c]) /\ y < x
  BY Places DEF ClientTypeInv
<1>3. ToGo(c) = 7 * p + 5 * h + x /\ ToGo(c)' = 7 * p + 5 * h + y
  BY <1>1, <1>2 DEF ToGo, Place, PostsFinal
<1> QED
  BY <1>1, <1>2, <1>3

(* A step of a client that does something brings it nearer to its end.     *)
LEMMA OwnNearer ==
  ASSUME ClientTypeInv, NEW c \in Conns, ClientProgram(c) \/ Kill(c)
  PROVE  ToGo(c)' < ToGo(c)
<1> USE DEF ClientTypeInv, Goto, Send, video, stream
<1>1. ASSUME Exit(c, "error") \/ Exit(c, "killed") \/ Exit(c, "ok"),
             ~Ended(c), UNCHANGED << packets, held >>
      PROVE  ToGo(c)' < ToGo(c)
  <2>1. /\ cpc'[c] \in {"ok", "error", "killed"} /\ cpc'[c] \in ClientPc
        /\ cpc[c] \notin {"ok", "error", "killed"} /\ cpc[c] \in ClientPc
    BY <1>1 DEF Exit, Ended, ClientPc
  <2>2. Place(cpc'[c], request'[c]) = 0 /\ Place(cpc[c], request[c]) > 0
    BY <2>1, Places
  <2> QED
    BY <1>1, <2>1, <2>2, PlaceNearer
<1>2. CASE ConnectClient(c)
  <2>1. /\ cpc[c] = "connect" /\ cpc'[c] = "run"
        /\ UNCHANGED << packets, held >>
    BY <1>2 DEF ConnectClient
  <2>2. Place(cpc'[c], request'[c]) = 10 /\ Place(cpc[c], request[c]) = 11
    BY <2>1, Places DEF ClientPc
  <2> QED
    BY <2>1, <2>2, PlaceNearer DEF ClientPc
<1>3. CASE RunCommand(c)
  <2>1. /\ cpc[c] = "run" /\ UNCHANGED << packets, held >>
        /\ \/ cpc'[c] = "sendPrefix" /\ request'[c] # FinalFrame
           \/ cpc'[c] = "packet"
    BY <1>3, ClientAssumption DEF RunCommand
  <2>2. /\ Place(cpc'[c], request'[c]) \in {4, 9}
        /\ Place(cpc[c], request[c]) = 10
    BY <2>1, Places DEF ClientPc
  <2> QED
    BY <2>1, <2>2, PlaceNearer DEF ClientPc
<1>4. CASE GiveUp(c) \/ Kill(c) \/ ReturnOk(c)
  BY <1>1, <1>4 DEF GiveUp, Kill, ReturnOk, Ended
<1>5. CASE DecodePacket(c)
  <2>1. /\ cpc[c] = "packet" /\ cpc'[c] = "frame" /\ packets[c] # 0
        /\ packets'[c] = packets[c] - 1 /\ held'[c] = held[c] + 1
    BY <1>5 DEF DecodePacket, EndOfFile
  <2>2. PICK p \in Nat, h \in Nat : p = packets[c] /\ h = held[c]
    OBVIOUS
  <2>3. ToGo(c) = 7 * p + 5 * h + 4 /\ ToGo(c)' = 7 * (p - 1) + 5 * (h + 1) + 5
    BY <2>1, <2>2 DEF ToGo, PostsFinal, ToEnd
  <2> QED
    BY <2>2, <2>3
<1>6. CASE ReceiveFrame(c)
  <2>1. CASE /\ held[c] > 0 /\ held'[c] = held[c] - 1 /\ packets' = packets
             /\ cpc[c] = "frame" /\ cpc'[c] = "sendPrefix"
             /\ request'[c] # FinalFrame
    <3>1. PICK p \in Nat, h \in Nat : p = packets[c] /\ h = held[c]
      OBVIOUS
    <3>2. ToGo(c) = 7 * p + 5 * h + 5 /\ ToGo(c)' = 7 * p + 5 * (h - 1) + 9
      BY <2>1, <3>1 DEF ToGo, PostsFinal, ToEnd
    <3> QED
      BY <3>1, <3>2
  <2>2. CASE /\ UNCHANGED << packets, held >>
             /\ cpc[c] = "frame" /\ cpc'[c] = "packet"
    <3>1. Place(cpc'[c], request'[c]) = 4 /\ Place(cpc[c], request[c]) = 5
      BY <2>2, Places DEF ClientPc
    <3> QED
      BY <2>2, <3>1, PlaceNearer DEF ClientPc
  <2> QED
    BY <1>6, <2>1, <2>2, ClientAssumption DEF ReceiveFrame
<1>7. CASE SendFinalFrame(c)
  <2>1. /\ cpc[c] = "packet" /\ cpc'[c] = "sendPrefix"
        /\ request'[c] = FinalFrame /\ UNCHANGED << packets, held >>
    BY <1>7 DEF SendFinalFrame
  <2>2. Place(cpc'[c], request'[c]) = 3 /\ Place(cpc[c], request[c]) = 4
    BY <2>1, Places DEF ClientPc
  <2> QED
    BY <2>1, <2>2, PlaceNearer DEF ClientPc
<1>8. CASE SendMessagePrefix(c)
  <2>1. /\ cpc[c] = "sendPrefix" /\ UNCHANGED << packets, held, request >>
        /\ cpc'[c] = "sendBody" \/ Exit(c, "error")
    BY <1>8 DEF SendMessagePrefix
  <2>2. CASE cpc'[c] = "sendBody"
    <3>1. Place(cpc'[c], request'[c]) < Place(cpc[c], request[c])
      BY <2>1, <2>2, Places DEF ClientPc
    <3> QED
      BY <2>1, <2>2, <3>1, PlaceNearer DEF ClientPc
  <2> QED
    BY <1>1, <2>1, <2>2 DEF Ended
<1>9. CASE SendMessageBody(c)
  <2>1. /\ cpc[c] = "sendBody" /\ UNCHANGED << packets, held, request >>
        /\ \/ cpc'[c] = "drop" /\ request[c] = FinalFrame
           \/ cpc'[c] = "receivePrefix" /\ request[c] # FinalFrame
           \/ Exit(c, "error")
    BY <1>9 DEF SendMessageBody, AfterSend
  <2>2. CASE \/ cpc'[c] = "drop" /\ request[c] = FinalFrame
             \/ cpc'[c] = "receivePrefix" /\ request[c] # FinalFrame
    <3>1. Place(cpc'[c], request'[c]) < Place(cpc[c], request[c])
      BY <2>1, <2>2, Places DEF ClientPc
    <3> QED
      BY <2>1, <2>2, <3>1, PlaceNearer DEF ClientPc
  <2> QED
    BY <1>1, <2>1, <2>2 DEF Ended
<1>10. CASE ReceiveMessage(c)
  <2>1. /\ UNCHANGED << packets, held, request >>
        /\ \/ cpc[c] = "receivePrefix" /\ cpc'[c] = "receiveBody"
           \/ cpc[c] = "receiveBody" /\ cpc'[c] \in {"frame", "drop"}
           \/ cpc[c] \in {"receivePrefix", "receiveBody"} /\ Exit(c, "error")
    BY <1>10 DEF ReceiveMessage, Receive, AfterReply
  <2>2. CASE \/ cpc[c] = "receivePrefix" /\ cpc'[c] = "receiveBody"
             \/ cpc[c] = "receiveBody" /\ cpc'[c] \in {"frame", "drop"}
    <3>1. Place(cpc'[c], request'[c]) < Place(cpc[c], request[c])
      BY <2>1, <2>2, Places DEF ClientPc
    <3> QED
      BY <2>1, <2>2, <3>1, PlaceNearer DEF ClientPc
  <2> QED
    BY <1>1, <2>1, <2>2 DEF Ended
<1> QED
  BY <1>2, <1>3, <1>4, <1>5, <1>6, <1>7, <1>8, <1>9, <1>10 DEF ClientProgram

(* Nor does a step of client c touch the file or the decoder of client d.  *)
LEMMA OthersVideo ==
  ASSUME ClientTypeInv, NEW c \in Conns, NEW d \in Conns, d # c,
         ClientProgram(c) \/ Environment(c)
  PROVE  packets'[d] = packets[d] /\ held'[d] = held[d]
BY DEF ClientTypeInv, ClientProgram, ConnectClient, RunCommand, GiveUp,
       DecodePacket, ReceiveFrame, SendFinalFrame, SendMessagePrefix,
       SendMessageBody, ReceiveMessage, Receive, ReturnOk, Environment, Kill,
       LateReply, NetworkFails, clients, video

(* A client takes at most ToGo(c) steps, whatever the others, the server   *)
(* and the network do.                                                     *)
THEOREM CommandNearerSafe == CastSpec => CommandNearer
<1>1. ClientTypeInv /\ StreamInv /\ [CastNext]_all =>
        [\A c \in Conns : UNCHANGED Own(c) \/ ToGo(c)' < ToGo(c)]_all
  <2> SUFFICES ASSUME ClientTypeInv, StreamInv, CastNext, NEW d \in Conns
               PROVE  UNCHANGED Own(d) \/ ToGo(d)' < ToGo(d)
    OBVIOUS
  <2>1. CASE UNCHANGED clients
    BY <2>1 DEF clients, video, stream, Own
  <2>2. ASSUME NEW c \in Conns, ClientProgram(c) \/ Environment(c), d # c
        PROVE  UNCHANGED Own(d)
    BY <2>2, OthersStay, OthersVideo DEF Own
  <2>3. CASE ClientProgram(d) \/ Kill(d)
    BY <2>3, OwnNearer
  <2>4. CASE LateReply(d) \/ NetworkFails(d)
    BY <2>4 DEF LateReply, NetworkFails, clients, video, stream, Own
  <2> QED
    BY <2>1, <2>2, <2>3, <2>4 DEF CastNext, Server, AllExited, all, Environment
<1>2. CastSpec => []StreamInv
  BY CastIsServer, StreamSafe, PTL
<1> QED
  BY <1>1, <1>2, ClientTypeInvSafe, PTL DEF CastSpec, CommandNearer

-----------------------------------------------------------------------------
(* What a client posted survives it.                                       *)

(* A client whose connection nobody broke, until the server is stopped:    *)
(* its connection is there as long as it runs, the listener turns away     *)
(* from it only when it has ended, and then with nothing left to handle.   *)
LiveInv(c) ==
  /\ cpc[c] = "connect" => conn[c] = "new" /\ fin[c] = "up"
  /\ cpc[c] # "connect" /\ ~Ended(c) =>
       conn[c] \in {"queued", "open"} /\ fin[c] = "up"
  /\ cpc[c] = "ok" => Delivered(c)
  /\ lpc = "close" /\ c = newClient =>
       Ended(c) /\ (cpc[c] = "ok" => Len(handled[c]) = asked[c])

PostInv ==
  mpc \in {"start", "serve"} => \A c \in Conns \ broken : LiveInv(c)

(* No more is handled than was asked.                                      *)
LEMMA HandledAsked ==
  ASSUME ClientTypeInv, StreamInv, CallInv, NEW c \in Conns
  PROVE  /\ Len(handled[c]) \in Nat /\ Len(sent[c]) \in Nat /\ asked[c] \in Nat
         /\ Len(handled[c]) <= Len(sent[c]) /\ Len(sent[c]) <= asked[c]
         /\ Len(handled[c]) <= asked[c]
BY HandledTypes, SentTypes DEF StreamInv, ClientTypeInv, CallInv, AskInv

(* A reply that a client leaves unread is that to its last request.        *)
LEMMA UnreadReply ==
  ASSUME ClientTypeInv, StreamInv, SentInv, CallInv, NEW c \in Conns,
         cpc[c] \in {"drop", "ok"}, got[c] < Len(out[c])
  PROVE  Len(handled[c]) = asked[c]
<1>1. /\ got[c] \in Nat /\ asked[c] \in Nat /\ Len(out[c]) \in Nat
      /\ Len(handled[c]) \in Nat /\ Len(handled[c]) <= asked[c]
  <2>1. Len(out[c]) \in Nat
    BY OutTypes DEF StreamInv
  <2>2. got[c] \in Nat
    BY DEF ClientTypeInv
  <2> QED
    BY <2>1, <2>2, HandledAsked
<1>2. PICK i \in Nat : i = got[c] + 1
  BY <1>1
<1>3. (i + 1) \div 2 \in 1 .. Len(handled[c])
  <2>1. i \in 1 .. Len(out[c])
    BY <1>1, <1>2
  <2> QED
    BY <2>1, ReplyTo DEF StreamInv
<1>4. i + 1 = 2 * asked[c] \/ i + 1 = 2 * (asked[c] + 1)
  BY <1>1, <1>2 DEF CallInv, ReadInv
<1>5. (i + 1) \div 2 >= asked[c]
  BY <1>1, <1>4
<1> QED
  BY <1>1, <1>3, <1>5

(* A client that is done has its last request on the wire.                 *)
LEMMA DropDelivered ==
  ASSUME ClientTypeInv, StreamInv, CallInv, AskedInv, NEW c \in Conns,
         cpc[c] = "drop", ~Gone(c)
  PROVE  Written(c, asked[c]) \/ Len(handled[c]) = asked[c]
<1>1. Len(sent[c]) = asked[c] /\ ~BodyDue(c)
  BY DEF AskedInv, Posted
<1>2. /\ Len(handled[c]) \in Nat /\ asked[c] \in Nat
      /\ Len(handled[c]) <= asked[c]
  BY HandledAsked
<1>3. CASE asked[c] = 0
  BY <1>2, <1>3
<1>4. CASE asked[c] # 0
  <2>1. asked[c] \in 1 .. Len(sent[c])
    BY <1>1, <1>2, <1>4
  <2> QED
    BY <1>1, <1>2, <2>1, WireComplete DEF Written
<1> QED
  BY <1>3, <1>4

(* A step that leaves connections and streams alone takes nothing away.    *)
LEMMA LiveStays ==
  ASSUME NEW c \in Conns, LiveInv(c), conn'[c] = conn[c], fin'[c] = fin[c],
         wire'[c] = wire[c], sent'[c] = sent[c], cpc'[c] = cpc[c],
         asked'[c] = asked[c],
         Len(handled[c]) = asked[c] => Len(handled'[c]) = asked[c],
         \/ lpc' # "close"
         \/ UNCHANGED << lpc, newClient >>
  PROVE  LiveInv(c)'
<1>1. Written(c, asked[c])' = Written(c, asked[c])
  BY DEF Written, FrameEnd
<1>2. Delivered(c) => Delivered(c)'
  BY <1>1 DEF Delivered
<1> QED
  BY <1>2 DEF LiveInv, Ended

(* What was handled to the last message stays so.                          *)
LEMMA DoneStays ==
  ASSUME IInv, StreamInv, RepliesParts, FramesIntact', CallInv, ClientTypeInv,
         Server, NEW c \in Conns, Len(handled[c]) = asked[c]
  PROVE  Len(handled'[c]) = asked[c]
<1>1. CASE handled' = handled
  BY <1>1
<1>2. CASE handled' # handled
  <2>1. PICK d \in Conns : Calls!Perform(d)
    BY <1>2, PerformStep
  <2>2. /\ Performed[d] < asked[d]
        /\ Performed' = [Performed EXCEPT ![d] = Performed[d] + 1]
    BY <2>1 DEF Calls!Perform, Performed
  <2>3. Len(handled[d]) < asked[d] /\ asked[c] \in Nat
    BY <2>2, HandledAsked DEF Performed
  <2>4. d # c
    BY <2>3
  <2>5. Performed'[c] = Performed[c]
    BY <2>2, <2>4 DEF Performed
  <2> QED
    BY <2>5 DEF Performed
<1> QED
  BY <1>1, <1>2

(* The listener closes no connection of a client that runs, and turns away *)
(* from none that has something left to handle.                            *)
LEMMA ListenerLive ==
  ASSUME IInv, StreamInv, RepliesParts, FramesIntact', CallInv, ClientTypeInv,
         ServeInv, ReceivedIsHandled, Server, ListenThread,
         mpc = "serve", NEW c \in Conns, LiveInv(c)
  PROVE  LiveInv(c)'
<1> USE DEF sockets, peer, main
<1>1. UNCHANGED << cpc, asked, wire, sent, fin >>
  BY ServerWire DEF Server, clients, stream, ListenThread, WhileRunning,
     AcceptClient, AcceptFails, AssignClient, InnerWhile, RecvBytes, RecvEnds,
     ParseMessage, ParseWaits, HandleMessage, SendPrefix, SendBody, SendPart,
     CloseClient, ForgetClient
<1>2. Len(handled[c]) = asked[c] => Len(handled'[c]) = asked[c]
  BY DoneStays
<1>3. ASSUME conn'[c] = conn[c], lpc' # "close" PROVE LiveInv(c)'
  BY <1>1, <1>2, <1>3, LiveStays
<1>4. CASE WhileRunning \/ ParseMessage \/ ParseWaits \/ HandleMessage
             \/ SendPrefix \/ SendBody \/ ForgetClient
             \/ \E n \in 1 .. BufSize : RecvBytes(n)
  <2>1. conn' = conn /\ lpc' # "close"
    BY <1>4 DEF WhileRunning, ParseMessage, ParseWaits, HandleMessage,
       SendPrefix, SendBody, SendPart, ForgetClient, RecvBytes
  <2> QED
    BY <1>3, <2>1
<1>5. CASE InnerWhile
  <2>1. running /\ clientSocket # NoSocket
    BY <1>5, SocketAssumption DEF InnerWhile, ServeInv, Serving, IInv,
       LifetimeInv
  <2> QED
    BY <1>3, <1>5, <2>1 DEF InnerWhile
<1>6. CASE AcceptClient
  <2>1. /\ conn' = [conn EXCEPT ![Head(backlog)] = "open"] /\ lpc' = "assign"
        /\ handled' = handled
    BY <1>6 DEF AcceptClient
  <2>2. CASE c # Head(backlog)
    BY <1>3, <2>1, <2>2 DEF IInv, ControlTypeOK
  <2>3. CASE c = Head(backlog)
    <3>1. conn[c] = "queued" /\ conn'[c] = "open"
      <4>1. 1 \in 1 .. Len(backlog) /\ Head(backlog) = backlog[1]
        BY <1>6 DEF AcceptClient, IInv, ControlTypeOK
      <4> QED
        BY <2>1, <2>3, <4>1 DEF StreamInv, QueueInv, IInv, ControlTypeOK
    <3>2. Written(c, asked[c])' = Written(c, asked[c])
      BY <1>1 DEF Written, FrameEnd
    <3>3. Delivered(c) => Delivered(c)'
      BY <1>1, <2>1, <3>1, <3>2 DEF Delivered
    <3> QED
      BY <1>1, <2>1, <3>1, <3>3 DEF LiveInv, Ended
  <2> QED
    BY <2>2, <2>3
<1>7. CASE AcceptFails
  <2>1. lpc' # "close" /\ handled' = handled
    BY <1>7 DEF AcceptFails, OnAcceptFailure, history
  <2>2. CASE conn'[c] = conn[c]
    BY <1>3, <2>1, <2>2
  <2>3. CASE conn'[c] # conn[c]
    <3>1. c = Head(backlog) /\ backlog # <<>> /\ fin[c] = "reset"
      BY <1>7, <2>3, CloseEffect DEF AcceptFails, IInv, ControlTypeOK
    <3>2. conn[c] = "queued"
      <4>1. 1 \in 1 .. Len(backlog) /\ Head(backlog) = backlog[1]
        BY <3>1 DEF IInv, ControlTypeOK
      <4> QED
        BY <3>1, <4>1 DEF StreamInv, QueueInv
    <3>3. Ended(c) /\ (cpc[c] = "ok" => Len(handled[c]) = asked[c])
      BY <3>1, <3>2 DEF LiveInv, Delivered
    <3> QED
      BY <1>1, <2>1, <3>3 DEF LiveInv, Ended, Delivered
  <2> QED
    BY <2>2, <2>3
<1>8. CASE AssignClient
  <2>1. clientSocket = NoSocket
    BY <1>8 DEF AssignClient, IInv, ListenerInv, Serving
  <2>2. conn'[c] = conn[c] /\ lpc' = "inner"
    BY <1>8, <2>1, SocketAssumption DEF AssignClient, Close
  <2> QED
    BY <1>3, <2>2
<1>9. CASE RecvEnds
  <2>1. /\ lpc = "recv" /\ lpc' = "close"
        /\ UNCHANGED << conn, handled, newClient >>
        /\ clientSocket = newClient /\ conn[newClient] = "open"
    BY <1>9 DEF RecvEnds, ServeInv, Serving, history
  <2>2. CASE c # newClient
    <3>1. Delivered(c) => Delivered(c)'
      <4>1. Written(c, asked[c])' = Written(c, asked[c])
        BY <1>1 DEF Written, FrameEnd
      <4> QED
        BY <1>1, <2>1, <4>1 DEF Delivered
    <3> QED
      BY <1>1, <2>1, <2>2, <3>1 DEF LiveInv, Ended
  <2>3. CASE c = newClient
    <3>1. /\ fin[c] # "up" /\ conn[c] = "open"
          /\ fin[c] # "reset" => Unread(c) = 0
      BY <1>9, <2>1, <2>3 DEF RecvEnds, Usable
    <3>2. Ended(c)
      BY <3>1 DEF LiveInv
    <3>3. cpc[c] = "ok" => Len(handled[c]) = asked[c]
      <4> SUFFICES ASSUME cpc[c] = "ok", Len(handled[c]) # asked[c]
                   PROVE  FALSE
        OBVIOUS
      <4>1. fin[c] # "reset" /\ Written(c, asked[c])
        BY DEF LiveInv, Delivered
      <4>2. PICK n \in Nat : n = Len(handled[c]) + 1
        BY HandledAsked
      <4>3. n <= asked[c] /\ Len(sent[c]) = asked[c] /\ asked[c] \in Nat
        BY <4>1, <4>2, HandledAsked DEF Written
      <4>4. rd[c] < FrameEnd(c, n)
        BY <2>1, <2>3, <4>2, <4>3 DEF ReceivedIsHandled
      <4>5. n \in 1 .. Len(sent[c])
        BY <4>2, <4>3, HandledAsked
      <4>6. Len(wire[c]) >= FrameEnd(c, n)
        <5>1. CASE n = asked[c]
          BY <4>1, <5>1 DEF Written
        <5>2. CASE n < asked[c]
          <6>1. FrameInv(c, n) /\ n < Len(sent[c])
            BY <4>3, <4>5, <5>2 DEF StreamInv, WireInv
          <6> QED
            BY <6>1 DEF FrameInv
        <5> QED
          BY <4>3, <5>1, <5>2
      <4>7. rd[c] \in Nat /\ Len(wire[c]) \in Nat /\ FrameEnd(c, n) \in Nat
        BY <4>5, HandledTypes, SentTypes DEF StreamInv
      <4>8. Len(wire[c]) - rd[c] = 0
        BY <3>1, <4>1 DEF Unread
      <4> QED
        BY <4>4, <4>6, <4>7, <4>8
    <3>4. Delivered(c) => Delivered(c)'
      <4>1. Written(c, asked[c])' = Written(c, asked[c])
        BY <1>1 DEF Written, FrameEnd
      <4> QED
        BY <1>1, <2>1, <4>1 DEF Delivered
    <3> QED
      BY <1>1, <2>1, <3>2, <3>3, <3>4 DEF LiveInv, Ended
  <2> QED
    BY <2>2, <2>3
<1>10. CASE CloseClient
  <2>1. /\ lpc = "close" /\ lpc' = "reset" /\ handled' = handled
        /\ clientSocket = newClient
    BY <1>10 DEF CloseClient, ServeInv, Serving, history
  <2>2. CASE c # newClient
    <3>1. conn'[c] = conn[c]
      BY <1>10, <2>1, <2>2, CloseEffect DEF CloseClient, IInv, ControlTypeOK
    <3> QED
      BY <1>3, <2>1, <3>1
  <2>3. CASE c = newClient
    <3>1. Ended(c) /\ (cpc[c] = "ok" => Len(handled[c]) = asked[c])
      BY <2>1, <2>3 DEF LiveInv
    <3> QED
      BY <1>1, <2>1, <3>1 DEF LiveInv, Ended, Delivered
  <2> QED
    BY <2>2, <2>3
<1> QED
  BY <1>4, <1>5, <1>6, <1>7, <1>8, <1>9, <1>10 DEF ListenThread

(* Until it stops the server, main closes nothing.                         *)
LEMMA MainLive ==
  ASSUME mpc \in {"start", "serve"}, mpc' \in {"start", "serve"}, Main \/ Interrupt
  PROVE  /\ UNCHANGED << conn, fin, wire, sent, handled, newClient >>
         /\ lpc' = lpc \/ lpc' = "while"
BY DEF Main, Start, StartThreadFails, StartFails, StartListens, Serve, Stop,
       StopRunning, StopServerSocket, StopCheckClient, StopLoadClient,
       StopCloseClient, StopResetClient, StopJoin, StopCleanup,
       ShutdownProtobuf, Interrupt, members, listener, sockets, peer, history

(* A step of the server keeps every LiveInv.                               *)
LEMMA ServerLive ==
  ASSUME IInv, StreamInv, RepliesParts, FramesIntact', CallInv, ClientTypeInv,
         ServeInv, ReceivedIsHandled, PostInv, Server
  PROVE  PostInv'
<1> SUFFICES ASSUME mpc' \in {"start", "serve"}, NEW c \in Conns, c \notin broken'
             PROVE  LiveInv(c)'
  BY DEF PostInv
<1>1. UNCHANGED << cpc, asked, broken >>
  BY DEF Server, clients, stream
<1>2. CASE ListenThread
  <2>1. mpc' = mpc /\ lpc # "none"
    BY <1>2 DEF ListenThread, WhileRunning, AcceptClient, AcceptFails,
       AssignClient, InnerWhile, RecvBytes, RecvEnds, ParseMessage, ParseWaits,
       HandleMessage, SendPrefix, SendBody, SendPart, CloseClient,
       ForgetClient, main
  <2>2. mpc = "serve" /\ LiveInv(c)
    BY <1>1, <2>1 DEF IInv, LifetimeInv, PostInv
  <2> QED
    BY <1>2, <2>2, ListenerLive
<1>3. CASE Main \/ Interrupt
  <2>1. mpc \in {"start", "serve"}
    BY <1>3 DEF Main, Start, StartThreadFails, StartFails, StartListens, Serve,
       Stop, StopRunning, StopServerSocket, StopCheckClient, AfterCheckClient,
       StopLoadClient, StopCloseClient, StopResetClient, StopJoin,
       StopCleanup, ShutdownProtobuf, Interrupt
  <2>2. /\ UNCHANGED << conn, fin, wire, sent, handled, newClient >>
        /\ lpc' = lpc \/ lpc' = "while"
    BY <1>3, <2>1, MainLive
  <2>3. LiveInv(c)
    BY <1>1, <2>1 DEF PostInv
  <2> QED
    BY <1>1, <2>2, <2>3, LiveStays
<1> QED
  BY <1>2, <1>3 DEF Server

(* A client's own steps: it runs on an open connection, and when it ends   *)
(* well the connection is closed in order, or its last call is handled.    *)
LEMMA OwnLive ==
  ASSUME ClientTypeInv, IInv, StreamInv, SentInv, CallInv, AskedInv,
         NEW c \in Conns, LiveInv(c), c \notin broken',
         ClientProgram(c) \/ Environment(c)
  PROVE  LiveInv(c)'
<1> USE DEF ClientTypeInv, Goto, Send
<1>0. /\ conn \in [Conns -> {"new", "queued", "open", "closed"}]
      /\ fin \in [Conns -> {"up", "fin", "reset"}]
  BY DEF IInv, ControlTypeOK
<1>1. UNCHANGED << handled, lpc, newClient >>
  BY ClientSteps, ClientQuiet
<1>2. ASSUME ~Ended(c), cpc'[c] \in {"error", "killed"}
      PROVE  LiveInv(c)'
  BY <1>1, <1>2 DEF LiveInv, Ended
<1>3. ASSUME ~Ended(c), cpc[c] # "connect", cpc'[c] \in ClientPc,
             cpc'[c] \notin {"connect", "ok", "error", "killed"},
             UNCHANGED << conn, fin >>
      PROVE  LiveInv(c)'
  BY <1>1, <1>3 DEF LiveInv, Ended
<1>4. CASE ConnectClient(c)
  BY <1>0, <1>1, <1>4 DEF ConnectClient, Connect, LiveInv, Ended, peer
<1>5. CASE RunCommand(c) \/ DecodePacket(c) \/ ReceiveFrame(c) \/ SendFinalFrame(c)
  <2>1. /\ cpc[c] \in {"run", "packet", "frame"}
        /\ cpc'[c] \in {"sendPrefix", "packet", "frame"}
        /\ UNCHANGED << conn, fin >>
    BY <1>5 DEF RunCommand, DecodePacket, ReceiveFrame, SendFinalFrame, vars,
       sockets, peer
  <2> QED
    BY <1>3, <2>1 DEF Ended, ClientPc
<1>6. CASE GiveUp(c) \/ Kill(c)
  BY <1>2, <1>6 DEF GiveUp, Kill, Exit, Ended
<1>7. CASE SendMessagePrefix(c) \/ SendMessageBody(c) \/ ReceiveMessage(c)
  <2>1. cpc[c] \in {"sendPrefix", "sendBody", "receivePrefix", "receiveBody"}
    BY <1>7 DEF SendMessagePrefix, SendMessageBody, ReceiveMessage, Receive
  <2>2. CASE Exit(c, "error")
    BY <1>2, <2>1, <2>2 DEF Exit, Ended
  <2>3. CASE ~Exit(c, "error")
    <3>1. /\ cpc'[c] \in {"sendBody", "receivePrefix", "receiveBody", "frame",
                          "drop"}
          /\ UNCHANGED << conn, fin >>
      BY <1>7, <2>3 DEF SendMessagePrefix, SendMessageBody, AfterSend,
         ReceiveMessage, Receive, AfterReply, WritePrefix, WriteBody, vars,
         sockets, peer
    <3> QED
      BY <1>3, <2>1, <3>1 DEF Ended, ClientPc
  <2> QED
    BY <2>2, <2>3
<1>8. CASE ReturnOk(c)
  <2>1. /\ cpc[c] = "drop" /\ cpc'[c] = "ok" /\ asked' = asked /\ CloseStream(c)
    BY <1>8 DEF ReturnOk, Exit, stream
  <2>2. /\ conn[c] \in {"queued", "open"} /\ fin[c] = "up"
        /\ ~(lpc = "close" /\ c = newClient)
    BY <2>1 DEF LiveInv, Ended
  <2>3. CASE Hangup(c)
    <3>1. Written(c, asked[c]) \/ Len(handled[c]) = asked[c]
      BY <2>1, <2>2, DropDelivered DEF Gone
    <3>2. /\ conn'[c] = conn[c] /\ fin'[c] = "fin" /\ UNCHANGED << wire, sent >>
      BY <1>0, <2>3 DEF Hangup, sockets
    <3>3. Written(c, asked[c])' = Written(c, asked[c])
      BY <2>1, <3>2 DEF Written, FrameEnd
    <3>4. Delivered(c)'
      BY <1>1, <2>1, <2>2, <3>1, <3>2, <3>3 DEF Delivered
    <3> QED
      BY <1>1, <2>1, <2>2, <3>4 DEF LiveInv, Ended
  <2>4. CASE got[c] < Len(out[c])
    <3>1. Len(handled'[c]) = asked'[c]
      BY <1>1, <2>1, <2>4, UnreadReply
    <3> QED
      BY <1>1, <2>1, <2>2, <3>1 DEF LiveInv, Delivered, Ended
  <2> QED
    BY <2>1, <2>2, <2>3, <2>4 DEF CloseStream, CanWrite
<1>9. CASE LateReply(c)
  <2>1. /\ Ended(c) /\ got[c] < Len(out[c]) /\ UNCHANGED << cpc, asked >>
    BY <1>9 DEF LateReply, clients, stream
  <2>2. cpc[c] = "ok" => Len(handled'[c]) = asked'[c]
    BY <1>1, <2>1, UnreadReply
  <2> QED
    BY <1>1, <2>1, <2>2 DEF LiveInv, Delivered, Ended
<1>10. CASE NetworkFails(c)
  BY <1>10 DEF NetworkFails
<1> QED
  BY <1>4, <1>5, <1>6, <1>7, <1>8, <1>9, <1>10 DEF ClientProgram, Environment

(* A step of client d does not reach the connection of client c.           *)
LEMMA OthersConn ==
  ASSUME IInv, StreamInv, NEW c \in Conns, NEW d \in Conns, d # c,
         ClientProgram(d) \/ Environment(d)
  PROVE  conn'[c] = conn[c] /\ fin'[c] = fin[c]
<1>0. /\ conn \in [Conns -> {"new", "queued", "open", "closed"}]
      /\ fin \in [Conns -> {"up", "fin", "reset"}]
  BY DEF IInv, ControlTypeOK
<1> USE DEF sockets, peer
<1>1. Hangup(d) \/ Reset(d) \/ Connect(d) \/ UNCHANGED vars =>
        conn'[c] = conn[c] /\ fin'[c] = fin[c]
  BY <1>0 DEF Hangup, Reset, Connect, vars
<1>2. CloseStream(d) => conn'[c] = conn[c] /\ fin'[c] = fin[c]
  BY <1>1 DEF CloseStream
<1>3. WritePrefix(d, request[d]) \/ WriteBody(d) => UNCHANGED << conn, fin >>
  BY DEF WritePrefix, WriteBody
<1> QED
  BY <1>1, <1>2, <1>3 DEF ClientProgram, ConnectClient, RunCommand, GiveUp,
     DecodePacket, ReceiveFrame, SendFinalFrame, SendMessagePrefix,
     SendMessageBody, ReceiveMessage, Receive, ReturnOk, Environment, Kill,
     LateReply, NetworkFails, Exit, vars

(* A step of a client keeps every LiveInv.                                 *)
LEMMA ClientLive ==
  ASSUME ClientTypeInv, IInv, StreamInv, SentInv, CallInv, AskedInv, PostInv,
         NEW d \in Conns, ClientProgram(d) \/ Environment(d)
  PROVE  PostInv'
<1> SUFFICES ASSUME mpc' \in {"start", "serve"}, NEW c \in Conns, c \notin broken'
             PROVE  LiveInv(c)'
  BY DEF PostInv
<1>1. UNCHANGED << mpc, handled, lpc, newClient >>
  <2>1. Clients \/ UNCHANGED vars
    BY ClientSteps
  <2> QED
    BY <2>1 DEF Clients, Connect, WritePrefix, WriteBody, Hangup, Reset, vars,
       main, listener, history
<1>2. broken \subseteq broken'
  BY DEF ClientProgram, ConnectClient, RunCommand, GiveUp, DecodePacket,
     ReceiveFrame, SendFinalFrame, SendMessagePrefix, SendMessageBody,
     ReceiveMessage, Receive, ReturnOk, Environment, Kill, LateReply,
     NetworkFails, clients
<1>3. LiveInv(c)
  BY <1>1, <1>2 DEF PostInv
<1>4. CASE d = c
  BY <1>3, <1>4, OwnLive
<1>5. CASE d # c
  <2>1. conn'[c] = conn[c] /\ fin'[c] = fin[c] /\ wire'[c] = wire[c]
    BY <1>5, OthersConn, OthersWire
  <2>2. /\ cpc'[c] = cpc[c] /\ asked'[c] = asked[c] /\ sent'[c] = sent[c]
    BY <1>5, OthersStay
  <2> QED
    BY <1>1, <1>3, <2>1, <2>2, LiveStays
<1> QED
  BY <1>4, <1>5

(* PostInv holds in every run.                                             *)
LEMMA PostSafe == CastSpec => []PostInv
<1>1. ClientsInit => PostInv
  BY DEF ClientsInit, Init, PostInv, LiveInv, Ended
<1>2. ClientTypeInv /\ IInv /\ StreamInv /\ RepliesParts /\ FramesIntact'
        /\ CallInv /\ AskedInv /\ ServeInv /\ ReceivedIsHandled /\ PostInv
        /\ [CastNext]_all => PostInv'
  <2> SUFFICES ASSUME ClientTypeInv, IInv, StreamInv, RepliesParts,
                      FramesIntact', CallInv, AskedInv, ServeInv,
                      ReceivedIsHandled, PostInv, [CastNext]_all
               PROVE  PostInv'
    OBVIOUS
  <2>1. CASE UNCHANGED all
    BY <2>1 DEF all, vars, clients, stream, sockets, peer, history, main,
       listener, PostInv, LiveInv, Ended, Delivered, Written, FrameEnd
  <2>2. CASE Server
    BY <2>2, ServerLive
  <2>3. CASE \E d \in Conns : ClientProgram(d) \/ Environment(d)
    BY <2>3, ClientLive DEF RepliesParts
  <2> QED
    BY <2>1, <2>2, <2>3 DEF CastNext, AllExited
<1>3. CastSpec => [](ServeInv /\ ReceivedIsHandled /\ FramesIntact)
  BY CastIsServer, ServeSafe, ReceivedIsHandledSafe, FramesIntactSafe, PTL
<1> QED
  BY <1>1, <1>2, <1>3, ServerSafe, ClientTypeInvSafe, CallSafe, AskedSafe, PTL
  DEF CastSpec

(* What a client that ended well has asked last is handled, or is still on *)
(* its way to the listener, whoever is served before it.                   *)
THEOREM PostedSurvivesSafe == CastSpec => []PostedSurvives
<1>1. PostInv => PostedSurvives
  BY DEF PostInv, PostedSurvives, LiveInv
<1> QED
  BY <1>1, PostSafe, PTL
=============================================================================
