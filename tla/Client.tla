------------------------------- MODULE Client -------------------------------
(***************************************************************************)
(* The client program (client/src: main.rs, network.rs, video.rs), any     *)
(* number of times, against the server.  A client runs one command over    *)
(* one connection: list and image are one request and its reply; a video   *)
(* is one request and reply per decoded frame and a final frame whose      *)
(* reply is not read.  What the clients do to the network are the          *)
(* environment actions of NetworkServer.                                   *)
(***************************************************************************)
EXTENDS NetworkServer

CONSTANTS
  ListRequest, ImageRequest, FrameRequest, FinalFrame,  (* their bytes     *)
  Commands,    (* bound: what the clients are started for                  *)
  MaxPackets,  (* bound: the packets of a video file                       *)
  MaxFaults    (* bound: clients killed, connections broken, Ctrl+C        *)

ASSUME ClientAssumption ==
  /\ {ListRequest, ImageRequest, FrameRequest, FinalFrame}
       \subseteq Messages \ (Unparsable \cup {<<>>})
  /\ FinalFrame \notin {ListRequest, ImageRequest, FrameRequest}
  /\ Commands \subseteq {"list", "image", "video"}
  /\ MaxPackets \in Nat /\ MaxFaults \in Nat

VARIABLES
  command,  (* Commands: list, image, video                                *)
  cpc,      (* where a client is, or how it ended: ok, error, killed       *)
  packets,  (* the packets of the video file not yet read                  *)
  held,     (* the frames inside the decoder                               *)
  request,  (* the argument of send_message                                *)
  asked,    (* the messages whose prefix the socket took                    *)
  got,      (* how many parts of replies (out) were read                   *)
  broken    (* history: the connections the network broke                  *)

video   == << packets, held >>
stream  == << request, asked, got >>
clients == << command, cpc, video, stream, broken >>
all     == << vars, clients >>

ClientsInit ==
  /\ Init
  /\ command \in [Conns -> Commands]
  /\ cpc = [c \in Conns |-> "connect"]
  /\ packets \in [Conns -> 0 .. MaxPackets]
  /\ \A c \in Conns : command[c] # "video" => packets[c] = 0
  /\ held = [c \in Conns |-> 0]
  /\ request = [c \in Conns |-> ListRequest]
  /\ asked = [c \in Conns |-> 0] /\ got = [c \in Conns |-> 0]
  /\ broken = {}

Goto(c, pc) == cpc' = [cpc EXCEPT ![c] = pc]

Ended(c) == cpc[c] \in {"ok", "error", "killed"}

(* The socket is dropped with the NetworkClient.  Replies that were not    *)
(* read make that a reset, unless they are still on their way.             *)
(* Mutant: the connection is always reset.                                 *)
AbortStream(c) == IF CanWrite(c) THEN Reset(c) ELSE UNCHANGED vars
CloseStream(c) ==
  IF CanWrite(c) THEN Hangup(c) \/ (Len(out[c]) > got[c] /\ Reset(c))
                 ELSE UNCHANGED vars

Exit(c, result) == CloseStream(c) /\ Goto(c, result)

-----------------------------------------------------------------------------
(* NetworkClient::connect, within its five seconds.                        *)
ConnectClient(c) ==
  /\ cpc[c] = "connect" /\ Connect(c)
  /\ Goto(c, "run")
  /\ UNCHANGED << command, video, stream, broken >>

Send(c, m) == request' = [request EXCEPT ![c] = m] /\ Goto(c, "sendPrefix")

(* The command's first request; a video opens its file and its decoder.    *)
RunCommand(c) ==
  /\ cpc[c] = "run"
  /\ \/ command[c] = "list" /\ Send(c, ListRequest)
     \/ command[c] = "image" /\ Send(c, ImageRequest)
     \/ command[c] = "video" /\ Goto(c, "packet") /\ UNCHANGED request
  /\ UNCHANGED << vars, command, video, asked, got, broken >>

(* No connection: refused or timed out.  Or a `?` between two messages: an *)
(* argument, the file, the decoder or a reply is not what it should be.    *)
GiveUp(c) ==
  /\ \/ cpc[c] = "connect"
     \/ cpc[c] \in {"run", "packet", "frame"} /\ command[c] # "list"
     \/ cpc[c] = "drop" /\ command[c] # "video"
  /\ Exit(c, "error")
  /\ UNCHANGED << command, video, stream, broken >>

-----------------------------------------------------------------------------
(* input.packets() has no next one.                                        *)
EndOfFile(c) == packets[c] = 0

(* send_packet                                                             *)
DecodePacket(c) ==
  /\ cpc[c] = "packet" /\ ~EndOfFile(c)
  /\ packets' = [packets EXCEPT ![c] = @ - 1]
  /\ held' = [held EXCEPT ![c] = @ + 1]
  /\ Goto(c, "frame")
  /\ UNCHANGED << vars, command, stream, broken >>

(* while receive_frame(..).is_ok(): the decoder gives a frame back when it *)
(* has one to give, which may be some packets later.                       *)
ReceiveFrame(c) ==
  /\ cpc[c] = "frame"
  /\ \/ /\ held[c] > 0
        /\ held' = [held EXCEPT ![c] = @ - 1]
        /\ Send(c, FrameRequest)
     \/ Goto(c, "packet") /\ UNCHANGED << held, request >>
  /\ UNCHANGED << vars, command, packets, asked, got, broken >>

(* The file is read to its end: the final, empty frame.                    *)
SendFinalFrame(c) ==
  /\ cpc[c] = "packet" /\ EndOfFile(c)
  /\ Send(c, FinalFrame)
  /\ UNCHANGED << vars, command, video, asked, got, broken >>

-----------------------------------------------------------------------------
(* The connection is no longer there, which a write may or may not notice. *)
Gone(c) == conn[c] = "closed" \/ fin[c] = "reset"

(* send_message: two write_all calls.                                      *)
SendMessagePrefix(c) ==
  /\ cpc[c] = "sendPrefix"
  /\ \/ /\ WritePrefix(c, request[c]) \/ (Gone(c) /\ UNCHANGED vars)
        /\ asked' = [asked EXCEPT ![c] = @ + 1]
        /\ Goto(c, "sendBody")
     \/ Gone(c) /\ Exit(c, "error") /\ UNCHANGED asked
  /\ UNCHANGED << command, video, request, got, broken >>

(* Mutant: a video sends its next frame without waiting for the reply.     *)
NoReplyAwaited(c) == IF request[c] = FinalFrame THEN "drop" ELSE "frame"
AfterSend(c) == IF request[c] = FinalFrame THEN "drop" ELSE "receivePrefix"

SendMessageBody(c) ==
  /\ cpc[c] = "sendBody"
  /\ \/ /\ WriteBody(c) \/ (Gone(c) /\ UNCHANGED vars)
        /\ Goto(c, AfterSend(c))
     \/ Gone(c) /\ Exit(c, "error")
  /\ UNCHANGED << command, video, stream, broken >>

(* read_exact of the next part of a reply.  What the server sent before it *)
(* closed can be read, unless a reset overtakes it.                        *)
Receive(c, pc, next) ==
  /\ cpc[c] = pc
  /\ \/ /\ got[c] < Len(out[c])
        /\ got' = [got EXCEPT ![c] = @ + 1]
        /\ Goto(c, next) /\ UNCHANGED vars
     \/ /\ Gone(c)
        /\ got[c] = Len(out[c]) \/ fin[c] = "reset" \/ Unread(c) > 0
        /\ Exit(c, "error") /\ UNCHANGED got
  /\ UNCHANGED << command, video, request, asked, broken >>

(* A list or an image is done; a video warns of a failure, sleeps and asks *)
(* the decoder for the next frame.  Mutant: the request is sent again.     *)
SendAgain(c) == IF command[c] = "video" THEN "frame" ELSE "run"
AfterReply(c) == IF command[c] = "video" THEN "frame" ELSE "drop"

(* Mutant: the length alone is taken for the reply.                        *)
ReceiveLength(c) == Receive(c, "receivePrefix", AfterReply(c))
ReceiveMessage(c) ==
  \/ Receive(c, "receivePrefix", "receiveBody")
  \/ Receive(c, "receiveBody", AfterReply(c))

(* main returns Ok: the process ends, with its connection.                 *)
ReturnOk(c) ==
  /\ cpc[c] = "drop"
  /\ Exit(c, "ok")
  /\ UNCHANGED << command, video, stream, broken >>

ClientProgram(c) ==
  \/ ConnectClient(c) \/ RunCommand(c) \/ GiveUp(c)
  \/ DecodePacket(c) \/ ReceiveFrame(c) \/ SendFinalFrame(c)
  \/ SendMessagePrefix(c) \/ SendMessageBody(c) \/ ReceiveMessage(c)
  \/ ReturnOk(c)

-----------------------------------------------------------------------------
(* What a client does not decide.                                          *)

Faults ==
  Cardinality(broken) + Cardinality({ c \in Conns : cpc[c] = "killed" })
    + IF gSignalStatus THEN 1 ELSE 0

Kill(c) ==
  /\ ~Ended(c) /\ Faults < MaxFaults
  /\ Exit(c, "killed")
  /\ UNCHANGED << command, video, stream, broken >>

(* A reply reaches a client that has closed its socket.                    *)
LateReply(c) ==
  /\ Ended(c) /\ got[c] < Len(out[c])
  /\ Reset(c)
  /\ UNCHANGED clients

NetworkFails(c) ==
  /\ Faults < MaxFaults
  /\ Reset(c)
  /\ broken' = broken \cup {c}
  /\ UNCHANGED << command, cpc, video, stream >>

Environment(c) == Kill(c) \/ LateReply(c) \/ NetworkFails(c)

(* Ctrl+C while clients run is a fault; the server is stopped at last.     *)
MayInterrupt == Faults < MaxFaults \/ \A c \in Conns : Ended(c)

Server ==
  /\ ListenThread \/ Main \/ (MayInterrupt /\ Interrupt)
  /\ UNCHANGED clients

AllExited ==
  /\ mpc = "exit" /\ \A c \in Conns : Ended(c)
  /\ UNCHANGED all

CastNext ==
  \/ Server
  \/ \E c \in Conns : ClientProgram(c) \/ Environment(c)
  \/ AllExited

CastSpec == ClientsInit /\ [][CastNext]_all

(* The server's threads and every client are scheduled; nobody is made to  *)
(* kill a client or to press Ctrl+C.                                       *)
FairCastSpec ==
  /\ CastSpec
  /\ WF_all(ListenThread /\ UNCHANGED clients)
  /\ WF_all(Main /\ UNCHANGED clients)
  /\ \A c \in Conns : WF_all(ClientProgram(c))

-----------------------------------------------------------------------------
(***************************************************************************)
(* Properties.                                                             *)
(***************************************************************************)
ClientPc == { "connect", "run", "packet", "frame", "sendPrefix", "sendBody",
              "receivePrefix", "receiveBody", "drop", "ok", "error", "killed" }

(* Every variable of the clients has its type.                             *)
ClientTypeOK ==
  /\ command \in [Conns -> {"list", "image", "video"}]
  /\ cpc \in [Conns -> ClientPc]
  /\ packets \in [Conns -> 0 .. MaxPackets]
  /\ held \in [Conns -> 0 .. MaxPackets]
  /\ request \in [Conns -> Messages]
  /\ asked \in [Conns -> Nat] /\ got \in [Conns -> Nat]
  /\ broken \subseteq Conns

Requests == {ListRequest, ImageRequest, FrameRequest, FinalFrame}

(* What a client has read of the replies to what it has asked.             *)
ReadInv(c) ==
  /\ cpc[c] \in {"connect", "run"} => asked[c] = 0 /\ got[c] = 0
  /\ cpc[c] \in {"packet", "frame", "sendPrefix"} => got[c] = 2 * asked[c]
  /\ cpc[c] \in {"sendBody", "receivePrefix"} => got[c] + 2 = 2 * asked[c]
  /\ cpc[c] = "receiveBody" => got[c] + 1 = 2 * asked[c]
  /\ cpc[c] \in {"drop", "ok"} =>
       IF command[c] = "video" THEN got[c] + 2 = 2 * asked[c]
                               ELSE got[c] = 2 * asked[c]
  /\ got[c] <= Len(out[c])

(* What it has asked, and what of it is on the wire.                       *)
AskInv(c) ==
  /\ request[c] \in Requests
  /\ cpc[c] \in {"packet", "frame"} => command[c] = "video"
  /\ command[c] # "video" => request[c] # FinalFrame
  /\ Len(sent[c]) <= asked[c]
  /\ \A i \in 1 .. Len(sent[c]) : sent[c][i].msg \in Requests

(* Every client has read whole replies between its calls, as many as it    *)
(* has called, and asks for nothing the server could not parse.            *)
CallInv == \A c \in Conns : ReadInv(c) /\ AskInv(c)

(* Where every client is, types included.                                  *)
CastInv == ClientTypeOK /\ CallInv

(* What a client reads is a part of the reply to its latest request,       *)
(* although a reply names no request: the prefix first, then the body.     *)
ReadsOwn ==
  \A c \in Conns : got'[c] # got[c] =>
    out[c][got'[c]] =
      [part |-> IF cpc[c] = "receivePrefix" THEN "prefix" ELSE "body",
       re   |-> [from |-> c, n |-> asked[c]]]
ReadsOwnReply == [][ReadsOwn]_all

(* The server never waits for the bytes of a client that waits for the     *)
(* bytes of the server: neither side has a timeout.                        *)
NoMutualWait ==
  \A c \in Conns :
    ~ /\ cpc[c] \in {"receivePrefix", "receiveBody"} /\ got[c] = Len(out[c])
      /\ lpc = "recv" /\ clientSocket = c
      /\ Usable(c) /\ Unread(c) = 0

(* An upper bound on the steps of a client's command that are left: seven  *)
(* for a packet not read, five for a frame in the decoder, and those from  *)
(* where it is to its end, six fewer when no reply will be read.           *)
ToEnd == [ ok |-> 0, error |-> 0, killed |-> 0, drop |-> 1, packet |-> 4,
           frame |-> 5, receiveBody |-> 6, receivePrefix |-> 7,
           sendBody |-> 8, sendPrefix |-> 9, run |-> 10, connect |-> 11 ]
PostsFinal(c) == request[c] = FinalFrame /\ cpc[c] \in {"sendPrefix", "sendBody"}
ToGo(c) == 7 * packets[c] + 5 * held[c]
             + IF PostsFinal(c) THEN ToEnd[cpc[c]] - 6 ELSE ToEnd[cpc[c]]

(* What only a client itself changes.                                      *)
Own(c) == << cpc[c], packets[c], held[c], request[c], asked[c], got[c] >>

(* Every step of a client brings its command nearer to the end, and no     *)
(* step of another client, of the server or of the network moves it: how   *)
(* often it calls depends on its file alone, whatever is answered.         *)
CommandNearer ==
  [][\A c \in Conns : UNCHANGED Own(c) \/ ToGo(c)' < ToGo(c)]_all

(* The calls of all clients, over one connection each, through a server    *)
(* that stops at any moment, are what RemoteCalls promises.                *)
Calls == INSTANCE RemoteCalls WITH
  Callers   <- Conns,
  issued    <- asked,
  performed <- [c \in Conns |-> Len(handled[c])],
  returned  <- [c \in Conns |-> got[c] \div 2],
  outcome   <- [c \in Conns |->
                  IF ~Ended(c) THEN "working"
                  ELSE IF cpc[c] # "ok" THEN "failed"
                  ELSE IF command[c] = "video" THEN "posted" ELSE "answered"]

ImplementsCalls == Calls!Spec

(* A client that was started ends: none waits for ever for a reply, though *)
(* it has no timeout for it, and though others are served before it.       *)
ClientsFinish == \A c \in Conns : <>Ended(c)

(* The last frame of a video, whose reply is not awaited and which is on   *)
(* its way when the client is gone, is handled nevertheless, unless the    *)
(* server stops or the network fails.                                      *)
PostedIsHandled ==
  \A c \in Conns :
    cpc[c] = "ok" ~> \/ Len(handled[c]) = asked[c]
                     \/ mpc # "serve" \/ gSignalStatus \/ c \in broken

(* What a client asked last is handled, or wholly on its way on a          *)
(* connection that is still there.                                         *)
Delivered(c) ==
  \/ Len(handled[c]) = asked[c]
  \/ /\ conn[c] \in {"queued", "open"} /\ fin[c] # "reset"
     /\ Written(c, asked[c])

(* A client that ended well may be gone before the server has read its     *)
(* last frame, but nothing can overtake that frame: not the reset that the *)
(* reply nobody reads gives rise to, nor the listener's close.             *)
PostedSurvives ==
  \A c \in Conns :
    cpc[c] = "ok" /\ c \notin broken /\ mpc = "serve" => Delivered(c)

(* "Read and process each frame" (client/src/video.rs): when the client    *)
(* ends well, no frame of its video was left behind in the decoder.        *)
EachFrameProcessed ==
  \A c \in Conns : cpc[c] = "ok" => held[c] = 0
=============================================================================
