---------------------------- MODULE NetworkServer ----------------------------
(***************************************************************************)
(* Server/network_server.cpp under its two threads: main (Server.cpp),     *)
(* which calls Start, waits for Ctrl+C, calls Stop, and calls Stop again   *)
(* from the destructor; and the listener (ListenThread), which accepts one *)
(* client at a time, cuts its byte stream into messages, hands each to the *)
(* message handler and sends the reply.                                    *)
(*                                                                         *)
(* running and clientSocket are plain members that both threads read and   *)
(* write without a lock.  The project builds with optimisation disabled    *)
(* and every access is separated from the next by a system call or a       *)
(* stream write, so an access is one atomic load or store, and a step of   *)
(* the model has at most one access whose result the other thread can      *)
(* change.  Reads of clientSocket that feed a socket call at once are one  *)
(* step with the call: the only store the other thread makes is            *)
(* INVALID_SOCKET, after closing that same socket.                         *)
(***************************************************************************)
EXTENDS Framing, FiniteSets

CONSTANTS
  Conns,       (* the connections clients may open, each with its socket   *)
  NoSocket,    (* INVALID_SOCKET                                           *)
  Messages,    (* the bodies a client may send                             *)
  Unparsable,  (* those ParseFromString rejects                            *)
  MaxSent,     (* bound: messages all clients together start to send       *)
  BufSize      (* the size of recv's buffer                                *)

ASSUME SocketAssumption == NoSocket \notin Conns
ASSUME MessageAssumption == /\ \A m \in Messages : m \in Seq(Byte) /\ Fits(m)
                            /\ Unparsable \subseteq Messages
ASSUME BoundAssumption == MaxSent \in Nat /\ BufSize \in Nat \ {0}

VARIABLES
  running,       (* NetworkServer::running                                 *)
  listening,     (* serverSocket # INVALID_SOCKET                          *)
  clientSocket,  (* NetworkServer::clientSocket                            *)
  lpc,           (* where the listener thread is                           *)
  newClient,     (* its local: the socket accept returned last             *)
  pending,       (* its local: bytes received and not yet consumed         *)
  mpc,           (* where the main thread is                               *)
  marg,          (* the argument of main's closesocket call                *)
  stopper,       (* who calls Stop: "main", or "dtor" for ~NetworkServer   *)
  gSignalStatus, (* Ctrl+C was pressed                                     *)
  wsa,           (* Winsock's reference count                              *)
  conn,          (* a connection at the server: new, queued, open, closed  *)
  backlog,       (* established connections that accept has not returned   *)
  fin,           (* the client's end: up, fin (closed), reset              *)
  wire,          (* every byte the client has written                      *)
  rd,            (* how many of them recv has returned                     *)
  sent,          (* history: the messages in wire, and where each begins   *)
  accepted,      (* history: what accept returned, in order                *)
  handled,       (* history: what the handler was called with              *)
  out            (* history: the sends that succeeded on a connection      *)

members  == << running, listening, clientSocket >>
listener == << lpc, newClient, pending >>
main     == << mpc, marg, stopper, gSignalStatus, wsa >>
sockets  == << conn, backlog >>
peer     == << fin, wire, sent >>
history  == << accepted, handled, out >>
vars     == << members, listener, main, sockets, peer, rd, history >>

Init ==
  /\ running = FALSE /\ listening = FALSE /\ clientSocket = NoSocket
  /\ lpc = "none" /\ newClient = NoSocket /\ pending = <<>>
  /\ mpc = "start" /\ marg = NoSocket /\ stopper = "main"
  /\ gSignalStatus = FALSE /\ wsa = 0
  /\ conn = [c \in Conns |-> "new"] /\ backlog = <<>>
  /\ fin = [c \in Conns |-> "up"]
  /\ wire = [c \in Conns |-> <<>>] /\ sent = [c \in Conns |-> <<>>]
  /\ rd = [c \in Conns |-> 0]
  /\ accepted = <<>>
  /\ handled = [c \in Conns |-> <<>>] /\ out = [c \in Conns |-> <<>>]

-----------------------------------------------------------------------------
(* The clients and the network, which the program does not control.        *)

Connect(c) ==
  /\ conn[c] = "new" /\ listening
  /\ conn' = [conn EXCEPT ![c] = "queued"]
  /\ backlog' = Append(backlog, c)
  /\ UNCHANGED << members, listener, main, peer, rd, history >>

CanWrite(c) == conn[c] \in {"queued", "open"} /\ fin[c] = "up"

LastSent(c) == sent[c][Len(sent[c])]

(* The prefix of the last message is written and its body is not.          *)
BodyDue(c) ==
  /\ sent[c] # <<>>
  /\ Len(wire[c]) = LastSent(c).at + PrefixLen
  /\ LastSent(c).msg # <<>>

(* send_message writes the prefix and the body in two calls; the client    *)
(* can die between them.  It may also send the next message before the     *)
(* reply to the last one.                                                  *)
WritePrefix(c, m) ==
  /\ CanWrite(c) /\ ~BodyDue(c)
  /\ Cardinality(UNION { {d} \X DOMAIN sent[d] : d \in Conns }) < MaxSent
  /\ wire' = [wire EXCEPT ![c] = @ \o LenPrefix(Len(m))]
  /\ sent' = [sent EXCEPT ![c] = Append(@, [msg |-> m, at |-> Len(wire[c])])]
  /\ UNCHANGED << members, listener, main, sockets, fin, rd, history >>

WriteBody(c) ==
  /\ CanWrite(c) /\ BodyDue(c)
  /\ wire' = [wire EXCEPT ![c] = @ \o LastSent(c).msg]
  /\ UNCHANGED << members, listener, main, sockets, fin, sent, rd, history >>

(* The client closes its end, or dies: what it wrote still arrives.        *)
Hangup(c) ==
  /\ CanWrite(c)
  /\ fin' = [fin EXCEPT ![c] = "fin"]
  /\ UNCHANGED << members, listener, main, sockets, wire, sent, rd, history >>

(* The connection is reset: a client that closes with a reply unread (the  *)
(* video client does), or a network failure.                               *)
Reset(c) ==
  /\ conn[c] \in {"queued", "open"} /\ fin[c] # "reset"
  /\ fin' = [fin EXCEPT ![c] = "reset"]
  /\ UNCHANGED << members, listener, main, sockets, wire, sent, rd, history >>

Interrupt ==
  /\ ~gSignalStatus
  /\ gSignalStatus' = TRUE
  /\ UNCHANGED << members, listener, mpc, marg, stopper, wsa, sockets, peer,
                  rd, history >>

-----------------------------------------------------------------------------
(* closesocket: closing INVALID_SOCKET or a closed socket has no effect.   *)
Close(s) == conn' = [c \in Conns |-> IF c = s THEN "closed" ELSE conn[c]]

(* ListenThread.  while (running)                                          *)
WhileRunning ==
  /\ lpc = "while"
  /\ lpc' = IF running THEN "accept" ELSE "done"
  /\ UNCHANGED << members, newClient, pending, main, sockets, peer, rd,
                  history >>

AcceptClient ==
  /\ lpc = "accept" /\ listening /\ backlog # <<>>
  /\ newClient' = Head(backlog)
  /\ backlog' = Tail(backlog)
  /\ conn' = [conn EXCEPT ![Head(backlog)] = "open"]
  /\ accepted' = Append(accepted, Head(backlog))
  /\ lpc' = "assign"
  /\ UNCHANGED << members, pending, main, peer, rd, handled, out >>

(* `continue`.  Mutant: a failed accept ends the thread.                   *)
BreakOnFailure == "done"
OnAcceptFailure == "while"

(* accept fails: the listening socket was closed, or (WSAECONNRESET) the   *)
(* client at the head of the backlog reset its connection.                 *)
AcceptFails ==
  /\ lpc = "accept"
  /\ \/ ~listening /\ UNCHANGED sockets
     \/ /\ listening /\ backlog # <<>> /\ fin[Head(backlog)] = "reset"
        /\ backlog' = Tail(backlog)
        /\ Close(Head(backlog))
  /\ lpc' = OnAcceptFailure
  /\ UNCHANGED << members, newClient, pending, main, peer, rd, history >>

(* An existing client is closed first; then clientSocket = newClient.      *)
AssignClient ==
  /\ lpc = "assign"
  /\ Close(clientSocket)
  /\ clientSocket' = newClient
  /\ lpc' = "inner"
  /\ UNCHANGED << running, listening, newClient, pending, main, backlog, peer,
                  rd, history >>

(* while (running && clientSocket != INVALID_SOCKET)                       *)
InnerWhile ==
  /\ lpc = "inner"
  /\ lpc' = IF running /\ clientSocket # NoSocket THEN "recv" ELSE "close"
  /\ UNCHANGED << members, newClient, pending, main, sockets, peer, rd,
                  history >>

(* What a socket call finds at the other end of clientSocket.              *)
Usable(s) == s \in Conns /\ conn[s] = "open" /\ fin[s] # "reset"
Unread(s) == Len(wire[s]) - rd[s]

RecvBytes(n) ==
  /\ lpc = "recv" /\ Usable(clientSocket) /\ n <= Unread(clientSocket)
  /\ pending' = pending \o SubSeq(wire[clientSocket], rd[clientSocket] + 1,
                                  rd[clientSocket] + n)
  /\ rd' = [rd EXCEPT ![clientSocket] = @ + n]
  /\ lpc' = "parse"
  /\ UNCHANGED << members, newClient, main, sockets, peer, history >>

(* recv returns 0 after the client's last byte, or fails: both `break`.    *)
RecvEnds ==
  /\ lpc = "recv"
  /\ \/ ~Usable(clientSocket)
     \/ /\ Usable(clientSocket)
        /\ fin[clientSocket] = "fin" /\ Unread(clientSocket) = 0
  /\ lpc' = "close"
  /\ UNCHANGED << members, newClient, pending, main, sockets, peer, rd,
                  history >>

(* One round of the parse loop: a whole message goes to the handler.       *)
ParseMessage ==
  /\ lpc = "parse" /\ Complete(pending)
  /\ handled' = [handled EXCEPT ![newClient] = Append(@, FirstMsg(pending))]
  /\ pending' = AfterFirst(pending)
  /\ lpc' = "handle"
  /\ UNCHANGED << members, newClient, main, sockets, peer, rd, accepted, out >>

ParseWaits ==
  /\ lpc = "parse" /\ ~Complete(pending)
  /\ lpc' = "inner"
  /\ UNCHANGED << members, newClient, pending, main, sockets, peer, rd,
                  history >>

(* HandleMessage sends no reply to a message it cannot parse.  Mutants:    *)
(* the test is the wrong way round; it does not return after the test.     *)
ReplyIfUnparsable(m) == m \in Unparsable
ReplyAlways(m) == m \in Messages
HasReply(m) == m \notin Unparsable

HandleMessage ==
  /\ lpc = "handle"
  /\ LET m == handled[newClient][Len(handled[newClient])]
     IN  lpc' = IF HasReply(m) THEN "sendPrefix" ELSE "parse"
  /\ UNCHANGED << members, newClient, pending, main, sockets, peer, rd,
                  history >>

(* The request the handler is answering.                                   *)
Request == [from |-> newClient, n |-> Len(handled[newClient])]

(* SendMessage sends on the member clientSocket, not on the connection the *)
(* request came from.  It gives up when a send fails.                      *)
SendPart(pc, part, next) ==
  /\ lpc = pc
  /\ \/ /\ Usable(clientSocket)
        /\ out' = [out EXCEPT ![clientSocket] =
                     Append(@, [part |-> part, re |-> Request])]
        /\ lpc' = next
     \/ /\ ~Usable(clientSocket)
        /\ out' = out
        /\ lpc' = "parse"
  /\ UNCHANGED << members, newClient, pending, main, sockets, peer, rd,
                  accepted, handled >>

(* Mutants: SendMessage returns after the prefix; the parse loop is an if. *)
SendPrefixOnly == SendPart("sendPrefix", "prefix", "parse")
SendBodyOnce == SendPart("sendBody", "body", "inner")

SendPrefix == SendPart("sendPrefix", "prefix", "sendBody")
SendBody   == SendPart("sendBody", "body", "parse")

CloseClient ==
  /\ lpc = "close"
  /\ Close(clientSocket)
  /\ lpc' = "reset"
  /\ UNCHANGED << members, newClient, pending, main, backlog, peer, rd,
                  history >>

(* Mutants: what the old client left behind is kept.                       *)
KeepPending == UNCHANGED pending
KeepClientSocket == UNCHANGED clientSocket

ClearPending == pending' = <<>>
ClearClientSocket == clientSocket' = NoSocket

(* clientSocket = INVALID_SOCKET; pending.clear()                          *)
ForgetClient ==
  /\ lpc = "reset"
  /\ ClearClientSocket
  /\ ClearPending
  /\ lpc' = "while"
  /\ UNCHANGED << running, listening, newClient, main, sockets, peer, rd,
                  history >>

ListenThread ==
  \/ WhileRunning \/ AcceptClient \/ AcceptFails \/ AssignClient
  \/ InnerWhile \/ (\E n \in 1 .. BufSize : RecvBytes(n)) \/ RecvEnds
  \/ ParseMessage \/ ParseWaits \/ HandleMessage \/ SendPrefix \/ SendBody
  \/ CloseClient \/ ForgetClient

-----------------------------------------------------------------------------
(* InitializeWSA.  Mutant: Start initialises Winsock once more itself.     *)
InitializeTwice == wsa' = wsa + 2
InitializeWSA == wsa' = wsa + 1

(* Main: Start.  The thread is created after running is set.               *)
StartListens ==
  /\ mpc = "start" /\ ~running
  /\ InitializeWSA
  /\ listening' = TRUE /\ running' = TRUE
  /\ UNCHANGED << clientSocket, newClient, pending, marg, gSignalStatus,
                  sockets, peer, rd, history >>

Start ==
  /\ StartListens
  /\ lpc' = "while"
  /\ mpc' = "serve" /\ UNCHANGED stopper

(* std::thread's constructor throws: main unwinds into the destructor.     *)
StartThreadFails ==
  /\ StartListens
  /\ mpc' = "stop" /\ stopper' = "dtor"
  /\ UNCHANGED lpc

(* WSAStartup fails; or setsockopt, bind or listen fails and Cleanup runs  *)
(* (w = 0); or socket fails and nothing is undone (w = 1).                 *)
StartFails ==
  /\ mpc = "start" /\ ~running
  /\ wsa' \in {0, 1}
  /\ mpc' = "stop" /\ stopper' = "dtor"
  /\ UNCHANGED << members, listener, marg, gSignalStatus, sockets, peer, rd,
                  history >>

(* while (!gSignalStatus) Sleep(100); server.Stop()                        *)
Serve ==
  /\ mpc = "serve" /\ gSignalStatus
  /\ mpc' = "stop"
  /\ UNCHANGED << members, listener, marg, stopper, gSignalStatus, wsa,
                  sockets, peer, rd, history >>

(* Mutant: the flag is left alone.                                         *)
KeepRunning == UNCHANGED running
ClearRunning == running' = FALSE

StopRunning ==
  /\ mpc = "stop"
  /\ ClearRunning
  /\ mpc' = "closeServer"
  /\ UNCHANGED << listening, clientSocket, listener, marg, stopper,
                  gSignalStatus, wsa, sockets, peer, rd, history >>

(* Closing the listening socket resets the connections in its backlog.     *)
StopServerSocket ==
  /\ mpc = "closeServer"
  /\ listening' = FALSE
  /\ conn' = [c \in Conns |-> IF conn[c] = "queued" THEN "closed" ELSE conn[c]]
  /\ backlog' = <<>>
  /\ mpc' = "checkClient"
  /\ UNCHANGED << running, clientSocket, listener, marg, stopper,
                  gSignalStatus, wsa, peer, rd, history >>

(* if (clientSocket != INVALID_SOCKET) { closesocket(clientSocket); ... }  *)
(* Mutant: Stop leaves the client's socket to the listener.                *)
LeaveClient == "join"
AfterCheckClient == IF clientSocket # NoSocket THEN "loadClient" ELSE "join"

StopCheckClient ==
  /\ mpc = "checkClient"
  /\ mpc' = AfterCheckClient
  /\ UNCHANGED << members, listener, marg, stopper, gSignalStatus, wsa,
                  sockets, peer, rd, history >>

StopLoadClient ==
  /\ mpc = "loadClient"
  /\ marg' = clientSocket
  /\ mpc' = "closeClient"
  /\ UNCHANGED << members, listener, stopper, gSignalStatus, wsa, sockets,
                  peer, rd, history >>

StopCloseClient ==
  /\ mpc = "closeClient"
  /\ Close(marg)
  /\ mpc' = "resetClient"
  /\ UNCHANGED << members, listener, marg, stopper, gSignalStatus, wsa,
                  backlog, peer, rd, history >>

StopResetClient ==
  /\ mpc = "resetClient"
  /\ clientSocket' = NoSocket
  /\ mpc' = "join"
  /\ UNCHANGED << running, listening, listener, marg, stopper, gSignalStatus,
                  wsa, sockets, peer, rd, history >>

(* joinable() is false before the thread exists and after it was joined.   *)
(* Mutant: Stop does not wait for the listener.                            *)
NotJoined == TRUE
Joined == lpc \in {"none", "done"}

(* if (listenThread.joinable()) listenThread.join()                        *)
StopJoin ==
  /\ mpc = "join" /\ Joined
  /\ mpc' = "cleanup"
  /\ UNCHANGED << members, listener, marg, stopper, gSignalStatus, wsa,
                  sockets, peer, rd, history >>

(* WSACleanup without a WSAStartup to undo fails and changes nothing.      *)
WSACleanup == wsa' = IF wsa = 0 THEN 0 ELSE wsa - 1

StopCleanup ==
  /\ mpc = "cleanup"
  /\ WSACleanup
  /\ mpc' = IF stopper = "main" THEN "shutdown" ELSE "exit"
  /\ UNCHANGED << members, listener, marg, stopper, gSignalStatus, sockets,
                  peer, rd, history >>

(* ShutdownProtobufLibrary, then the destructor calls Stop once more.      *)
ShutdownProtobuf ==
  /\ mpc = "shutdown"
  /\ mpc' = "stop" /\ stopper' = "dtor"
  /\ UNCHANGED << members, listener, marg, gSignalStatus, wsa, sockets, peer,
                  rd, history >>

Stop ==
  \/ StopRunning \/ StopServerSocket \/ StopCheckClient \/ StopLoadClient
  \/ StopCloseClient \/ StopResetClient \/ StopJoin \/ StopCleanup

Main == Start \/ StartThreadFails \/ StartFails \/ Serve \/ Stop
          \/ ShutdownProtobuf

Clients ==
  \E c \in Conns :
    \/ Connect(c) \/ (\E m \in Messages : WritePrefix(c, m)) \/ WriteBody(c)
    \/ Hangup(c) \/ Reset(c)

(* The process has exited: the one state the server may stop in.           *)
Exited == mpc = "exit" /\ UNCHANGED vars

Next == ListenThread \/ Main \/ Clients \/ Interrupt \/ Exited

Spec == Init /\ [][Next]_vars

(* Both threads are scheduled; nobody makes a client write or hang up.     *)
FairSpec == Spec /\ WF_vars(ListenThread) /\ WF_vars(Main)

-----------------------------------------------------------------------------
(***************************************************************************)
(* Properties.                                                             *)
(***************************************************************************)
ListenerPc == { "none", "while", "accept", "assign", "inner", "recv", "parse",
                "handle", "sendPrefix", "sendBody", "close", "reset", "done" }
MainPc == { "start", "serve", "stop", "closeServer", "checkClient",
            "loadClient", "closeClient", "resetClient", "join", "cleanup",
            "shutdown", "exit" }
Part == { "prefix", "body" }

ControlTypeOK ==
  /\ running \in BOOLEAN /\ listening \in BOOLEAN /\ gSignalStatus \in BOOLEAN
  /\ clientSocket \in Conns \cup {NoSocket}
  /\ newClient \in Conns \cup {NoSocket} /\ marg \in Conns \cup {NoSocket}
  /\ lpc \in ListenerPc /\ mpc \in MainPc /\ stopper \in {"main", "dtor"}
  /\ wsa \in {0, 1}
  /\ conn \in [Conns -> {"new", "queued", "open", "closed"}]
  /\ fin \in [Conns -> {"up", "fin", "reset"}]
  /\ backlog \in Seq(Conns) /\ accepted \in Seq(Conns)

StreamTypeOK ==
  /\ pending \in Seq(Byte)
  /\ wire \in [Conns -> Seq(Byte)] /\ rd \in [Conns -> Nat]
  /\ sent \in [Conns -> Seq([msg : Messages, at : Nat])]
  /\ handled \in [Conns -> Seq(Seq(Byte))]
  /\ out \in [Conns -> Seq([part : Part, re : [from : Conns, n : Nat]])]

(* Every variable has its type.  That handled holds byte strings needs the *)
(* stream invariant below: what FirstMsg cuts out is in pending only when  *)
(* the prefix is that of a message that was sent.                          *)
TypeOK == ControlTypeOK /\ StreamTypeOK

(* The server holds one client at a time: no second connection is open,    *)
(* and whenever accept has returned, no older client is held, so the       *)
(* "existing client" that ListenThread would close never exists.           *)
OneClient ==
  /\ \A c, d \in Conns : conn[c] = "open" /\ conn[d] = "open" => c = d
  /\ lpc = "assign" => clientSocket = NoSocket

(* However recv cuts the streams up, and whoever was connected before, the *)
(* handler is called with exactly the messages this client sent, in order, *)
(* none twice and none made of two.                                        *)
FramesIntact ==
  \A c \in Conns :
    /\ Len(handled[c]) <= Len(sent[c])
    /\ \A i \in 1 .. Len(handled[c]) : handled[c][i] = sent[c][i].msg

(* A client can take the replies apart: prefixes and bodies alternate, and *)
(* a prefix whose body never went out is the last thing on its connection. *)
RepliesFramed ==
  \A c \in Conns : \A i \in 1 .. Len(out[c]) :
    /\ out[c][i].part = IF i % 2 = 1 THEN "prefix" ELSE "body"
    /\ i % 2 = 0 => out[c][i].re = out[c][i - 1].re

(* How many of the first n messages of a client could be parsed.           *)
Answerable(c, n) ==
  Cardinality({ j \in 1 .. n : handled[c][j] \notin Unparsable })

(* Although SendMessage looks at the member clientSocket, the k-th reply   *)
(* on a connection answers the k-th parsable request of that connection:   *)
(* a client may take the next frame for the answer to its next request.    *)
RepliesMatch ==
  \A c \in Conns : \A i \in 1 .. Len(out[c]) :
    LET re == out[c][i].re
    IN  /\ re.from = c
        /\ handled[c][re.n] \notin Unparsable
        /\ Answerable(c, re.n) = (i + 1) \div 2

(* Each of the first n messages of a client that could be parsed has its   *)
(* whole reply.                                                            *)
Answered(c, n) ==
  \A k \in 1 .. n :
    handled[c][k] \notin Unparsable =>
      \E i \in 1 .. Len(out[c]) :
        out[c][i] = [part |-> "body", re |-> [from |-> c, n |-> k]]

(* Before the listener waits for more bytes it has answered every request  *)
(* it could parse, or the connection is no longer usable.                  *)
AnswersAll ==
  lpc = "recv" /\ Usable(clientSocket) =>
    Answered(clientSocket, Len(handled[clientSocket]))

(* The handle Stop has read and is about to close is still the last one    *)
(* accept returned, and the listener can accept no other: the value cannot *)
(* have been given to a new connection in between.                         *)
StopClosesItsClient ==
  mpc = "closeClient" /\ marg # NoSocket =>
    marg = newClient /\ lpc \notin {"accept", "assign"}

(* Once Stop has joined, the listener is gone and no socket is open.       *)
StopIsClean ==
  mpc \in {"cleanup", "shutdown", "exit"} =>
    /\ lpc \in {"none", "done"} /\ ~running /\ ~listening
    /\ clientSocket = NoSocket
    /\ \A c \in Conns : conn[c] \in {"new", "closed"}

(* The listener only ever runs with Winsock initialised, and is gone       *)
(* before protobuf is shut down; at exit every WSAStartup is undone.       *)
LibrariesOutliveListener ==
  /\ lpc \notin {"none", "done"} => wsa = 1 /\ stopper = "main"
  /\ mpc = "exit" => wsa = 0

(* The listener does not die while main believes the server is up.         *)
ListenerAlive == mpc = "serve" => running /\ lpc \notin {"none", "done"}

(* Where on the wire the frame of message i ends.                          *)
FrameEnd(c, i) == sent[c][i].at + PrefixLen + Len(sent[c][i].msg)

(* The listener waits for more bytes only when the first message it has    *)
(* not handed to the handler has not wholly arrived: nothing it could act  *)
(* on sits in pending while it blocks in recv.                             *)
ReceivedIsHandled ==
  lpc = "recv" /\ clientSocket \in Conns =>
    LET c == clientSocket
        n == Len(handled[c]) + 1
    IN  n <= Len(sent[c]) => rd[c] < FrameEnd(c, n)

(* The client has written the whole frame of message i.                    *)
Written(c, i) == i <= Len(sent[c]) /\ Len(wire[c]) >= FrameEnd(c, i)

(* A client may close its end as soon as it has written its last message:  *)
(* when recv tells the listener so, it has handled every message that was  *)
(* wholly written, and leaves at most the beginning of one.                *)
HangupLosesNothing ==
  [][lpc = "recv" /\ lpc' = "close" /\ Usable(clientSocket) =>
       ~Written(clientSocket, Len(handled[clientSocket]) + 1)]_vars

(* When Stop joins, neither blocking call of the listener can hold it: the *)
(* listening socket is closed if it is in accept, and the client's is no   *)
(* longer usable if it is in recv, wherever it was when Stop looked.       *)
StopUnblocks ==
  mpc = "join" => /\ lpc = "accept" => ~listening
                  /\ lpc = "recv" => ~Usable(clientSocket)

(* An upper bound on the steps the listener takes once Stop joins: four    *)
(* for each message in pending, which has four bytes at least, and the way *)
(* out.                                                                    *)
WayOut == [ done |-> 0, none |-> 0, while |-> 1, accept |-> 2, reset |-> 2,
            close |-> 3, inner |-> 4, recv |-> 4, assign |-> 5, parse |-> 5,
            sendBody |-> 6, sendPrefix |-> 7, handle |-> 8 ]
Remaining == Len(pending) + WayOut[lpc]

(* While Stop joins, every step of the listener brings it nearer to the    *)
(* end of its thread, and nothing else moves it: the messages it still     *)
(* answers cannot keep it from returning, nor can a client.                *)
ListenerNearer ==
  [][mpc = "join" => UNCHANGED listener \/ Remaining' < Remaining]_vars

-----------------------------------------------------------------------------
(***************************************************************************)
(* The inductive invariant behind the properties above: who may hold an    *)
(* open socket, where the two threads can be with respect to each other,   *)
(* and what Stop has already done.                                         *)
(***************************************************************************)
Serving == { "inner", "recv", "parse", "handle", "sendPrefix", "sendBody",
             "close" }
Stopping == { "closeServer", "checkClient", "loadClient", "closeClient",
              "resetClient", "join", "cleanup", "shutdown", "exit" }

NothingOpen == \A c \in Conns : conn[c] # "open"

(* The listener's view: clientSocket is its newest client or nothing, and  *)
(* only that client's socket can be open.                                  *)
ListenerInv ==
  /\ clientSocket \in {NoSocket, newClient}
  /\ newClient \in Conns => conn[newClient] \in {"open", "closed"}
  /\ clientSocket # NoSocket => lpc \in Serving \cup {"reset"}
  /\ \A c \in Conns :
       conn[c] = "open" => c = newClient /\ lpc \in Serving \cup {"assign"}
  /\ lpc \in Serving /\ clientSocket = NoSocket => NothingOpen

(* Stop's view: once it has seen a client, the listener can only be using  *)
(* that client or be on its way out.                                       *)
StopInv ==
  /\ mpc \in Stopping => ~running
  /\ mpc \in Stopping \ {"closeServer"} =>
       ~listening /\ \A c \in Conns : conn[c] # "queued"
  /\ mpc \in {"loadClient", "closeClient", "resetClient"} =>
       lpc \notin {"none", "accept", "assign"}
  /\ mpc = "loadClient" /\ clientSocket = NoSocket => lpc \in {"while", "done"}
  /\ mpc = "closeClient" =>
       \/ marg = newClient
       \/ marg = NoSocket /\ lpc \in {"while", "done"}
  /\ mpc = "resetClient" => NothingOpen

(* The lifetime of the listener within the lifetime of the libraries.      *)
LifetimeInv ==
  /\ mpc = "start" => lpc = "none" /\ stopper = "main" /\ wsa = 0
  /\ mpc = "serve" => running /\ lpc \notin {"none", "done"}
  /\ lpc \notin {"none", "done"} => wsa = 1 /\ stopper = "main"
  /\ mpc \in {"cleanup", "shutdown", "exit"} => lpc \in {"none", "done"}
  /\ mpc = "exit" => wsa = 0

(* While Stop joins, a listener that has not begun to leave holds a closed *)
(* socket.                                                                 *)
JoinInv ==
  mpc = "join" /\ lpc \in Serving \ {"inner", "close"} => NothingOpen

(* Nothing Stop and the listener do to the unlocked members in any order   *)
(* leads out of this set of states.                                        *)
IInv == ControlTypeOK /\ ListenerInv /\ StopInv /\ LifetimeInv /\ JoinInv

(***************************************************************************)
(* The inductive invariant behind FramesIntact: where the bytes of every   *)
(* message are on the wire, and which of them pending holds.               *)
(***************************************************************************)
(* Where on the wire the first message that was not handled begins.        *)
Consumed(c) == IF handled[c] = <<>> THEN 0 ELSE FrameEnd(c, Len(handled[c]))

(* The frame of message i is on c's wire, the last one perhaps without its *)
(* body, each right behind the one before.                                 *)
FrameInv(c, i) ==
  LET m  == sent[c][i].msg
      at == sent[c][i].at
  IN  /\ at = IF i = 1 THEN 0 ELSE FrameEnd(c, i - 1)
      /\ IF i < Len(sent[c])
           THEN Len(wire[c]) >= FrameEnd(c, i)
           ELSE Len(wire[c]) \in {at + PrefixLen, FrameEnd(c, i)}
      /\ \A k \in 1 .. PrefixLen : wire[c][at + k] = LenPrefix(Len(m))[k]
      /\ \A k \in 1 .. Len(m) :
           at + PrefixLen + k <= Len(wire[c]) =>
             wire[c][at + PrefixLen + k] = m[k]

WireInv ==
  \A c \in Conns :
    /\ sent[c] = <<>> => wire[c] = <<>>
    /\ \A i \in 1 .. Len(sent[c]) : FrameInv(c, i)

(* What was not accepted yet was not read.                                 *)
QueueInv ==
  /\ \A i, j \in 1 .. Len(backlog) : backlog[i] = backlog[j] => i = j
  /\ \A i \in 1 .. Len(backlog) : conn[backlog[i]] = "queued"
  /\ \A c \in Conns :
       conn[c] \in {"new", "queued"} => rd[c] = 0 /\ handled[c] = <<>>

(* pending is the part of the newest client's wire between the messages    *)
(* already handled and the bytes already received, and it is empty when    *)
(* the next client comes.                                                  *)
PendingInv ==
  /\ \A c \in Conns : rd[c] <= Len(wire[c])
  /\ lpc \in {"none", "while", "accept", "assign", "done"} => pending = <<>>
  /\ lpc = "assign" => /\ newClient \in Conns
                       /\ rd[newClient] = 0 /\ handled[newClient] = <<>>
  /\ lpc \in Serving =>
       /\ newClient \in Conns
       /\ rd[newClient] = Consumed(newClient) + Len(pending)
       /\ \A k \in 1 .. Len(pending) :
            pending[k] = wire[newClient][Consumed(newClient) + k]

StreamInv ==
  StreamTypeOK /\ FramesIntact /\ WireInv /\ QueueInv /\ PendingInv

(***************************************************************************)
(* The inductive invariant behind RepliesMatch and AnswersAll: how much of *)
(* the replies is out at each point of the listener, as long as its client *)
(* can be reached.                                                         *)
(***************************************************************************)
Replying == { "handle", "sendPrefix", "sendBody" }

(* The messages of the newest client that the handler is done with.        *)
Settled == LET n == Len(handled[newClient])
           IN  IF lpc \in Replying THEN n - 1 ELSE n

ReplyInv ==
  /\ \A c \in Conns : \A i \in 1 .. Len(out[c]) :
       out[c][i].re.n \in 1 .. Len(handled[c])
  /\ lpc \in Replying =>
       newClient \in Conns /\ handled[newClient] # <<>>
  /\ lpc \in Replying \ {"handle"} =>
       handled[newClient][Len(handled[newClient])] \notin Unparsable
  /\ lpc \in Serving \ {"close"} /\ Usable(newClient) =>
       /\ Answered(newClient, Settled)
       /\ Len(out[newClient]) = 2 * Answerable(newClient, Settled)
                                  + IF lpc = "sendBody" THEN 1 ELSE 0
       /\ lpc = "sendBody" =>
            out[newClient][Len(out[newClient])].re = Request

(* Nothing that happens to a connection while it is served can put a reply *)
(* where another one belongs.                                              *)
RepliesInv == RepliesFramed /\ RepliesMatch /\ ReplyInv

(* What is on the connections, in both directions, and in pending.         *)
ConnectionInv == StreamInv /\ RepliesInv

-----------------------------------------------------------------------------
(* The abstract service this server implements.                            *)
Service == INSTANCE SerialService WITH
  Clients   <- Conns,
  Requests  <- Messages,
  submitted <- [c \in Conns |-> [i \in 1 .. Len(sent[c]) |-> sent[c][i].msg]],
  performed <- handled,
  admitted  <- accepted,
  connected <- {c \in Conns : conn[c] = "open"},
  down      <- mpc \in {"cleanup", "shutdown", "exit"} \/ stopper = "dtor"

(* Every step of the two threads, for every cut of the streams and every   *)
(* moment of Stop, is a step of SerialService or changes nothing there.    *)
ImplementsService == Service!Spec

-----------------------------------------------------------------------------
(* Ctrl+C ends the program: Stop unblocks accept and recv, the listener    *)
(* sees running = false, and join returns.                                 *)
StopTerminates == gSignalStatus ~> mpc = "exit"

(* A message whose bytes are all written to the connected client's stream  *)
(* is handled, unless the connection is closed first.                      *)
MessagesHandled ==
  \A c \in Conns : \A i \in 1 .. MaxSent :
    (conn[c] = "open" /\ Written(c, i))
      ~> (Len(handled[c]) >= i \/ conn[c] = "closed")

(* "If there's an existing client, close it first" (network_server.cpp):   *)
(* a client that connects takes over from the one that is connected.       *)
NewClientTakesOver ==
  \A c, d \in Conns :
    (conn[d] = "open" /\ conn[c] = "queued") ~> conn[d] = "closed"
=============================================================================
