------------------------- MODULE NetworkServerProofs -------------------------
(* Theorems about NetworkServer, for any connections, messages and bounds. *)
EXTENDS NetworkServer, TLAPS

-----------------------------------------------------------------------------
(* The control invariant IInv: threads, sockets and library lifetimes.     *)

(* IInv holds before the server starts.                                    *)
LEMMA InitIInv == Init => IInv
<1> SUFFICES ASSUME Init PROVE IInv
  OBVIOUS
<1>1. ControlTypeOK
  <2>1. backlog \in Seq(Conns) /\ accepted \in Seq(Conns)
    BY DEF Init
  <2>2. /\ conn \in [Conns -> {"new", "queued", "open", "closed"}]
        /\ fin \in [Conns -> {"up", "fin", "reset"}]
    BY DEF Init
  <2> QED
    BY <2>1, <2>2 DEF Init, ControlTypeOK, ListenerPc, MainPc
<1>2. ListenerInv
  BY SocketAssumption DEF Init, ListenerInv, Serving, NothingOpen
<1>3. StopInv /\ LifetimeInv /\ JoinInv
  BY DEF Init, StopInv, LifetimeInv, JoinInv, Stopping
<1> QED
  BY <1>1, <1>2, <1>3 DEF IInv

(* What the clients and Ctrl+C do leaves IInv alone.                       *)
LEMMA EnvironmentIInv ==
  ASSUME IInv, Clients \/ Interrupt
  PROVE  IInv'
<1> USE DEF IInv, ControlTypeOK, ListenerInv, StopInv, LifetimeInv, JoinInv,
            Serving, Stopping, NothingOpen, members, listener, main, sockets,
            peer, history
<1>1. ASSUME NEW c \in Conns, Connect(c) PROVE IInv'
  BY <1>1 DEF Connect
<1>2. ASSUME NEW c \in Conns, NEW m \in Messages, WritePrefix(c, m) PROVE IInv'
  BY <1>2 DEF WritePrefix
<1>3. ASSUME NEW c \in Conns, WriteBody(c) PROVE IInv'
  BY <1>3 DEF WriteBody
<1>4. ASSUME NEW c \in Conns, Hangup(c) PROVE IInv'
  BY <1>4 DEF Hangup
<1>5. ASSUME NEW c \in Conns, Reset(c) PROVE IInv'
  BY <1>5 DEF Reset
<1>6. CASE Interrupt
  BY <1>6 DEF Interrupt
<1> QED
  BY <1>1, <1>2, <1>3, <1>4, <1>5, <1>6 DEF Clients

(* closesocket closes the socket it is given and no other.                 *)
LEMMA CloseEffect ==
  ASSUME conn \in [Conns -> {"new", "queued", "open", "closed"}], NEW s, Close(s)
  PROVE  /\ conn' \in [Conns -> {"new", "queued", "open", "closed"}]
         /\ \A c \in Conns : conn'[c] = IF c = s THEN "closed" ELSE conn[c]
BY DEF Close

(* Without its first element a sequence is still one.                      *)
LEMMA TailSeq ==
  ASSUME NEW S, NEW s \in Seq(S), s # <<>>
  PROVE  /\ Tail(s) \in Seq(S) /\ Head(s) \in S
         /\ Len(Tail(s)) = Len(s) - 1
         /\ \A i \in 1 .. Len(Tail(s)) : Tail(s)[i] = s[i + 1]
OBVIOUS

(* No step of the listener leaves IInv, wherever Stop is.                  *)
LEMMA ListenerIInv ==
  ASSUME IInv, ListenThread
  PROVE  IInv'
<1> USE SocketAssumption
        DEF IInv, ControlTypeOK, ListenerInv, StopInv, LifetimeInv, JoinInv,
            ListenerPc, Serving, Stopping, NothingOpen, members, listener,
            main, sockets, peer, history
<1>1. CASE WhileRunning
  BY <1>1 DEF WhileRunning
<1>2. CASE AcceptClient
  BY <1>2 DEF AcceptClient
<1>3. CASE AcceptFails
  <2>1. conn' = conn \/ Close(Head(backlog))
    BY <1>3 DEF AcceptFails
  <2>2. /\ conn' \in [Conns -> {"new", "queued", "open", "closed"}]
        /\ \A c \in Conns : conn'[c] \in {conn[c], "closed"}
    <3>1. conn \in [Conns -> {"new", "queued", "open", "closed"}]
      OBVIOUS
    <3>2. CASE conn' = conn
      BY <3>1, <3>2
    <3>3. CASE Close(Head(backlog))
      BY <3>1, <3>3, CloseEffect
    <3> QED
      BY <2>1, <3>2, <3>3
  <2>3. backlog' \in Seq(Conns)
    <3>1. \/ backlog' = backlog
          \/ backlog # <<>> /\ backlog' = Tail(backlog)
      BY <1>3 DEF AcceptFails
    <3>2. CASE backlog' = backlog
      BY <3>2
    <3>3. CASE backlog # <<>> /\ backlog' = Tail(backlog)
      BY <3>3, TailSeq
    <3> QED
      BY <3>1, <3>2, <3>3
  <2> QED
    BY <1>3, <2>2, <2>3 DEF AcceptFails, OnAcceptFailure
<1>4. CASE AssignClient
  BY <1>4 DEF AssignClient, Close
<1>5. CASE InnerWhile
  BY <1>5 DEF InnerWhile
<1>6. ASSUME NEW n \in 1 .. BufSize, RecvBytes(n) PROVE IInv'
  BY <1>6 DEF RecvBytes
<1>7. CASE RecvEnds
  BY <1>7 DEF RecvEnds
<1>8. CASE ParseMessage
  BY <1>8 DEF ParseMessage
<1>9. CASE ParseWaits
  BY <1>9 DEF ParseWaits
<1>10. CASE HandleMessage
  BY <1>10 DEF HandleMessage
<1>11. CASE SendPrefix
  BY <1>11 DEF SendPrefix, SendPart
<1>12. CASE SendBody
  BY <1>12 DEF SendBody, SendPart
<1>13. CASE CloseClient
  BY <1>13 DEF CloseClient, Close
<1>14. CASE ForgetClient
  BY <1>14 DEF ForgetClient, ClearClientSocket
<1> QED
  BY <1>1, <1>2, <1>3, <1>4, <1>5, <1>6, <1>7, <1>8, <1>9, <1>10, <1>11,
     <1>12, <1>13, <1>14 DEF ListenThread

(* No step of main leaves IInv, wherever the listener is.                  *)
LEMMA MainIInv ==
  ASSUME IInv, Main
  PROVE  IInv'
<1> USE SocketAssumption
        DEF IInv, ControlTypeOK, ListenerInv, StopInv, LifetimeInv, JoinInv,
            MainPc, ListenerPc, Serving, Stopping, NothingOpen, members,
            listener, main, sockets, peer, history
<1>1. CASE Start
  BY <1>1 DEF Start, StartListens, InitializeWSA
<1>2. CASE StartThreadFails
  BY <1>2 DEF StartThreadFails, StartListens, InitializeWSA
<1>3. CASE StartFails
  BY <1>3 DEF StartFails
<1>4. CASE Serve
  BY <1>4 DEF Serve
<1>5. CASE StopRunning
  <2>1. ControlTypeOK'
    BY <1>5 DEF StopRunning, ClearRunning
  <2>2. ListenerInv'
    BY <1>5 DEF StopRunning
  <2>3. StopInv' /\ LifetimeInv' /\ JoinInv'
    BY <1>5 DEF StopRunning, ClearRunning
  <2> QED
    BY <2>1, <2>2, <2>3
<1>6. CASE StopServerSocket
  <2>1. ControlTypeOK'
    <3>1. backlog' \in Seq(Conns)
      BY <1>6 DEF StopServerSocket
    <3>2. conn' \in [Conns -> {"new", "queued", "open", "closed"}]
      BY <1>6 DEF StopServerSocket
    <3> QED
      BY <1>6, <3>1, <3>2 DEF StopServerSocket
  <2>2. \A c \in Conns : conn'[c] = "open" <=> conn[c] = "open"
    BY <1>6 DEF StopServerSocket
  <2>3. \A c \in Conns : conn'[c] # "queued"
    BY <1>6 DEF StopServerSocket
  <2> QED
    BY <1>6, <2>1, <2>2, <2>3 DEF StopServerSocket
<1>7. CASE StopCheckClient
  BY <1>7 DEF StopCheckClient, AfterCheckClient
<1>8. CASE StopLoadClient
  BY <1>8 DEF StopLoadClient
<1>9. CASE StopCloseClient
  BY <1>9 DEF StopCloseClient, Close
<1>10. CASE StopResetClient
  BY <1>10 DEF StopResetClient
<1>11. CASE StopJoin
  BY <1>11 DEF StopJoin, Joined
<1>12. CASE StopCleanup
  BY <1>12 DEF StopCleanup, WSACleanup
<1>13. CASE ShutdownProtobuf
  BY <1>13 DEF ShutdownProtobuf
<1> QED
  BY <1>1, <1>2, <1>3, <1>4, <1>5, <1>6, <1>7, <1>8, <1>9, <1>10, <1>11,
     <1>12, <1>13 DEF Main, Stop

(* Every interleaving of Stop, the listener and the clients stays in IInv. *)
THEOREM ControlSafe == Spec => []IInv
<1>1. IInv /\ [Next]_vars => IInv'
  <2> SUFFICES ASSUME IInv, [Next]_vars PROVE IInv'
    OBVIOUS
  <2>1. CASE UNCHANGED vars
    BY <2>1 DEF vars, members, listener, main, sockets, peer, history, IInv,
                ControlTypeOK, ListenerInv, StopInv, LifetimeInv, JoinInv, NothingOpen
  <2>2. CASE Exited
    BY <2>1, <2>2 DEF Exited
  <2> QED
    BY <2>1, <2>2, EnvironmentIInv, ListenerIInv, MainIInv DEF Next
<1> QED
  BY InitIInv, <1>1, PTL DEF Spec

-----------------------------------------------------------------------------
(* What follows from IInv.                                                 *)

(* ListenThread holds one client at a time, and its "existing client" is   *)
(* never there.                                                            *)
THEOREM OneClientSafe == Spec => []OneClient
<1>1. IInv => OneClient
  BY DEF IInv, ListenerInv, OneClient, Serving
<1> QED
  BY <1>1, ControlSafe, PTL

(* The handle Stop closes without a lock still names the client it read.   *)
THEOREM StopClosesItsClientSafe == Spec => []StopClosesItsClient
<1>1. IInv => StopClosesItsClient
  BY DEF IInv, StopInv, StopClosesItsClient
<1> QED
  BY <1>1, ControlSafe, PTL

(* After the join in Stop the listener is gone and no socket is left.      *)
THEOREM StopIsCleanSafe == Spec => []StopIsClean
<1>1. IInv => StopIsClean
  <2> SUFFICES ASSUME IInv, mpc \in {"cleanup", "shutdown", "exit"}
               PROVE  /\ lpc \in {"none", "done"} /\ ~running /\ ~listening
                      /\ clientSocket = NoSocket
                      /\ \A c \in Conns : conn[c] \in {"new", "closed"}
    BY DEF StopIsClean
  <2>1. lpc \in {"none", "done"} /\ clientSocket = NoSocket
    BY DEF IInv, LifetimeInv, ListenerInv, Serving
  <2>2. ~running /\ ~listening /\ \A c \in Conns : conn[c] # "queued"
    BY DEF IInv, StopInv, Stopping
  <2>3. \A c \in Conns : conn[c] # "open"
    BY <2>1 DEF IInv, ListenerInv, Serving
  <2>4. \A c \in Conns : conn[c] \in {"new", "queued", "open", "closed"}
    BY DEF IInv, ControlTypeOK
  <2> QED
    BY <2>1, <2>2, <2>3, <2>4
<1> QED
  BY <1>1, ControlSafe, PTL

(* The listener lives within the lifetime of Winsock and protobuf.         *)
THEOREM LibrariesOutliveListenerSafe == Spec => []LibrariesOutliveListener
<1>1. IInv => LibrariesOutliveListener
  BY DEF IInv, LifetimeInv, LibrariesOutliveListener
<1> QED
  BY <1>1, ControlSafe, PTL

(* While main waits for Ctrl+C the listener is there.                      *)
THEOREM ListenerAliveSafe == Spec => []ListenerAlive
<1>1. IInv => ListenerAlive
  BY DEF IInv, LifetimeInv, ListenerAlive
<1> QED
  BY <1>1, ControlSafe, PTL

(* When Stop joins, the listener is not held in accept or in recv.         *)
THEOREM StopUnblocksSafe == Spec => []StopUnblocks
<1>1. IInv => StopUnblocks
  BY DEF IInv, StopInv, Stopping, ListenerInv, JoinInv, Serving, NothingOpen,
         Usable, StopUnblocks
<1> QED
  BY <1>1, ControlSafe, PTL

-----------------------------------------------------------------------------
(* Until main stops the server, a connection that was accepted stays open  *)
(* and the member clientSocket keeps it, as long as the listener serves it.*)
ServeInv ==
  mpc = "serve" =>
    /\ lpc \in Serving \cup {"assign"} =>
         newClient \in Conns /\ conn[newClient] = "open"
    /\ lpc \in Serving => clientSocket = newClient

(* Only ForgetClient and Stop clear the member, only they and CloseClient  *)
(* take a connection away from under the listener.                         *)
LEMMA ServeStep ==
  ASSUME IInv, ServeInv, [Next]_vars
  PROVE  ServeInv'
<1> USE DEF ServeInv, IInv, ControlTypeOK, ListenerInv, Serving, members,
            listener, main, sockets, peer, history
<1>1. CASE AcceptClient
  BY <1>1, TailSeq DEF AcceptClient
<1>2. CASE AcceptFails
  BY <1>2 DEF AcceptFails, OnAcceptFailure
<1>3. CASE AssignClient
  <2>1. clientSocket = NoSocket /\ lpc = "assign"
    BY <1>3 DEF AssignClient
  <2>2. conn' = conn
    BY <1>3, <2>1, SocketAssumption DEF AssignClient, Close
  <2> QED
    BY <1>3, <2>1, <2>2 DEF AssignClient
<1>4. CASE CloseClient \/ ForgetClient \/ WhileRunning
  BY <1>4 DEF CloseClient, ForgetClient, ClearPending, WhileRunning
<1>5. CASE InnerWhile \/ RecvEnds \/ ParseMessage \/ ParseWaits
             \/ HandleMessage \/ SendPrefix \/ SendBody
             \/ \E n \in 1 .. BufSize : RecvBytes(n)
  BY <1>5 DEF InnerWhile, RecvEnds, ParseMessage, ParseWaits, HandleMessage,
              SendPrefix, SendBody, SendPart, RecvBytes
<1>6. CASE Main
  BY <1>6 DEF Main, Start, StartThreadFails, StartFails, StartListens, Serve,
         Stop, StopRunning, StopServerSocket, StopCheckClient,
         AfterCheckClient, StopLoadClient, StopCloseClient, StopResetClient,
         StopJoin, StopCleanup, ShutdownProtobuf
<1>7. CASE Clients \/ Interrupt \/ UNCHANGED vars
  BY <1>7 DEF Clients, Connect, WritePrefix, WriteBody, Hangup, Reset,
              Interrupt, vars
<1> QED
  BY <1>1, <1>2, <1>3, <1>4, <1>5, <1>6, <1>7 DEF Next, ListenThread, Exited

(* ServeInv holds in every run.                                            *)
LEMMA ServeSafe == Spec => []ServeInv
<1>1. Init => ServeInv
  BY DEF Init, ServeInv
<1> QED
  BY <1>1, ServeStep, ControlSafe, PTL DEF Spec
=============================================================================
