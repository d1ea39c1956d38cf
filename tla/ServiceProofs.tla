---------------------------- MODULE ServiceProofs ----------------------------
(* NetworkServer implements SerialService: whatever the two threads, the   *)
(* streams and the clients do, it is one client at a time and each request *)
(* once and in order.                                                      *)
EXTENDS StreamProofs, SequenceTheorems

-----------------------------------------------------------------------------
(* The refinement mapping of Service, by name.                             *)
Submitted == [c \in Conns |-> [i \in 1 .. Len(sent[c]) |-> sent[c][i].msg]]
Connected == {c \in Conns : conn[c] = "open"}
Down      == mpc \in {"cleanup", "shutdown", "exit"} \/ stopper = "dtor"

(* Who was accepted is connected or was, and the last one is the           *)
(* listener's client.                                                      *)
AdmitInv ==
  /\ \A i \in 1 .. Len(accepted) : conn[accepted[i]] \in {"open", "closed"}
  /\ lpc \in Serving \cup {"assign"} =>
       accepted # <<>> /\ newClient = accepted[Len(accepted)]

(* While the listener runs the service is up, and once it is down nobody   *)
(* is connected.                                                           *)
LEMMA UpOrDown ==
  ASSUME IInv
  PROVE  /\ lpc \notin {"none", "done"} => ~Down
         /\ Down => Connected = {}
         /\ lpc \notin Serving \cup {"assign"} => Connected = {}
<1>1. lpc \notin {"none", "done"} => ~Down
  BY DEF IInv, LifetimeInv, Down
<1>2. lpc \notin Serving \cup {"assign"} => Connected = {}
  BY DEF IInv, ListenerInv, Connected
<1> QED
  BY <1>1, <1>2 DEF Serving

(* The type of what was accepted.                                          *)
LEMMA AcceptedTypes ==
  ASSUME IInv
  PROVE  /\ accepted \in Seq(Conns) /\ Len(accepted) \in Nat
         /\ \A i \in 1 .. Len(accepted) : accepted[i] \in Conns
         /\ conn \in [Conns -> {"new", "queued", "open", "closed"}]
<1>1. accepted \in Seq(Conns) /\ Len(accepted) \in Nat
  BY DEF IInv, ControlTypeOK
<1> QED
  BY <1>1, SeqElement DEF IInv, ControlTypeOK

(* accept returns the head of the backlog, which waited there.             *)
LEMMA AcceptHead ==
  ASSUME IInv, StreamInv, AcceptClient
  PROVE  \E h \in Conns :
           /\ newClient' = h /\ conn[h] = "queued"
           /\ conn' = [conn EXCEPT ![h] = "open"]
           /\ accepted' = Append(accepted, h)
<1>1. backlog \in Seq(Conns) /\ backlog # <<>>
  BY DEF IInv, ControlTypeOK, AcceptClient
<1>2. Head(backlog) = backlog[1] /\ 1 \in 1 .. Len(backlog)
  BY <1>1
<1>3. Head(backlog) \in Conns
  BY <1>1
<1>4. conn[Head(backlog)] = "queued"
  BY <1>2 DEF StreamInv, QueueInv
<1> QED
  BY <1>3, <1>4 DEF AcceptClient

(* A step that neither opens a connection nor accepts one, nor lets the    *)
(* listener serve anew.                                                    *)
LEMMA QuietAdmit ==
  ASSUME IInv, AdmitInv, UNCHANGED << accepted, newClient >>,
         \A c \in Conns : conn[c] \in {"open", "closed"} =>
                            conn'[c] \in {"open", "closed"},
         \/ lpc' \notin Serving \cup {"assign"}
         \/ lpc \in Serving \cup {"assign"}
  PROVE  AdmitInv'
BY AcceptedTypes DEF AdmitInv

(* closesocket closes.                                                     *)
LEMMA CloseAdmit ==
  ASSUME IInv, NEW s, Close(s)
  PROVE  \A c \in Conns : conn[c] \in {"open", "closed"} =>
                            conn'[c] \in {"open", "closed"}
BY DEF Close

(* Nothing but accept admits.                                              *)
LEMMA AdmitStep ==
  ASSUME IInv, StreamInv, AdmitInv, [Next]_vars
  PROVE  AdmitInv'
<1> USE DEF members, listener, main, sockets, peer, history
<1>1. CASE AcceptClient
  <2>1. PICK h \in Conns :
          /\ newClient' = h /\ conn[h] = "queued"
          /\ conn' = [conn EXCEPT ![h] = "open"]
          /\ accepted' = Append(accepted, h)
    BY <1>1, AcceptHead
  <2>2. /\ accepted' \in Seq(Conns) /\ Len(accepted') = Len(accepted) + 1
        /\ \A i \in 1 .. Len(accepted) : accepted'[i] = accepted[i]
        /\ accepted'[Len(accepted) + 1] = h
    BY <2>1, AcceptedTypes, AppendSeq
  <2>3. Len(accepted) \in Nat
    BY AcceptedTypes
  <2>4. ASSUME NEW i \in 1 .. Len(accepted')
        PROVE  conn'[accepted'[i]] \in {"open", "closed"}
    <3>1. CASE i = Len(accepted) + 1
      BY <2>1, <2>2, <3>1, AcceptedTypes
    <3>2. CASE i # Len(accepted) + 1
      <4>1. i \in 1 .. Len(accepted)
        BY <2>2, <2>3, <3>2
      <4>2. accepted[i] \in Conns /\ conn[accepted[i]] \in {"open", "closed"}
        BY <4>1, AcceptedTypes DEF AdmitInv
      <4> QED
        BY <2>1, <2>2, <4>1, <4>2, AcceptedTypes
    <3> QED
      BY <3>1, <3>2
  <2>5. accepted' # <<>> /\ newClient' = accepted'[Len(accepted')]
    BY <2>1, <2>2, <2>3
  <2> QED
    BY <2>4, <2>5 DEF AdmitInv
<1>2. CASE ListenThread /\ ~AcceptClient
  <2>1. UNCHANGED << accepted, newClient >>
    BY <1>2 DEF ListenThread, WhileRunning, AcceptFails, AssignClient,
           InnerWhile, RecvBytes, RecvEnds, ParseMessage, ParseWaits,
           HandleMessage, SendPrefix, SendBody, SendPart, CloseClient,
           ForgetClient
  <2>2. \/ lpc' \notin Serving \cup {"assign"}
        \/ lpc \in Serving \cup {"assign"}
    BY <1>2 DEF ListenThread, WhileRunning, AcceptFails, AssignClient,
           InnerWhile, RecvBytes, RecvEnds, ParseMessage, ParseWaits,
           HandleMessage, SendPrefix, SendBody, SendPart, CloseClient,
           ForgetClient, OnAcceptFailure, Serving
  <2>3. conn' = conn \/ \E s : Close(s)
    BY <1>2 DEF ListenThread, WhileRunning, AcceptFails, AssignClient,
           InnerWhile, RecvBytes, RecvEnds, ParseMessage, ParseWaits,
           HandleMessage, SendPrefix, SendBody, SendPart, CloseClient,
           ForgetClient
  <2> QED
    BY <2>1, <2>2, <2>3, CloseAdmit, QuietAdmit
<1>3. CASE Main \/ Interrupt
  <2>1. UNCHANGED << accepted, newClient >>
    BY <1>3 DEF Main, Start, StartListens, StartThreadFails, StartFails, Serve,
           Stop, StopRunning, StopServerSocket, StopCheckClient,
           StopLoadClient, StopCloseClient, StopResetClient, StopJoin,
           StopCleanup, ShutdownProtobuf, Interrupt
  <2>2. lpc' = lpc \/ lpc' = "while"
    BY <1>3 DEF Main, Start, StartListens, StartThreadFails, StartFails, Serve,
           Stop, StopRunning, StopServerSocket, StopCheckClient,
           StopLoadClient, StopCloseClient, StopResetClient, StopJoin,
           StopCleanup, ShutdownProtobuf, Interrupt
  <2>3. \/ conn' = conn \/ Close(marg)
        \/ conn' = [c \in Conns |->
                      IF conn[c] = "queued" THEN "closed" ELSE conn[c]]
    BY <1>3 DEF Main, Start, StartListens, StartThreadFails, StartFails, Serve,
           Stop, StopRunning, StopServerSocket, StopCheckClient,
           StopLoadClient, StopCloseClient, StopResetClient, StopJoin,
           StopCleanup, ShutdownProtobuf, Interrupt
  <2>4. "while" \notin Serving \cup {"assign"}
    BY DEF Serving
  <2>5. \A c \in Conns : conn[c] \in {"open", "closed"} =>
                           conn'[c] \in {"open", "closed"}
    BY <2>3, CloseAdmit
  <2> QED
    BY <2>1, <2>2, <2>4, <2>5, QuietAdmit
<1>4. CASE Clients
  <2>1. UNCHANGED << accepted, newClient, lpc >>
    BY <1>4 DEF Clients, Connect, WritePrefix, WriteBody, Hangup, Reset
  <2>2. \A c \in Conns : conn[c] \in {"open", "closed"} =>
                           conn'[c] \in {"open", "closed"}
    BY <1>4, AcceptedTypes
    DEF Clients, Connect, WritePrefix, WriteBody, Hangup, Reset
  <2> QED
    BY <2>1, <2>2, QuietAdmit DEF AdmitInv
<1>5. CASE Exited \/ UNCHANGED vars
  <2>1. UNCHANGED << accepted, newClient, lpc, conn >>
    BY <1>5 DEF Exited, vars
  <2> QED
    BY <2>1 DEF AdmitInv
<1> QED
  BY <1>1, <1>2, <1>3, <1>4, <1>5 DEF Next

(* The listener's newest client is the last one accepted.                  *)
LEMMA AdmitSafe == Spec => []AdmitInv
<1>1. Init => AdmitInv
  BY DEF Init, AdmitInv, Serving
<1> QED
  BY <1>1, AdmitStep, ControlSafe, StreamSafe, PTL DEF Spec

-----------------------------------------------------------------------------
(* The steps of the service.                                               *)

(* The mapping, as it stands in the instance.                              *)
LEMMA Mapping ==
  /\ Service!vars = << Submitted, handled, accepted, Connected, Down >>
  /\ Service!Admitted = { accepted[i] : i \in 1 .. Len(accepted) }
BY DEF Service!vars, Service!Admitted, Submitted, Connected, Down

(* accept admits a client.                                                 *)
LEMMA AdmitStepUp ==
  ASSUME IInv, StreamInv, AdmitInv, AcceptClient
  PROVE  \E c \in Conns : Service!Admit(c)
<1>1. PICK h \in Conns :
        /\ newClient' = h /\ conn[h] = "queued"
        /\ conn' = [conn EXCEPT ![h] = "open"]
        /\ accepted' = Append(accepted, h)
  BY AcceptHead
<1>2. /\ lpc = "accept" /\ UNCHANGED << sent, handled, mpc, stopper >>
  BY DEF AcceptClient, peer, main
<1>3. ~Down /\ Connected = {}
  BY <1>2, UpOrDown DEF Serving
<1>4. h \notin Service!Admitted
  BY <1>1, Mapping, AcceptedTypes DEF AdmitInv
<1>5. Connected' = {h}
  BY <1>1, <1>3, AcceptedTypes DEF Connected
<1>6. Submitted' = Submitted /\ Down' = Down
  BY <1>2 DEF Submitted, Down
<1> QED
  BY <1>1, <1>2, <1>3, <1>4, <1>5, <1>6
  DEF Service!Admit, Submitted, Connected, Down

(* closesocket disconnects its client, or has no effect.                   *)
LEMMA CloseStepUp ==
  ASSUME IInv, NEW s, Close(s),
         UNCHANGED << sent, handled, accepted, mpc, stopper >>
  PROVE  (\E c \in Conns : Service!Disconnect(c)) \/ UNCHANGED Service!vars
<1>1. Submitted' = Submitted /\ Down' = Down
  BY DEF Submitted, Down
<1>2. CASE s \in Connected
  <2>1. Connected' = Connected \ {s} /\ s \in Conns
    BY <1>2, CloseEffect, AcceptedTypes DEF Connected
  <2> QED
    BY <1>1, <1>2, <2>1 DEF Service!Disconnect, Submitted, Connected, Down
<1>3. CASE s \notin Connected
  <2>1. Connected' = Connected
    BY <1>3, CloseEffect, AcceptedTypes DEF Connected
  <2> QED
    BY <1>1, <2>1, Mapping DEF Submitted, Connected, Down, Service!vars
<1> QED
  BY <1>2, <1>3

(* The parse loop performs the next request of the last client.            *)
LEMMA PerformStepUp ==
  ASSUME IInv, StreamInv, StreamInv', AdmitInv, ParseMessage
  PROVE  \E c \in Conns : Service!Perform(c)
<1>1. PICK c : c = newClient
  OBVIOUS
<1>2. /\ lpc = "parse"
      /\ handled' = [handled EXCEPT ![c] = Append(@, FirstMsg(pending))]
      /\ UNCHANGED << sent, accepted, conn, mpc, stopper >>
  BY <1>1 DEF ParseMessage, sockets, peer, main
<1>3. c \in Conns
  BY <1>1, <1>2 DEF StreamInv, PendingInv, Serving
<1>4. /\ handled[c] \in Seq(Seq(Byte)) /\ Len(handled[c]) \in Nat
      /\ handled'[c] \in Seq(Seq(Byte)) /\ Len(sent[c]) \in Nat
      /\ handled \in [Conns -> Seq(Seq(Byte))]
  BY <1>3, HandledTypes, SentTypes DEF StreamInv, StreamTypeOK
<1>5. /\ Len(handled'[c]) = Len(handled[c]) + 1
      /\ handled'[c][Len(handled[c]) + 1] = FirstMsg(pending)
  BY <1>2, <1>3, <1>4
<1>6. /\ Len(handled[c]) + 1 <= Len(sent[c])
      /\ FirstMsg(pending) = sent[c][Len(handled[c]) + 1].msg
  BY <1>2, <1>3, <1>4, <1>5 DEF StreamInv, FramesIntact
<1>7. /\ Len(Submitted[c]) = Len(sent[c])
      /\ Submitted[c][Len(handled[c]) + 1] = FirstMsg(pending)
  BY <1>3, <1>4, <1>6 DEF Submitted
<1>8. /\ handled' = [handled EXCEPT ![c] =
                       Append(@, Submitted[c][Len(handled[c]) + 1])]
      /\ Len(handled[c]) < Len(Submitted[c])
  BY <1>2, <1>4, <1>6, <1>7
<1>9. ~Down /\ accepted # <<>> /\ c = accepted[Len(accepted)]
  BY <1>1, <1>2, UpOrDown DEF AdmitInv, Serving
<1>10. UNCHANGED << Submitted, Connected, Down >>
  BY <1>2 DEF Submitted, Connected, Down
<1> QED
  BY <1>2, <1>3, <1>8, <1>9, <1>10
  DEF Service!Perform, Submitted, Connected, Down

(* A client submits what it writes the prefix of.                          *)
LEMMA SubmitStepUp ==
  ASSUME StreamInv, NEW c \in Conns, NEW m \in Messages, WritePrefix(c, m)
  PROVE  Service!Submit(c, m)
<1>1. PICK r : r = [msg |-> m, at |-> Len(wire[c])]
  OBVIOUS
<1>2. /\ sent' = [sent EXCEPT ![c] = Append(@, r)]
      /\ UNCHANGED << handled, accepted, conn, mpc, stopper >>
  BY <1>1 DEF WritePrefix, sockets, main, history
<1>3. /\ sent \in [Conns -> Seq([msg : Messages, at : Nat])]
      /\ sent[c] \in Seq([msg : Messages, at : Nat]) /\ Len(sent[c]) \in Nat
      /\ Len(wire[c]) \in Nat
  BY SentTypes DEF StreamInv, StreamTypeOK
<1>4. r \in [msg : Messages, at : Nat] /\ r.msg = m
  BY <1>1, <1>3
<1>5. /\ sent'[c] = Append(sent[c], r) /\ \A d \in Conns : d # c => sent'[d] = sent[d]
      /\ Len(sent'[c]) = Len(sent[c]) + 1
      /\ \A k \in 1 .. Len(sent[c]) : sent'[c][k] = sent[c][k]
      /\ sent'[c][Len(sent[c]) + 1] = r
  BY <1>2, <1>3, <1>4, AppendSeq
<1>6. PICK n \in Nat : n = Len(sent[c])
  BY <1>3
<1>7. PICK old : old = [i \in 1 .. n |-> sent[c][i].msg]
  OBVIOUS
<1>8. \A i \in 1 .. n : sent[c][i].msg \in Messages
  <2>1. \A i \in 1 .. n : sent[c][i] \in [msg : Messages, at : Nat]
    BY <1>3, <1>6, SeqElement
  <2> QED
    BY <2>1
<1>9. old \in Seq(Messages) /\ Len(old) = n
  BY <1>6, <1>7, <1>8
<1>10. [i \in 1 .. n + 1 |-> sent'[c][i].msg] = Append(old, m)
  <2>1. PICK t : t = [i \in 1 .. n + 1 |-> sent'[c][i].msg]
    OBVIOUS
  <2>2. ASSUME NEW i \in 1 .. n PROVE t[i] = old[i] /\ t[i] \in Messages
    <3>1. i \in 1 .. n + 1 /\ i \in 1 .. Len(sent[c])
      BY <1>6
    <3>2. sent'[c][i] = sent[c][i]
      BY <1>5, <3>1
    <3> QED
      BY <1>7, <1>8, <2>1, <3>1, <3>2
  <2>3. t[n + 1] = m
    BY <1>4, <1>5, <1>6, <2>1
  <2>4. \A i \in 1 .. n + 1 : i = n + 1 \/ i \in 1 .. n
    BY <1>6
  <2>5. \A i \in 1 .. n + 1 : t[i] \in Messages
    BY <2>2, <2>3, <2>4
  <2>6. t = [i \in 1 .. n + 1 |-> t[i]]
    BY <2>1
  <2>7. t \in Seq(Messages) /\ Len(t) = n + 1
    BY <1>6, <2>5, <2>6
  <2>8. /\ Append(old, m) \in Seq(Messages) /\ Len(Append(old, m)) = n + 1
        /\ \A i \in 1 .. n : Append(old, m)[i] = old[i]
        /\ Append(old, m)[n + 1] = m
    BY <1>9, AppendSeq
  <2>9. \A i \in 1 .. n + 1 : t[i] = Append(old, m)[i]
    BY <2>2, <2>3, <2>4, <2>8
  <2>10. t = Append(old, m)
    BY <2>7, <2>8, <2>9, SeqEqual
  <2> QED
    BY <2>1, <2>10
<1>11. Submitted' = [Submitted EXCEPT ![c] = Append(@, m)]
  <2>1. Submitted[c] = old
    BY <1>6, <1>7 DEF Submitted
  <2>2. Submitted'[c] = Append(old, m)
    BY <1>5, <1>6, <1>10 DEF Submitted
  <2>3. \A d \in Conns : d # c => Submitted'[d] = Submitted[d]
    BY <1>5 DEF Submitted
  <2>4. /\ Submitted = [d \in Conns |-> Submitted[d]]
        /\ Submitted' = [d \in Conns |-> Submitted'[d]]
    BY DEF Submitted
  <2> QED
    BY <2>1, <2>2, <2>3, <2>4
<1>12. Connected' = Connected /\ Down' = Down
  BY <1>2 DEF Connected, Down
<1> QED
  BY <1>2, <1>11, <1>12 DEF Service!Submit, Submitted, Connected, Down

(* What the service does not see.                                          *)
LEMMA HiddenStepUp ==
  ASSUME UNCHANGED << sent, handled, accepted >>, Connected' = Connected,
         Down' = Down
  PROVE  UNCHANGED Service!vars
<1>1. Submitted' = Submitted
  BY DEF Submitted
<1> QED
  BY <1>1, Mapping DEF Submitted, Connected, Down, Service!vars

(* The steps of the listener.                                              *)
LEMMA ListenerStepUp ==
  ASSUME IInv, StreamInv, StreamInv', AdmitInv, ListenThread
  PROVE  Service!Next \/ UNCHANGED Service!vars
<1> USE DEF members, main, sockets, peer, history
<1>1. CASE AcceptClient
  BY <1>1, AdmitStepUp DEF Service!Next
<1>2. CASE ParseMessage
  BY <1>2, PerformStepUp DEF Service!Next
<1>3. CASE AssignClient \/ CloseClient
  <2>1. Close(clientSocket) /\ UNCHANGED << sent, handled, accepted, mpc, stopper >>
    BY <1>3 DEF AssignClient, CloseClient
  <2> QED
    BY <2>1, CloseStepUp DEF Service!Next
<1>4. CASE AcceptFails
  <2>1. /\ conn' = conn \/ \E s : Close(s)
        /\ UNCHANGED << sent, handled, accepted, mpc, stopper >>
    BY <1>4 DEF AcceptFails
  <2>2. CASE \E s : Close(s)
    BY <2>1, <2>2, CloseStepUp DEF Service!Next
  <2>3. CASE conn' = conn
    BY <2>1, <2>3, HiddenStepUp DEF Connected, Down
  <2> QED
    BY <2>1, <2>2, <2>3
<1>5. CASE ListenThread /\ ~(\/ AcceptClient \/ AcceptFails \/ AssignClient
                            \/ ParseMessage \/ CloseClient)
  <2>1. UNCHANGED << sent, handled, accepted, conn, mpc, stopper >>
    BY <1>5 DEF ListenThread, WhileRunning, InnerWhile, RecvBytes, RecvEnds,
           ParseWaits, HandleMessage, SendPrefix, SendBody, SendPart,
           ForgetClient
  <2> QED
    BY <2>1, HiddenStepUp DEF Connected, Down
<1> QED
  BY <1>1, <1>2, <1>3, <1>4, <1>5

(* The steps of main: Stop disconnects and, when the listener is gone,     *)
(* closes the service.                                                     *)
LEMMA MainStepUp ==
  ASSUME IInv, IInv', Main
  PROVE  Service!Next \/ UNCHANGED Service!vars
<1> USE DEF members, listener, peer, history
<1>1. UNCHANGED << sent, handled, accepted >>
  BY DEF Main, Start, StartListens, StartThreadFails, StartFails, Serve,
         Stop, StopRunning, StopServerSocket, StopCheckClient,
         StopLoadClient, StopCloseClient, StopResetClient, StopJoin,
         StopCleanup, ShutdownProtobuf
<1>2. CASE StopCloseClient
  <2>1. Close(marg) /\ mpc = "closeClient" /\ mpc' = "resetClient"
        /\ stopper' = stopper
    BY <1>2 DEF StopCloseClient
  <2>2. Down' = Down
    BY <2>1 DEF Down
  <2>3. Submitted' = Submitted
    BY <1>1 DEF Submitted
  <2>4. CASE marg \in Connected
    <3>1. Connected' = Connected \ {marg} /\ marg \in Conns
      BY <2>1, <2>4, CloseEffect, AcceptedTypes DEF Connected
    <3> QED
      BY <1>1, <2>2, <2>3, <2>4, <3>1
      DEF Service!Next, Service!Disconnect, Submitted, Connected, Down
  <2>5. CASE marg \notin Connected
    <3>1. Connected' = Connected
      BY <2>1, <2>5, CloseEffect, AcceptedTypes DEF Connected
    <3> QED
      BY <1>1, <2>2, <3>1, HiddenStepUp
  <2> QED
    BY <2>4, <2>5
<1>3. CASE ~StopCloseClient
  <2>1. Connected' = Connected
    <3>1. \/ conn' = conn
          \/ conn' = [c \in Conns |->
                        IF conn[c] = "queued" THEN "closed" ELSE conn[c]]
      BY <1>3 DEF Main, Start, StartListens, StartThreadFails, StartFails,
             Serve, Stop, StopRunning, StopServerSocket, StopCheckClient,
             StopLoadClient, StopResetClient, StopJoin, StopCleanup,
             ShutdownProtobuf, sockets
    <3> QED
      BY <3>1 DEF Connected
  <2>2. Down => Down'
    BY DEF Main, Start, StartListens, StartThreadFails, StartFails, Serve,
           Stop, StopRunning, StopServerSocket, StopCheckClient,
           StopLoadClient, StopCloseClient, StopResetClient, StopJoin,
           StopCleanup, ShutdownProtobuf, Down, main
  <2>3. Down' \in BOOLEAN /\ Down \in BOOLEAN
    BY DEF Down
  <2>4. CASE Down' = Down
    BY <1>1, <2>1, <2>4, HiddenStepUp
  <2>5. CASE ~Down /\ Down'
    <3>1. Connected' = {}
      BY <2>5, UpOrDown DEF Down, Connected, Serving, IInv, LifetimeInv,
                            ListenerInv
    <3>2. Submitted' = Submitted
      BY <1>1 DEF Submitted
    <3> QED
      BY <1>1, <2>1, <2>5, <3>1, <3>2
      DEF Service!Next, Service!Close, Submitted, Connected, Down
  <2> QED
    BY <2>2, <2>3, <2>4, <2>5
<1> QED
  BY <1>2, <1>3

(* The server implements the service, whatever the clients send, however   *)
(* the streams are cut and wherever Stop meets the listener.               *)
THEOREM ImplementsServiceSafe == Spec => ImplementsService
<1>1. Init => Service!Init
  <2> SUFFICES ASSUME Init PROVE Service!Init
    OBVIOUS
  <2>1. Submitted = [c \in Conns |-> <<>>]
    BY DEF Init, Submitted
  <2>2. Connected = {} /\ ~Down
    BY DEF Init, Connected, Down
  <2> QED
    BY <2>1, <2>2 DEF Init, Service!Init, Submitted, Connected, Down
<1>2. IInv /\ IInv' /\ StreamInv /\ StreamInv' /\ AdmitInv /\ [Next]_vars
        => [Service!Next]_(Service!vars)
  <2> SUFFICES ASSUME IInv, IInv', StreamInv, StreamInv', AdmitInv, [Next]_vars
               PROVE  Service!Next \/ UNCHANGED Service!vars
    OBVIOUS
  <2>1. CASE ListenThread
    BY <2>1, ListenerStepUp
  <2>2. CASE Main
    BY <2>2, MainStepUp
  <2>3. CASE \E c \in Conns, m \in Messages : WritePrefix(c, m)
    BY <2>3, SubmitStepUp DEF Service!Next
  <2>4. CASE Clients /\ ~\E c \in Conns, m \in Messages : WritePrefix(c, m)
    <3>1. /\ UNCHANGED << sent, handled, accepted, mpc, stopper >>
          /\ conn' = conn \/ \E c \in Conns : /\ conn[c] = "new"
                               /\ conn' = [conn EXCEPT ![c] = "queued"]
      BY <2>4 DEF Clients, Connect, WriteBody, Hangup, Reset, sockets, main,
                  peer, history
    <3>2. Connected' = Connected /\ Down' = Down
      BY <3>1, AcceptedTypes DEF Connected, Down
    <3> QED
      BY <3>1, <3>2, HiddenStepUp
  <2>5. CASE Interrupt \/ Exited \/ UNCHANGED vars
    <3>1. UNCHANGED << sent, handled, accepted, conn, mpc, stopper >>
      BY <2>5 DEF Interrupt, Exited, vars, sockets, main, peer, history
    <3> QED
      BY <3>1, HiddenStepUp DEF Connected, Down
  <2> QED
    BY <2>1, <2>2, <2>3, <2>4, <2>5 DEF Next
<1> QED
  BY <1>1, <1>2, ControlSafe, StreamSafe, AdmitSafe, PTL
  DEF Spec, ImplementsService, Service!Spec
=============================================================================
