---------------------------- MODULE SerialService ----------------------------
(***************************************************************************)
(* What the server promises its clients, without threads, bytes or socket  *)
(* calls: one client at a time; the requests of a client are performed     *)
(* once each, in the order it submitted them; a client's requests are      *)
(* never performed once a later client was admitted; and after the service *)
(* is down nothing is performed and nobody is connected.                   *)
(***************************************************************************)
EXTENDS Naturals, Sequences, FiniteSets

CONSTANTS Clients, Requests

VARIABLES
  submitted,  (* what each client asked for, in order                      *)
  performed,  (* what was performed for it, in order                       *)
  admitted,   (* the clients admitted so far, in order                     *)
  connected,  (* the clients admitted and not yet disconnected             *)
  down        (* the service has stopped                                   *)

vars == << submitted, performed, admitted, connected, down >>

Init ==
  /\ submitted = [c \in Clients |-> <<>>]
  /\ performed = [c \in Clients |-> <<>>]
  /\ admitted = <<>>
  /\ connected = {}
  /\ down = FALSE

Admitted == { admitted[i] : i \in 1 .. Len(admitted) }

Submit(c, r) ==
  /\ submitted' = [submitted EXCEPT ![c] = Append(@, r)]
  /\ UNCHANGED << performed, admitted, connected, down >>

Admit(c) ==
  /\ ~down /\ connected = {} /\ c \notin Admitted
  /\ admitted' = Append(admitted, c)
  /\ connected' = {c}
  /\ UNCHANGED << submitted, performed, down >>

(* The latest client's next request, even when it has just disconnected.   *)
Perform(c) ==
  /\ ~down /\ admitted # <<>> /\ c = admitted[Len(admitted)]
  /\ Len(performed[c]) < Len(submitted[c])
  /\ performed' = [performed EXCEPT ![c] =
                     Append(@, submitted[c][Len(performed[c]) + 1])]
  /\ UNCHANGED << submitted, admitted, connected, down >>

Disconnect(c) ==
  /\ c \in connected
  /\ connected' = connected \ {c}
  /\ UNCHANGED << submitted, performed, admitted, down >>

Close ==
  /\ ~down /\ connected = {}
  /\ down' = TRUE
  /\ UNCHANGED << submitted, performed, admitted, connected >>

Next ==
  \/ \E c \in Clients :
       \/ \E r \in Requests : Submit(c, r)
       \/ Admit(c) \/ Perform(c) \/ Disconnect(c)
  \/ Close

Spec == Init /\ [][Next]_vars
=============================================================================
