----------------------------- MODULE RemoteCalls -----------------------------
(***************************************************************************)
(* What a client program may believe of its calls, without the network,    *)
(* the bytes or the server's threads: a request is performed at most once, *)
(* and before it is seen to return; the next one is issued when the last   *)
(* one has returned; and a client that ends well has every request         *)
(* answered, or every one but a last request it only posted.               *)
(***************************************************************************)
EXTENDS Naturals

CONSTANT Callers

VARIABLES
  issued,     (* how many requests a caller has issued                     *)
  performed,  (* how many of them were performed                           *)
  returned,   (* how many of them the caller has seen return               *)
  outcome     (* working, answered, posted, failed                         *)

vars == << issued, performed, returned, outcome >>

Init ==
  /\ issued = [c \in Callers |-> 0] /\ performed = [c \in Callers |-> 0]
  /\ returned = [c \in Callers |-> 0]
  /\ outcome = [c \in Callers |-> "working"]

Issue(c) ==
  /\ outcome[c] = "working" /\ returned[c] = issued[c]
  /\ issued' = [issued EXCEPT ![c] = @ + 1]
  /\ UNCHANGED << performed, returned, outcome >>

(* Also when the caller is gone by then.                                   *)
Perform(c) ==
  /\ performed[c] < issued[c]
  /\ performed' = [performed EXCEPT ![c] = @ + 1]
  /\ UNCHANGED << issued, returned, outcome >>

Return(c) ==
  /\ outcome[c] = "working" /\ returned[c] < performed[c]
  /\ returned' = [returned EXCEPT ![c] = @ + 1]
  /\ UNCHANGED << issued, performed, outcome >>

Finish(c) ==
  /\ outcome[c] = "working"
  /\ \/ /\ returned[c] = issued[c]
        /\ outcome' = [outcome EXCEPT ![c] = "answered"]
     \/ /\ returned[c] + 1 = issued[c]
        /\ outcome' = [outcome EXCEPT ![c] = "posted"]
  /\ UNCHANGED << issued, performed, returned >>

Fail(c) ==
  /\ outcome[c] = "working"
  /\ outcome' = [outcome EXCEPT ![c] = "failed"]
  /\ UNCHANGED << issued, performed, returned >>

Next ==
  \E c \in Callers :
    Issue(c) \/ Perform(c) \/ Return(c) \/ Finish(c) \/ Fail(c)

Spec == Init /\ [][Next]_vars
=============================================================================
