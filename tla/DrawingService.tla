---------------------------- MODULE DrawingService ----------------------------
(***************************************************************************)
(* What the message handler promises the network server and the client,    *)
(* without Win32 calls, GDI objects or the other processes: it takes one   *)
(* request at a time and answers it once, before the next; a request draws *)
(* at most once, what it asks for and on the window it names; and the      *)
(* answer says whether it came to that.                                    *)
(***************************************************************************)
EXTENDS Naturals, Sequences

CONSTANTS
  Windows,
  Requests,  (* records with a kind and, where something is drawn, a window *)
  Ink        (* Ink[k][kind]: what request k of that kind puts on a window *)

VARIABLES
  taken,   (* how many requests were taken                                 *)
  request, (* the last of them                                             *)
  busy,    (* it is not answered yet                                       *)
  drawn,   (* its drawing was done                                         *)
  screen,  (* what was drawn last on each window                           *)
  reply    (* the last answer, and the number of its request               *)

vars == << taken, request, busy, drawn, screen, reply >>

Draws(r) == r.kind \in {"picture", "end", "stop"}

Init ==
  /\ taken = 0 /\ request \in Requests
  /\ ~busy /\ ~drawn
  /\ DOMAIN screen = Windows /\ reply.to = 0

Take(r) ==
  /\ ~busy /\ taken + 1 \in DOMAIN Ink
  /\ taken' = taken + 1 /\ request' = r
  /\ busy' = TRUE
  /\ UNCHANGED << drawn, screen, reply >>

(* The drawing is done at once; a window that shows nothing, because it is *)
(* hidden, minimised or gone, does not show it.                            *)
Draw ==
  /\ busy /\ ~drawn /\ Draws(request) /\ request.window \in Windows
  /\ screen' \in { screen,
                   [screen EXCEPT ![request.window] = Ink[taken][request.kind]] }
  /\ drawn' = TRUE
  /\ UNCHANGED << taken, request, busy, reply >>

(* A list succeeds, a drawing does if it was done, nothing else does; and  *)
(* only a list names windows.                                              *)
Answered(k, success, windows) ==
  /\ reply' = [to |-> k, success |-> success, windows |-> windows]
  /\ busy' = FALSE /\ drawn' = FALSE

Answer ==
  /\ busy
  /\ IF request.kind = "list"
       THEN /\ reply'.windows \in Seq(Windows)
            /\ Answered(taken, TRUE, reply'.windows)
       ELSE Answered(taken, drawn, <<>>)
  /\ UNCHANGED << taken, request, screen >>

(* A request without content is refused as it is taken.                    *)
Refuse(r) ==
  /\ ~busy /\ taken + 1 \in DOMAIN Ink /\ r.kind = "unset"
  /\ taken' = taken + 1 /\ request' = r
  /\ Answered(taken + 1, FALSE, <<>>)
  /\ UNCHANGED screen

Next == Draw \/ Answer \/ \E r \in Requests : Take(r) \/ Refuse(r)

Spec == Init /\ [][Next]_vars
=============================================================================
