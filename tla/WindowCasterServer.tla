------------------------- MODULE WindowCasterServer -------------------------
(***************************************************************************)
(* The message handler of Server/Server.cpp: it runs on the listener       *)
(* thread, takes one parsed request at a time through WindowManager and    *)
(* Renderer, and answers it, while other processes change the desktop.     *)
(* NetworkServer says how the request arrives and how the answer leaves;   *)
(* here a request is received at once and an answer is sent at once.       *)
(***************************************************************************)
EXTENDS WindowManager, Renderer

CONSTANT MaxRequests  (* bound: the requests of a run                      *)

ASSUME RequestsAssumption == MaxRequests \in Nat

VARIABLES
  pc,      (* where HandleMessage is                                       *)
  n,       (* the number of the request                                    *)
  req,     (* the request                                                  *)
  reply    (* the last answer, the request it answers, the windows listed  *)

server == << pc, n, req, reply >>
vars   == << server, windowManager, renderer, desktop >>

(* The requests.  Image and Video carry a picture of some size; the frame  *)
(* a client sends at the end of a video has a size and no data.  A         *)
(* RenderCommand may carry no content, and a ClientRequest no request.     *)
Request ==
  [kind : {"list", "unset"}] \cup [kind : {"stop", "empty"}, window : Handle]
    \cup [kind : {"picture", "end"}, window : Handle, size : Sizes]

Init ==
  /\ DesktopInit /\ WindowManagerInit /\ RendererInit
  /\ pc = "idle" /\ n = 0 /\ req = [kind |-> "unset"]
  /\ reply = [to |-> 0, success |-> FALSE, windows |-> <<>>]

-----------------------------------------------------------------------------
(* The answer to request k.  Mutant: there is none to report a failure.    *)
OnlyGoodNews(k, success, windows) ==
  IF success THEN [to |-> k, success |-> success, windows |-> windows] ELSE reply
Response(k, success, windows) ==
  [to |-> k, success |-> success, windows |-> windows]

Answer(k, success, windows) ==
  /\ reply' = Response(k, success, windows)
  /\ pc' = "idle"

(* HandleMessage: the switch on request_case.                              *)
Receive(r) ==
  /\ pc = "idle" /\ n < MaxRequests
  /\ n' = n + 1 /\ req' = r
  /\ changed' = {} /\ failed' = FALSE
  /\ \/ /\ r.kind = "list"
        /\ CallEnumerateWindows
        /\ pc' = "listing" /\ UNCHANGED reply
     \/ /\ r.kind = "unset"
        /\ Answer(n + 1, FALSE, <<>>)
        /\ UNCHANGED windowManager
     \/ /\ r.kind \notin { "list", "unset" }
        /\ CallIsWindowValid(r.window)
        /\ pc' = "validating" /\ UNCHANGED reply
  /\ UNCHANGED << rpc, call, members, win, changes, gdi, screen, topmost,
                  attached >>

(* HandleGetWindowList                                                     *)
SendWindowList ==
  /\ pc = "listing" /\ wpc = "listed"
  /\ Answer(n, TRUE, windowList)
  /\ wpc' = "idle"
  /\ UNCHANGED << n, req, hwnd, enumerating, todo, windowList, renderer,
                  desktop >>

(* ValidateAndInitialize                                                   *)
Validate ==
  /\ pc = "validating" /\ wpc \in { "valid", "invalid" }
  /\ IF wpc = "valid"
       THEN CallInitialize(hwnd) /\ pc' = "initializing" /\ UNCHANGED reply
       ELSE Answer(n, FALSE, <<>>) /\ UNCHANGED renderer
  /\ wpc' = "idle"
  /\ UNCHANGED << n, req, hwnd, enumerating, todo, windowList, desktop >>

InitializeFailed ==
  /\ pc = "initializing" /\ rpc = "false"
  /\ Answer(n, FALSE, <<>>)
  /\ rpc' = "idle"
  /\ UNCHANGED << n, req, windowManager, call, members, failed, desktop >>

(* HandleRenderCommand and HandleStopRender go on.                         *)
Dispatch ==
  /\ pc = "initializing" /\ rpc = "true"
  /\ \/ /\ req.kind \in { "picture", "end" }
        /\ CallRenderImageFrame(IF req.kind = "end" THEN Garbage ELSE Picture(n),
                                req.size)
        /\ pc' = "rendering" /\ UNCHANGED reply
     \/ /\ req.kind = "stop"
        /\ CallClear
        /\ pc' = "clearing" /\ UNCHANGED reply
     \/ /\ req.kind = "empty"
        /\ Answer(n, FALSE, <<>>)
        /\ rpc' = "idle" /\ UNCHANGED << call, members, failed >>
  /\ UNCHANGED << n, req, windowManager, desktop >>

FinishRender ==
  /\ pc = "rendering" /\ rpc \in { "true", "false" }
  /\ Answer(n, rpc = "true", <<>>)
  /\ rpc' = "idle"
  /\ UNCHANGED << n, req, windowManager, call, members, failed, desktop >>

FinishStop ==
  /\ pc = "clearing" /\ rpc = "true"
  /\ Answer(n, TRUE, <<>>)
  /\ rpc' = "idle"
  /\ UNCHANGED << n, req, windowManager, call, members, failed, desktop >>

HandleMessage ==
  \/ SendWindowList \/ Validate \/ InitializeFailed \/ Dispatch
  \/ FinishRender \/ FinishStop
  \/ WindowManagerStep /\ UNCHANGED << server, renderer, desktop >>
  \/ RendererStep /\ UNCHANGED << server, windowManager >>

(* ~Renderer, on the main thread after the listener was joined.  ReleaseDC *)
(* may refuse a DC that another thread got.                                *)
Destroyed ==
  /\ pc = "idle"
  /\ DeleteBitmap /\ DeleteMemoryDC /\ (DropWindowDC \/ ReleaseWindowDC)
  /\ targetWindow' = NoWindow /\ currentSize' = NoSize
  /\ pc' = "gone"
  /\ UNCHANGED << n, req, reply, windowManager, rpc, call, failed, others,
                  screen, topmost, attached >>

Gone == pc = "gone" /\ UNCHANGED vars

Next ==
  \/ HandleMessage
  \/ \E r \in Request : Receive(r)
  \/ OtherProcesses /\ UNCHANGED << server, windowManager, renderer >>
  \/ Destroyed \/ Gone

Spec == Init /\ [][Next]_vars

(* The listener thread is scheduled and no Win32 call hangs.               *)
FairSpec == Spec /\ WF_vars(HandleMessage)
-----------------------------------------------------------------------------
(***************************************************************************)
(* Properties.                                                             *)
(***************************************************************************)

ServerTypeOK ==
  /\ pc \in { "idle", "listing", "validating", "initializing", "rendering",
              "clearing", "gone" }
  /\ n \in 0 .. MaxRequests /\ req \in Request
  /\ reply.to \in 0 .. n /\ reply.windows \in Seq(Windows)

(* Every variable has its type, and the handles Renderer keeps are those   *)
(* of live objects.                                                        *)
TypeOK ==
  /\ ServerTypeOK /\ WindowManagerTypeOK /\ RendererTypeOK /\ DesktopTypeOK
  /\ HandlesLive

(* Whatever fails half-way, no GDI object is ever live whose handle the    *)
(* renderer has lost; and the bitmap and the memory DC do not outlive it.  *)
NothingLost ==
  /\ DOMAIN memDC \subseteq {memoryDC} /\ DOMAIN bmp \subseteq {bitmap}
  /\ pc # "gone" => DOMAIN winDC \subseteq {windowDC}

(* Between requests no window is left above the others and no input queue  *)
(* is left shared, however Initialize ended.                               *)
LeavesNoTrace ==
  pc \in { "idle", "gone" } => topmost = {} /\ ~attached

Answered(kind) == pc = "idle" /\ n > 0 /\ req.kind = kind

(* Nobody else has touched the window since the request came.              *)
Untouched(w) == \A cond \in Conds : << w, cond >> \notin changed
Presentable(w) == { "exists", "visible", "titled", "uncloaked" } \subseteq win[w]

(* A picture that was drawn is reported as drawn; and one that is reported *)
(* as drawn is what its window shows, unless somebody else touched that    *)
(* window meanwhile.                                                       *)
SuccessIsDrawn ==
  Answered("picture") =>
    /\ \A w \in Windows :
         screen[w] = Picture(n) => w = req.window /\ reply.success
    /\ reply.success =>
         /\ req.window \in Windows
         /\ Untouched(req.window) => screen[req.window] = Picture(n)

(* If nobody touches a presentable window and no GDI call fails, a picture *)
(* for it is drawn, whatever became of the requests and windows before.    *)
ServesUndisturbed ==
  Answered("picture") /\ req.window \in Windows =>
    (Untouched(req.window) /\ Presentable(req.window) /\ ~failed
       => reply.success)

(* A list names no window twice, every untouched window that is            *)
(* presentable, and none that lacked one of the conditions all the time.   *)
ListExact ==
  Answered("list") =>
    LET Listed == Range(reply.windows)
    IN  /\ Len(reply.windows) = Cardinality(Listed)
        /\ \A w \in Windows :
             Untouched(w) /\ Presentable(w) => w \in Listed
        /\ \A w \in Listed : \A cond \in Conds \ {"restored"} :
             << w, cond >> \notin changed => cond \in win[w]

(* Only the window a request names is drawn on, and only while that        *)
(* request is handled.                                                     *)
TargetDrawn ==
  \A w \in Windows :
    screen'[w] # screen[w] =>
      pc \in { "rendering", "clearing" } /\ w = req.window
OnlyTargetDrawn == [][TargetDrawn]_vars

(* Every request is answered, also those that fail.                        *)
AllAnswered == \A k \in 1 .. MaxRequests : n = k ~> reply.to = k

(* How many steps HandleMessage has yet to take at most: six for a window  *)
(* that is to be listed, and the calls that are still to come.             *)
QueryLeft == [ isWindow |-> 5, isVisible |-> 4, getText |-> 3, getCloaked |-> 2,
               valid |-> 1, invalid |-> 1, next |-> 0, listed |-> 0,
               idle |-> 0 ]
CallLeft == [ initialize |-> 10, cleanup |-> 9, getDC |-> 8, createDC |-> 7,
              attach |-> 6, restore |-> 5, raise |-> 4, lower |-> 3,
              detach |-> 2, frame |-> 4, setBits |-> 3, blt |-> 2,
              clear |-> 2, true |-> 1, false |-> 1, idle |-> 0 ]
StepsLeft ==
  CASE pc = "listing" /\ wpc # "listed" -> 6 * Cardinality(todo) + 2 + QueryLeft[wpc]
    [] pc = "listing" /\ wpc = "listed" -> 1
    [] pc = "validating"                -> 14 + QueryLeft[wpc]
    [] pc = "initializing"              -> 4 + CallLeft[rpc]
    [] OTHER                            -> CallLeft[rpc]

(* A request cannot keep the handler: each step of the program brings the  *)
(* answer nearer, and what other processes do to the windows meanwhile     *)
(* does not put it off.                                                    *)
Nearer == UNCHANGED << server, windowManager, renderer >> \/ StepsLeft' < StepsLeft
RequestNearer == [][pc \notin {"idle", "gone"} => Nearer]_vars

-----------------------------------------------------------------------------
(* The abstract handler this one implements: what is in between its calls  *)
(* is of no consequence to who sent the request.                           *)
Drawings == INSTANCE DrawingService WITH
  Requests <- Request,
  Ink      <- [k \in 1 .. MaxRequests |->
                 [picture |-> Picture(k), end |-> Garbage, stop |-> Black]],
  taken    <- n,
  request  <- req,
  busy     <- pc \notin {"idle", "gone"},
  drawn    <- pc \in {"rendering", "clearing"} /\ rpc = "true"

(* Every step of the handler, the window manager and the renderer, with    *)
(* any call failing and any window changing under it, is a step of         *)
(* DrawingService or changes nothing there.                                *)
ImplementsDrawing == Drawings!Spec

-----------------------------------------------------------------------------
(* "Send the final frame (an empty frame) to signal the end of video"      *)
(* (client/src/video.rs): the server takes it for a signal, not a picture. *)
EndOfVideoNotDrawn == \A w \in Windows : screen[w] # Garbage

-----------------------------------------------------------------------------
(***************************************************************************)
(* The inductive invariant behind TypeOK, NothingLost, LeavesNoTrace and   *)
(* OnlyTargetDrawn.                                                        *)
(***************************************************************************)
Finding   == { "isVisible", "getText", "getCloaked", "valid" }
Preparing == { "getDC", "createDC", "attach", "restore", "raise", "lower",
               "detach" }
Drawing   == { "frame", "setBits", "blt" }

(* Where the three parts are with respect to each other.                   *)
CallInv ==
  /\ pc \in { "idle", "listing", "validating", "gone" } => rpc = "idle"
  /\ pc = "initializing" =>
       rpc \in {"initialize", "cleanup", "true", "false"} \cup Preparing
  /\ pc = "rendering" => rpc \in {"true", "false"} \cup Drawing
  /\ pc = "clearing" => rpc \in {"true", "clear"}
  /\ pc = "validating" =>
       ~enumerating /\ wpc \in {"isWindow", "invalid"} \cup Finding

(* The window the request names is the one that is checked, taken hold of  *)
(* and drawn on.                                                           *)
TargetInv ==
  /\ wpc \in Finding => hwnd \in Windows
  /\ pc = "validating" => hwnd = req.window
  /\ pc \in { "initializing", "rendering", "clearing" } => param = req.window
  /\ rpc \in {"cleanup", "clear", "true"} \cup Preparing \cup Drawing =>
       param \in Windows
  /\ rpc \in {"clear", "true"} \cup Preparing \cup Drawing =>
       targetWindow = param

(* A window is above the others, and queues are shared, only on the way    *)
(* from one call of Initialize to the other.                               *)
TraceInv ==
  /\ topmost \subseteq IF rpc = "lower" THEN {param} ELSE {}
  /\ attached => rpc \in { "restore", "raise", "lower", "detach" }

(* Cleanup releases everything, because a DC is only held with a target;   *)
(* and nothing is created where there still is something.                  *)
ObjectInv ==
  /\ NothingLost
  /\ NoHandle \notin DOMAIN winDC \cup DOMAIN memDC \cup DOMAIN bmp
  /\ windowDC # NoHandle => targetWindow # NoWindow
  /\ rpc = "getDC" => windowDC = NoHandle
  /\ rpc \in { "getDC", "createDC" } => memoryDC = NoHandle
  /\ rpc \in Preparing \cup {"frame"} \/ (pc = "initializing" /\ rpc = "true") =>
       bitmap = NoHandle

RequestInv == TypeOK /\ CallInv /\ TargetInv /\ TraceInv /\ ObjectInv

(***************************************************************************)
(* The inductive invariant behind SuccessIsDrawn, ServesUndisturbed and    *)
(* ListExact: what is known of a window that nobody else has touched.      *)
(***************************************************************************)

(* What IsWindowValid has found true of hwnd so far.                       *)
Found ==
  { cond \in Conds \ {"restored"} :
      \/ wpc = "valid"
      \/ cond = "exists" /\ wpc \in { "isVisible", "getText", "getCloaked" }
      \/ cond = "visible" /\ wpc \in { "getText", "getCloaked" }
      \/ cond = "titled" /\ wpc = "getCloaked" }

(* The conditions in S held of w, and still do where nobody changed them.  *)
Held(w, S) == \A cond \in S : << w, cond >> \notin changed => cond \in win[w]

FoundInv ==
  /\ \A w \in Windows : << w, "exists" >> \in changed =>
                           \A cond \in Conds : << w, cond >> \in changed
  /\ pc \notin { "listing", "validating" } => wpc = "idle"
  /\ hwnd \in Windows => Held(hwnd, Found)
  /\ wpc = "invalid" /\ hwnd \in Windows =>
       ~(Untouched(hwnd) /\ Presentable(hwnd))

(* The window EnumWindowsProc is at.                                       *)
Current == IF wpc \in { "next", "listed" } THEN {} ELSE {hwnd}

ListInv ==
  pc = "listing" =>
    /\ enumerating /\ wpc # "idle"
    /\ wpc = "listed" => todo = {}
    /\ Current \subseteq Windows \ todo
    /\ Range(windowList) \cap (todo \cup Current) = {}
    /\ Len(windowList) = Cardinality(Range(windowList))
    /\ \A w \in Windows : Untouched(w) /\ Presentable(w) =>
                            w \in todo \cup Current \cup Range(windowList)
    /\ \A w \in Range(windowList) : Held(w, Conds \ {"restored"})

(* Before and after the request's StretchBlt.                              *)
Undrawn == \/ pc \in { "validating", "initializing" }
           \/ pc = "rendering" /\ rpc # "true"
Drawn   == pc = "rendering" /\ rpc = "true"

(* Which requests each step of the dispatcher is for.                      *)
KindInv ==
  /\ pc = "listing" => req.kind = "list"
  /\ pc \in { "validating", "initializing" } => req.kind \notin {"list", "unset"}
  /\ pc = "rendering" => req.kind \in {"picture", "end"}
  /\ pc = "clearing" => req.kind = "stop"

(* The picture of a request is drawn by its StretchBlt and by nothing else.*)
ScreenInv ==
  /\ \A k \in n + 1 .. MaxRequests, w \in Windows : screen[w] # Picture(k)
  /\ req.kind = "picture" /\ Undrawn =>
       \A w \in Windows : screen[w] # Picture(n)
  /\ req.kind = "picture" /\ Drawn =>
       /\ \A w \in Windows : screen[w] = Picture(n) => w = req.window
       /\ Untouched(req.window) => screen[req.window] = Picture(n)
  /\ pc = "rendering" =>
       frame.pixels = IF req.kind = "picture" THEN Picture(n) ELSE Garbage

(* Initialize has got past these calls, or a picture is being drawn.       *)
Past(calls) ==
  \/ rpc \in Preparing \ calls \/ rpc \in Drawing
  \/ pc = "initializing" /\ rpc = "true"

(* What the renderer has taken hold of, and that it can be drawn on.       *)
HoldInv ==
  /\ Past({"getDC"}) =>
       windowDC # NoHandle /\ (Untouched(param) => windowDC \in DOMAIN winDC)
  /\ Past({"getDC", "createDC"}) => memoryDC # NoHandle
  /\ pc = "initializing" =>
       /\ param \in Windows
       /\ Untouched(param) => {"exists", "visible"} \subseteq win[param]
  /\ Past({"getDC", "createDC", "attach", "restore"}) /\ Untouched(param) =>
       {"visible", "restored"} \subseteq win[param]
  /\ rpc \in {"setBits", "blt"} => bitmap # NoHandle
  /\ rpc = "setBits" => bmp[bitmap] = [size |-> frame.size, pixels |-> Black]
  /\ rpc = "blt" => bmp[bitmap].pixels = frame.pixels
  /\ pc \in { "initializing", "rendering" } /\ rpc = "false" =>
       failed \/ ~Untouched(param)

AnswerInv ==
  /\ FoundInv /\ ListInv /\ KindInv /\ ScreenInv /\ HoldInv
  /\ SuccessIsDrawn /\ ServesUndisturbed /\ ListExact

(* Types included, nothing the handler, failing calls or other processes   *)
(* do leads out of this set of states.                                     *)
HandlerInv == RequestInv /\ AnswerInv
=============================================================================
