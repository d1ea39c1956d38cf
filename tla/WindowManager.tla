---------------------------- MODULE WindowManager ----------------------------
(***************************************************************************)
(* Server/window_manager.cpp: is a window fit to be shown, and which are.  *)
(* Each Win32 call is a step.  wpc says where the running call is, or what *)
(* it returned.                                                            *)
(***************************************************************************)
EXTENDS Desktop

VARIABLES
  wpc,         (* idle; a step of IsWindowValid or EnumerateWindows; or    *)
               (* the result: valid, invalid, listed                       *)
  hwnd,        (* the argument of IsWindowValid                            *)
  enumerating, (* IsWindowValid was called by EnumWindowsProc              *)
  todo,        (* the windows EnumWindows has yet to call back for         *)
  windowList   (* WindowManager::windowList                                *)

windowManager == << wpc, hwnd, enumerating, todo, windowList >>

WindowManagerInit ==
  /\ wpc = "idle" /\ hwnd = NoWindow
  /\ enumerating = FALSE /\ todo = {} /\ windowList = <<>>

-----------------------------------------------------------------------------
CallIsWindowValid(w) ==
  /\ wpc' = "isWindow" /\ hwnd' = w /\ enumerating' = FALSE
  /\ UNCHANGED << todo, windowList >>

Query(at, cond, next) ==
  /\ wpc = at
  /\ wpc' = IF Is(hwnd, cond) THEN next ELSE "invalid"
  /\ UNCHANGED << hwnd, enumerating, todo, windowList >>

(* DWM answers only for a window that still exists.                        *)
Cloaked == Is(hwnd, "exists") /\ ~Is(hwnd, "uncloaked")

IsWindowValid ==
  \/ Query("isWindow", "exists", "isVisible")
  \/ Query("isVisible", "visible", "getText")
  \/ Query("getText", "titled", "getCloaked")
  \/ /\ wpc = "getCloaked"
     /\ wpc' = IF Cloaked THEN "invalid" ELSE "valid"
     /\ UNCHANGED << hwnd, enumerating, todo, windowList >>

-----------------------------------------------------------------------------
(* windowList.clear().  Mutant: the windows listed before stay in it.      *)
KeepList == UNCHANGED windowList
ClearList == windowList' = <<>>

(* EnumWindows calls back for the windows there were when it was called.   *)
CallEnumerateWindows ==
  /\ ClearList
  /\ todo' = { w \in Windows : Is(w, "exists") }
  /\ wpc' = "next" /\ enumerating' = TRUE
  /\ UNCHANGED hwnd

NextWindow ==
  /\ wpc = "next"
  /\ \E w \in todo : hwnd' = w /\ todo' = todo \ {w}
  /\ wpc' = "isWindow"
  /\ UNCHANGED << enumerating, windowList >>

EndEnumeration ==
  /\ wpc = "next" /\ todo = {}
  /\ wpc' = "listed"
  /\ UNCHANGED << hwnd, enumerating, todo, windowList >>

(* EnumWindowsProc, once IsWindowValid has returned.                       *)
EnumWindowsProc ==
  /\ enumerating /\ wpc \in { "valid", "invalid" }
  /\ windowList' = IF wpc = "valid" THEN Append(windowList, hwnd) ELSE windowList
  /\ wpc' = "next"
  /\ UNCHANGED << hwnd, enumerating, todo >>

WindowManagerStep ==
  IsWindowValid \/ NextWindow \/ EndEnumeration \/ EnumWindowsProc

-----------------------------------------------------------------------------
WindowManagerTypeOK ==
  /\ wpc \in { "idle", "isWindow", "isVisible", "getText", "getCloaked",
               "valid", "invalid", "next", "listed" }
  /\ hwnd \in Handle /\ enumerating \in BOOLEAN
  /\ todo \subseteq Windows /\ windowList \in Seq(Windows)
=============================================================================
