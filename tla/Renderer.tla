------------------------------ MODULE Renderer ------------------------------
(***************************************************************************)
(* Server/renderer.cpp: taking hold of a window, drawing a picture on it,  *)
(* and giving back what that took.  Each Win32 call whose outcome depends  *)
(* on the desktop is a step.  rpc says where the running call is, or what  *)
(* it returned.                                                            *)
(***************************************************************************)
EXTENDS Desktop

CONSTANTS Sizes, NoSize

ASSUME NoSizeAssumption == NoSize \notin Sizes

VARIABLES
  rpc,          (* idle; a step of Initialize, RenderImageFrame or Clear;  *)
                (* or the result: true, false                              *)
  param,        (* Initialize's argument                                   *)
  frame,        (* RenderImageFrame's: pixels (Garbage: none were sent),   *)
                (* size                                                    *)
  targetWindow, windowDC, memoryDC, bitmap,    (* the members              *)
  currentSize,  (* currentWidth and currentHeight                          *)
  failed        (* history: a GDI call failed since the request came       *)

call     == << param, frame >>
members  == << targetWindow, windowDC, memoryDC, bitmap, currentSize >>
renderer == << rpc, call, members, failed >>

NoFrame == [pixels |-> Garbage, size |-> NoSize]

(* Renderer::Renderer, with GDI+ started.                                  *)
RendererInit ==
  /\ rpc = "idle" /\ param = NoWindow /\ frame = NoFrame /\ failed = FALSE
  /\ targetWindow = NoWindow /\ windowDC = NoHandle /\ memoryDC = NoHandle
  /\ bitmap = NoHandle /\ currentSize = NoSize

Fail == rpc' = "false" /\ failed' = TRUE

-----------------------------------------------------------------------------
(* DeleteObject and DeleteDC.  A bitmap that is still selected into the    *)
(* memory DC lives until that DC is deleted, which is the next call.       *)
DeleteBitmap == bmp' = Without(bmp, bitmap) /\ bitmap' = NoHandle
DeleteMemoryDC == memDC' = Without(memDC, memoryDC) /\ memoryDC' = NoHandle

(* if (windowDC && targetWindow) ReleaseDC(targetWindow, windowDC)         *)
(* Mutant: the members are reset and nothing is released.                  *)
DropWindowDC == UNCHANGED winDC /\ windowDC' = NoHandle
ReleaseWindowDC ==
  IF targetWindow # NoWindow
    THEN winDC' = Without(winDC, windowDC) /\ windowDC' = NoHandle
    ELSE UNCHANGED << winDC, windowDC >>

(* All but `targetWindow = nullptr`, which Initialize overwrites at once.  *)
Cleanup ==
  DeleteBitmap /\ DeleteMemoryDC /\ ReleaseWindowDC /\ currentSize' = NoSize

-----------------------------------------------------------------------------
CallInitialize(w) ==
  /\ rpc' = "initialize" /\ param' = w
  /\ UNCHANGED << frame, members, failed >>

(* Mutant: a renderer that holds a window is taken to be initialised.      *)
AfterCheckIfNew == IF windowDC = NoHandle THEN "cleanup" ELSE "true"
AfterCheck == "cleanup"

InitializeChecks ==
  /\ rpc = "initialize"
  /\ rpc' = IF Is(param, "exists") THEN AfterCheck ELSE "false"
  /\ UNCHANGED << call, members, failed, desktop >>

(* Cleanup(); this->targetWindow = targetWindow;                           *)
(* Mutant: the other way round.                                            *)
TargetBeforeCleanup == targetWindow' = NoWindow
TargetAfterCleanup == targetWindow' = param

InitializeCleansUp ==
  /\ rpc = "cleanup"
  /\ Cleanup
  /\ TargetAfterCleanup
  /\ rpc' = "getDC"
  /\ UNCHANGED << call, failed, others, screen, topmost, attached >>

InitializeGetsDC ==
  /\ rpc = "getDC"
  /\ \/ /\ Is(param, "exists")
        /\ \E h \in Handles \ DOMAIN winDC :
             winDC' = With(winDC, h, param) /\ windowDC' = h
        /\ rpc' = "createDC" /\ UNCHANGED failed
     \/ Fail /\ UNCHANGED << winDC, windowDC >>
  /\ UNCHANGED << call, targetWindow, memoryDC, bitmap, currentSize, others,
                  memDC, bmp, screen, topmost, attached >>

InitializeCreatesDC ==
  /\ rpc = "createDC"
  /\ \/ /\ \E h \in Handles \ DOMAIN memDC :
             memDC' = With(memDC, h, NoHandle) /\ memoryDC' = h
        /\ rpc' = "attach"
        /\ UNCHANGED << winDC, windowDC, failed >>
     \/ /\ Fail
        /\ winDC' = Without(winDC, windowDC) /\ windowDC' = NoHandle
        /\ UNCHANGED << memDC, memoryDC >>
  /\ UNCHANGED << call, targetWindow, bitmap, currentSize, others, bmp,
                  screen, topmost, attached >>

(* AttachThreadInput fails for the thread of a window that is gone.        *)
InitializeAttaches ==
  /\ rpc = "attach"
  /\ attached' \in { FALSE, Is(param, "exists") }
  /\ rpc' = "restore"
  /\ UNCHANGED << call, members, failed, others, gdi, screen, topmost >>

(* if (IsIconic(targetWindow)) ShowWindow(targetWindow, SW_RESTORE), which *)
(* also shows a window that was hidden meanwhile.  Mutant: it is asked     *)
(* whether the window is hidden.                                           *)
Hidden == Is(param, "exists") /\ ~Is(param, "visible")
Iconic == Is(param, "exists") /\ ~Is(param, "restored")

InitializeRestores ==
  /\ rpc = "restore"
  /\ win' = IF Iconic THEN [win EXCEPT ![param] = @ \cup {"restored", "visible"}]
                     ELSE win
  /\ rpc' = "raise"
  /\ UNCHANGED << call, members, failed, changed, changes, gdi, screen,
                  topmost, attached >>

(* Mutants: Initialize gives up if the window is minimised again; it       *)
(* restores it until it is not.                                            *)
AfterRaiseOrGiveUp == IF Is(param, "restored") THEN "lower" ELSE "false"
AfterRaiseOrAgain == IF Is(param, "restored") THEN "lower" ELSE "restore"
AfterRaise == "lower"

(* SetWindowPos(HWND_TOPMOST), SetForegroundWindow                         *)
InitializeRaises ==
  /\ rpc = "raise"
  /\ topmost' = topmost \cup { w \in {param} : Is(w, "exists") }
  /\ rpc' = AfterRaise
  /\ UNCHANGED << call, members, failed, others, gdi, screen, attached >>

(* SetWindowPos(HWND_NOTOPMOST)                                            *)
InitializeLowers ==
  /\ rpc = "lower"
  /\ topmost' = topmost \ {param}
  /\ rpc' = "detach"
  /\ UNCHANGED << call, members, failed, others, gdi, screen, attached >>

InitializeDetaches ==
  /\ rpc = "detach"
  /\ attached' = FALSE
  /\ rpc' = "true"
  /\ UNCHANGED << call, members, failed, others, gdi, screen, topmost >>

Initialize ==
  \/ InitializeChecks \/ InitializeCleansUp \/ InitializeGetsDC
  \/ InitializeCreatesDC \/ InitializeAttaches \/ InitializeRestores
  \/ InitializeRaises \/ InitializeLowers \/ InitializeDetaches
-----------------------------------------------------------------------------
CallRenderImageFrame(pixels, size) ==
  /\ rpc' = "frame" /\ frame' = [pixels |-> pixels, size |-> size]
  /\ UNCHANGED << param, members, failed >>

Prepared ==
  windowDC # NoHandle /\ memoryDC # NoHandle /\ targetWindow # NoWindow

(* A bitmap of the same dimensions is kept.                                *)
Cached == bitmap # NoHandle /\ frame.size = currentSize

(* The new bitmap h, selected into the memory DC.  Mutant: not selected.   *)
LeaveUnselected(h) == UNCHANGED memDC
SelectBitmap(h) == memDC' = [memDC EXCEPT ![memoryDC] = h]

CreateCompatibleBitmap ==
  \/ /\ \E h \in Handles \ DOMAIN Without(bmp, bitmap) :
          /\ bmp' = With(Without(bmp, bitmap), h,
                         [size |-> frame.size, pixels |-> Black])
          /\ bitmap' = h
          /\ SelectBitmap(h)
     /\ currentSize' = frame.size
     /\ rpc' = "setBits" /\ UNCHANGED failed
  \/ Fail /\ DeleteBitmap /\ UNCHANGED << memDC, currentSize >>

RenderFrameCreatesBitmap ==
  /\ rpc = "frame"
  /\ IF ~Prepared THEN rpc' = "false" /\ UNCHANGED << members, failed, gdi >>
     ELSE IF Cached THEN rpc' = "setBits" /\ UNCHANGED << members, failed, gdi >>
     ELSE /\ CreateCompatibleBitmap
          /\ UNCHANGED << targetWindow, windowDC, memoryDC, winDC >>
  /\ UNCHANGED << call, others, screen, topmost, attached >>

(* SetDIBits reads as many pixels as width and height say, whatever was    *)
(* sent, and fails if it cannot read that far.                             *)
RenderFrameSetsBits ==
  /\ rpc = "setBits"
  /\ \/ /\ bitmap \in DOMAIN bmp
        /\ bmp' = [bmp EXCEPT ![bitmap].pixels =
                     IF bmp[bitmap].size = frame.size THEN frame.pixels
                                                      ELSE Garbage]
        /\ rpc' = "blt" /\ UNCHANGED failed
     \/ Fail /\ UNCHANGED bmp
  /\ UNCHANGED << call, members, others, winDC, memDC, screen, topmost,
                  attached >>

(* The window w shows the bitmap in the memory DC, if it shows anything.   *)
Blt(w) ==
  screen' = IF {"visible", "restored"} \subseteq win[w] /\ memDC[memoryDC] # NoHandle
              THEN [screen EXCEPT ![w] = bmp[memDC[memoryDC]].pixels]
              ELSE screen

(* GetClientRect and StretchBlt.  On the DC of a window that is gone       *)
(* StretchBlt fails, or succeeds and draws nothing.                        *)
RenderFrameBlts ==
  /\ rpc = "blt"
  /\ \/ /\ IF windowDC \in DOMAIN winDC THEN Blt(winDC[windowDC])
                                         ELSE UNCHANGED screen
        /\ rpc' = "true" /\ UNCHANGED failed
     \/ Fail /\ UNCHANGED screen
  /\ UNCHANGED << call, members, others, gdi, topmost, attached >>

RenderImageFrame ==
  RenderFrameCreatesBitmap \/ RenderFrameSetsBits \/ RenderFrameBlts

-----------------------------------------------------------------------------
CallClear ==
  /\ rpc' = "clear"
  /\ UNCHANGED << call, members, failed >>

(* Clear ignores what GetClientRect and FillRect return.                   *)
Clear ==
  /\ rpc = "clear"
  /\ \/ /\ windowDC \in DOMAIN winDC /\ targetWindow # NoWindow
        /\ screen' = [screen EXCEPT ![winDC[windowDC]] = Black]
     \/ UNCHANGED screen
  /\ rpc' = "true"
  /\ UNCHANGED << call, members, failed, others, gdi, topmost, attached >>

RendererStep == Initialize \/ RenderImageFrame \/ Clear

-----------------------------------------------------------------------------
RendererTypeOK ==
  /\ rpc \in { "idle", "initialize", "cleanup", "getDC", "createDC", "attach",
               "restore", "raise", "lower", "detach", "frame", "setBits",
               "blt", "clear", "true", "false" }
  /\ param \in Handle /\ frame.size \in Sizes \cup {NoSize}
  /\ targetWindow \in Handle
  /\ windowDC \in Handles \cup {NoHandle}
  /\ currentSize \in Sizes \cup {NoSize} /\ failed \in BOOLEAN

(* A handle the renderer holds is that of a live object: a bitmap or       *)
(* memory DC of its own, or the target window's DC unless the system took  *)
(* it back.                                                                *)
HandlesLive ==
  /\ windowDC \in DOMAIN winDC => winDC[windowDC] = targetWindow
  /\ bitmap \in DOMAIN bmp \cup {NoHandle}
  /\ memoryDC \in DOMAIN memDC \cup {NoHandle}
  /\ memoryDC # NoHandle => memDC[memoryDC] = bitmap
=============================================================================
