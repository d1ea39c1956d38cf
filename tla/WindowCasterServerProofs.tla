---------------------- MODULE WindowCasterServerProofs ----------------------
(***************************************************************************)
(* WindowCasterServer's safety, for all windows, handles and sizes, and    *)
(* for every way of failing and every order of requests and changes: first *)
(* RequestInv, what is held and where the parts are, then AnswerInv, that  *)
(* an answer says what was done.                                           *)
(***************************************************************************)
EXTENDS WindowCasterServer, TLAPS, FiniteSetTheorems

(* What giving an object back does to GDI's tables.                        *)
LEMMA BitmapDeleted ==
  ASSUME DeleteBitmap
  PROVE  DOMAIN bmp' = DOMAIN bmp \ {bitmap} /\ bitmap' = NoHandle
BY DEF DeleteBitmap, Without, Restrict

LEMMA MemoryDCDeleted ==
  ASSUME DeleteMemoryDC
  PROVE  DOMAIN memDC' = DOMAIN memDC \ {memoryDC} /\ memoryDC' = NoHandle
BY DEF DeleteMemoryDC, Without, Restrict

(* A window's DC is given back because there is none without a target.     *)
LEMMA WindowDCReleased ==
  ASSUME ReleaseWindowDC, ObjectInv
  PROVE  DOMAIN winDC' = DOMAIN winDC \ {windowDC} /\ windowDC' = NoHandle
BY DEF ReleaseWindowDC, ObjectInv, Without, Restrict

(* Before the first request nothing is held.                               *)
LEMMA Initial == Init => RequestInv
<1> SUFFICES ASSUME Init PROVE RequestInv
  OBVIOUS
<1> USE NoHandleAssumption, NoWindowAssumption, NoSizeAssumption,
        ChangesAssumption, RequestsAssumption
    DEF Init, DesktopInit, WindowManagerInit, RendererInit
<1>1. DOMAIN winDC = {} /\ DOMAIN memDC = {} /\ DOMAIN bmp = {}
  OBVIOUS
<1>2. ServerTypeOK
  <2>1. req \in Request
    BY DEF Request
  <2> QED
    BY <2>1 DEF ServerTypeOK
<1>3. WindowManagerTypeOK /\ RendererTypeOK /\ DesktopTypeOK /\ HandlesLive
  <2>1. WindowManagerTypeOK
    <3>1. windowList \in Seq(Windows)
      OBVIOUS
    <3> QED
      BY <3>1 DEF WindowManagerTypeOK, Handle
  <2>2. RendererTypeOK
    BY DEF RendererTypeOK, Handle, NoFrame
  <2>3. DesktopTypeOK
    <3>1. win \in [Windows -> SUBSET Conds]
      OBVIOUS
    <3>2. changed \subseteq Windows \X Conds /\ topmost \subseteq Windows
      OBVIOUS
    <3>3. changes \in 0 .. MaxChanges
      OBVIOUS
    <3> QED
      BY <3>1, <3>2, <3>3 DEF DesktopTypeOK
  <2>4. HandlesLive
    BY <1>1 DEF HandlesLive
  <2> QED
    BY <2>1, <2>2, <2>3, <2>4
<1>4. CallInv /\ TargetInv /\ TraceInv
  BY DEF CallInv, TargetInv, TraceInv, Finding, Preparing, Drawing
<1>5. ObjectInv
  BY <1>1 DEF ObjectInv, NothingLost, Preparing
<1> QED
  BY <1>2, <1>3, <1>4, <1>5 DEF RequestInv, TypeOK

-----------------------------------------------------------------------------
(* One lemma per component: its steps preserve the invariant.              *)

(* WindowManager::IsWindowValid and EnumerateWindows.                      *)
LEMMA WindowManagerStepSafe ==
  ASSUME RequestInv, WindowManagerStep,
         UNCHANGED << server, renderer, desktop >>
  PROVE  RequestInv'
<1>1. /\ ServerTypeOK /\ WindowManagerTypeOK /\ RendererTypeOK /\ DesktopTypeOK
      /\ HandlesLive /\ CallInv /\ TargetInv /\ TraceInv /\ ObjectInv
  BY DEF RequestInv, TypeOK
<1> USE <1>1, NoHandleAssumption, NoWindowAssumption, NoSizeAssumption
    DEF Handle, Is, server, renderer, call, members, desktop, others, gdi
<1>2. /\ ServerTypeOK' /\ RendererTypeOK' /\ DesktopTypeOK' /\ HandlesLive'
      /\ TraceInv' /\ ObjectInv'
  BY DEF ServerTypeOK, RendererTypeOK, DesktopTypeOK, HandlesLive, TraceInv,
     ObjectInv, NothingLost
<1>3. CASE IsWindowValid
  <2>1. WindowManagerTypeOK'
    BY <1>3 DEF IsWindowValid, Query, Cloaked, WindowManagerTypeOK,
       DesktopTypeOK, TargetInv, Finding
  <2>2. CallInv' /\ TargetInv'
    BY <1>3 DEF IsWindowValid, Query, Cloaked, CallInv, TargetInv, Preparing,
       Drawing, Finding, WindowManagerTypeOK
  <2> QED
    BY <1>2, <2>1, <2>2 DEF RequestInv, TypeOK
<1>4. CASE NextWindow
  <2>1. WindowManagerTypeOK'
    BY <1>4 DEF NextWindow, WindowManagerTypeOK, DesktopTypeOK, TargetInv,
       Finding
  <2>2. CallInv' /\ TargetInv'
    BY <1>4 DEF NextWindow, CallInv, TargetInv, Preparing, Drawing, Finding,
       WindowManagerTypeOK
  <2> QED
    BY <1>2, <2>1, <2>2 DEF RequestInv, TypeOK
<1>5. CASE EndEnumeration
  <2>1. WindowManagerTypeOK'
    BY <1>5 DEF EndEnumeration, WindowManagerTypeOK, DesktopTypeOK, TargetInv,
       Finding
  <2>2. CallInv' /\ TargetInv'
    BY <1>5 DEF EndEnumeration, CallInv, TargetInv, Preparing, Drawing,
       Finding, WindowManagerTypeOK
  <2> QED
    BY <1>2, <2>1, <2>2 DEF RequestInv, TypeOK
<1>6. CASE EnumWindowsProc
  <2>1. WindowManagerTypeOK'
    BY <1>6 DEF EnumWindowsProc, WindowManagerTypeOK, DesktopTypeOK,
       TargetInv, Finding
  <2>2. CallInv' /\ TargetInv'
    BY <1>6 DEF EnumWindowsProc, CallInv, TargetInv, Preparing, Drawing,
       Finding, WindowManagerTypeOK
  <2> QED
    BY <1>2, <2>1, <2>2 DEF RequestInv, TypeOK
<1> QED
  BY <1>3, <1>4, <1>5, <1>6 DEF WindowManagerStep

(* Renderer::Initialize, and the Cleanup it begins with.                   *)
LEMMA InitializeSafe ==
  ASSUME RequestInv, Initialize,
         UNCHANGED << server, windowManager >>
  PROVE  RequestInv'
<1>1. /\ ServerTypeOK /\ WindowManagerTypeOK /\ RendererTypeOK /\ DesktopTypeOK
      /\ HandlesLive /\ CallInv /\ TargetInv /\ TraceInv /\ ObjectInv
  BY DEF RequestInv, TypeOK
<1> USE <1>1, NoHandleAssumption, NoWindowAssumption, NoSizeAssumption
    DEF Handle, Is, Fail, server, windowManager, call, members, desktop,
       others, gdi
<1>2. ServerTypeOK' /\ WindowManagerTypeOK'
  BY DEF ServerTypeOK, WindowManagerTypeOK
<1>3. CASE InitializeChecks
  <2>1. RendererTypeOK' /\ DesktopTypeOK'
    BY <1>3 DEF InitializeChecks, AfterCheck, RendererTypeOK, DesktopTypeOK
  <2>2. HandlesLive' /\ ObjectInv'
    BY <1>3 DEF InitializeChecks, AfterCheck, CallInv, HandlesLive, ObjectInv,
       NothingLost, TargetInv, RendererTypeOK, Preparing, Drawing
  <2>3. CallInv' /\ TargetInv' /\ TraceInv'
    BY <1>3 DEF InitializeChecks, AfterCheck, CallInv, TargetInv, TraceInv,
       Preparing, Drawing, Finding
  <2> QED
    BY <1>2, <2>1, <2>2, <2>3 DEF RequestInv, TypeOK
<1>4. CASE InitializeCleansUp
  <2>1. RendererTypeOK' /\ DesktopTypeOK'
    BY <1>4 DEF InitializeCleansUp, Cleanup, DeleteBitmap, DeleteMemoryDC,
       ReleaseWindowDC, TargetAfterCleanup, RendererTypeOK, DesktopTypeOK,
       Preparing, Drawing, TargetInv
  <2>2. HandlesLive' /\ ObjectInv'
    <3> USE DEF ObjectInv, NothingLost
    <3>1. /\ DeleteBitmap /\ DeleteMemoryDC /\ ReleaseWindowDC /\ pc # "gone"
      BY <1>4 DEF InitializeCleansUp, Cleanup, CallInv
    <3>2. DOMAIN bmp' = {} /\ bitmap' = NoHandle
      BY <3>1, BitmapDeleted
    <3>3. DOMAIN memDC' = {} /\ memoryDC' = NoHandle
      BY <3>1, MemoryDCDeleted
    <3>4. DOMAIN winDC' = {} /\ windowDC' = NoHandle
      BY <3>1, WindowDCReleased
    <3>5. rpc' = "getDC"
      BY <1>4 DEF InitializeCleansUp
    <3> QED
      BY <3>2, <3>3, <3>4, <3>5 DEF HandlesLive
  <2>3. CallInv' /\ TargetInv' /\ TraceInv'
    BY <1>4 DEF InitializeCleansUp, Cleanup, DeleteBitmap, DeleteMemoryDC,
       ReleaseWindowDC, TargetAfterCleanup, CallInv, TargetInv, TraceInv,
       Preparing, Drawing, Finding
  <2> QED
    BY <1>2, <2>1, <2>2, <2>3 DEF RequestInv, TypeOK
<1>5. CASE InitializeGetsDC
  <2>1. RendererTypeOK' /\ DesktopTypeOK'
    BY <1>5 DEF InitializeGetsDC, RendererTypeOK, DesktopTypeOK
  <2>2. HandlesLive' /\ ObjectInv'
    <3>1. /\ DOMAIN winDC = {} /\ windowDC = NoHandle /\ bitmap = NoHandle
          /\ memoryDC = NoHandle /\ targetWindow = param /\ param \in Windows
      BY <1>5 DEF InitializeGetsDC, CallInv, ObjectInv, NothingLost, TargetInv,
         Preparing
    <3>2. UNCHANGED << memoryDC, bitmap, targetWindow, memDC, bmp, pc >>
      BY <1>5 DEF InitializeGetsDC
    <3>3. ASSUME NEW h \in Handles,
                 winDC' = With(winDC, h, param), windowDC' = h, rpc' = "createDC"
          PROVE  HandlesLive' /\ ObjectInv'
      <4>1. DOMAIN winDC' = {h} /\ winDC'[h] = param
        BY <3>1, <3>3 DEF With
      <4> QED
        BY <3>1, <3>2, <3>3, <4>1 DEF HandlesLive, ObjectInv, NothingLost,
           Preparing
    <3>4. CASE Fail /\ UNCHANGED << winDC, windowDC >>
      BY <3>1, <3>2, <3>4 DEF HandlesLive, ObjectInv, NothingLost, Preparing
    <3> QED
      BY <1>5, <3>3, <3>4 DEF InitializeGetsDC
  <2>3. CallInv' /\ TargetInv' /\ TraceInv'
    BY <1>5 DEF InitializeGetsDC, CallInv, TargetInv, TraceInv, Preparing,
       Drawing, Finding
  <2> QED
    BY <1>2, <2>1, <2>2, <2>3 DEF RequestInv, TypeOK
<1>6. CASE InitializeCreatesDC
  <2>1. RendererTypeOK' /\ DesktopTypeOK'
    BY <1>6 DEF InitializeCreatesDC, RendererTypeOK, DesktopTypeOK
  <2>2. HandlesLive' /\ ObjectInv'
    <3>1. /\ DOMAIN memDC = {} /\ bitmap = NoHandle /\ memoryDC = NoHandle
          /\ DOMAIN winDC \subseteq {windowDC}
      BY <1>6 DEF InitializeCreatesDC, CallInv, ObjectInv, NothingLost,
         Preparing
    <3>2. UNCHANGED << bitmap, targetWindow, bmp, pc >>
      BY <1>6 DEF InitializeCreatesDC
    <3>3. ASSUME NEW h \in Handles,
                 memDC' = With(memDC, h, NoHandle), memoryDC' = h,
                 rpc' = "attach", UNCHANGED << winDC, windowDC >>
          PROVE  HandlesLive' /\ ObjectInv'
      <4>1. DOMAIN memDC' = {h} /\ memDC'[h] = NoHandle
        BY <3>1, <3>3 DEF With
      <4> QED
        BY <3>1, <3>2, <3>3, <4>1 DEF HandlesLive, ObjectInv, NothingLost,
           Preparing
    <3>4. ASSUME Fail, winDC' = Without(winDC, windowDC), windowDC' = NoHandle,
                 UNCHANGED << memDC, memoryDC >>
          PROVE  HandlesLive' /\ ObjectInv'
      <4>1. DOMAIN winDC' = {}
        BY <3>1, <3>4 DEF Without, Restrict
      <4> QED
        BY <3>1, <3>2, <3>4, <4>1 DEF HandlesLive, ObjectInv, NothingLost,
           Preparing
    <3> QED
      BY <1>6, <3>3, <3>4 DEF InitializeCreatesDC
  <2>3. CallInv' /\ TargetInv' /\ TraceInv'
    BY <1>6 DEF InitializeCreatesDC, CallInv, TargetInv, TraceInv, Preparing,
       Drawing, Finding
  <2> QED
    BY <1>2, <2>1, <2>2, <2>3 DEF RequestInv, TypeOK
<1>7. CASE InitializeAttaches
  <2>1. RendererTypeOK' /\ DesktopTypeOK'
    BY <1>7 DEF InitializeAttaches, RendererTypeOK, DesktopTypeOK
  <2>2. HandlesLive' /\ ObjectInv'
    BY <1>7 DEF InitializeAttaches, CallInv, HandlesLive, ObjectInv,
       NothingLost, TargetInv, RendererTypeOK, Preparing, Drawing
  <2>3. CallInv' /\ TargetInv' /\ TraceInv'
    BY <1>7 DEF InitializeAttaches, CallInv, TargetInv, TraceInv, Preparing,
       Drawing, Finding
  <2> QED
    BY <1>2, <2>1, <2>2, <2>3 DEF RequestInv, TypeOK
<1>8. CASE InitializeRestores
  <2>1. RendererTypeOK' /\ DesktopTypeOK'
    BY <1>8 DEF InitializeRestores, Iconic, RendererTypeOK, DesktopTypeOK,
       Conds
  <2>2. HandlesLive' /\ ObjectInv'
    BY <1>8 DEF InitializeRestores, Iconic, CallInv, HandlesLive, ObjectInv,
       NothingLost, TargetInv, RendererTypeOK, Preparing, Drawing
  <2>3. CallInv' /\ TargetInv' /\ TraceInv'
    BY <1>8 DEF InitializeRestores, Iconic, CallInv, TargetInv, TraceInv,
       Preparing, Drawing, Finding
  <2> QED
    BY <1>2, <2>1, <2>2, <2>3 DEF RequestInv, TypeOK
<1>9. CASE InitializeRaises
  <2>1. RendererTypeOK' /\ DesktopTypeOK'
    BY <1>9 DEF InitializeRaises, AfterRaise, RendererTypeOK, DesktopTypeOK
  <2>2. HandlesLive' /\ ObjectInv'
    BY <1>9 DEF InitializeRaises, AfterRaise, CallInv, HandlesLive, ObjectInv,
       NothingLost, TargetInv, RendererTypeOK, Preparing, Drawing
  <2>3. CallInv' /\ TargetInv' /\ TraceInv'
    BY <1>9 DEF InitializeRaises, AfterRaise, CallInv, TargetInv, TraceInv,
       Preparing, Drawing, Finding
  <2> QED
    BY <1>2, <2>1, <2>2, <2>3 DEF RequestInv, TypeOK
<1>10. CASE InitializeLowers
  <2>1. RendererTypeOK' /\ DesktopTypeOK'
    BY <1>10 DEF InitializeLowers, RendererTypeOK, DesktopTypeOK
  <2>2. HandlesLive' /\ ObjectInv'
    BY <1>10 DEF InitializeLowers, CallInv, HandlesLive, ObjectInv,
       NothingLost, TargetInv, RendererTypeOK, Preparing, Drawing
  <2>3. CallInv' /\ TargetInv' /\ TraceInv'
    BY <1>10 DEF InitializeLowers, CallInv, TargetInv, TraceInv, Preparing,
       Drawing, Finding
  <2> QED
    BY <1>2, <2>1, <2>2, <2>3 DEF RequestInv, TypeOK
<1>11. CASE InitializeDetaches
  <2>1. RendererTypeOK' /\ DesktopTypeOK'
    BY <1>11 DEF InitializeDetaches, RendererTypeOK, DesktopTypeOK
  <2>2. HandlesLive' /\ ObjectInv'
    BY <1>11 DEF InitializeDetaches, CallInv, HandlesLive, ObjectInv,
       NothingLost, TargetInv, RendererTypeOK, Preparing, Drawing
  <2>3. CallInv' /\ TargetInv' /\ TraceInv'
    BY <1>11 DEF InitializeDetaches, CallInv, TargetInv, TraceInv, Preparing,
       Drawing, Finding
  <2> QED
    BY <1>2, <2>1, <2>2, <2>3 DEF RequestInv, TypeOK
<1> QED
  BY <1>3, <1>4, <1>5, <1>6, <1>7, <1>8, <1>9, <1>10, <1>11 DEF Initialize

(* Renderer::RenderImageFrame and Clear.                                   *)
LEMMA DrawingSafe ==
  ASSUME RequestInv, RenderImageFrame \/ Clear,
         UNCHANGED << server, windowManager >>
  PROVE  RequestInv'
<1>1. /\ ServerTypeOK /\ WindowManagerTypeOK /\ RendererTypeOK /\ DesktopTypeOK
      /\ HandlesLive /\ CallInv /\ TargetInv /\ TraceInv /\ ObjectInv
  BY DEF RequestInv, TypeOK
<1> USE <1>1, NoHandleAssumption, NoWindowAssumption, NoSizeAssumption
    DEF Handle, Fail, server, windowManager, call, members, desktop, others,
       gdi
<1>2. ServerTypeOK' /\ WindowManagerTypeOK'
  BY DEF ServerTypeOK, WindowManagerTypeOK
<1>3. CASE RenderFrameCreatesBitmap
  <2>1. RendererTypeOK' /\ DesktopTypeOK'
    BY <1>3 DEF RenderFrameCreatesBitmap, Prepared, Cached,
       CreateCompatibleBitmap, SelectBitmap, DeleteBitmap, RendererTypeOK,
       DesktopTypeOK
  <2>2. HandlesLive' /\ ObjectInv'
    <3>1. /\ DOMAIN bmp = {} /\ bitmap = NoHandle
          /\ pc \notin { "initializing", "gone" } /\ pc' = pc
      BY <1>3 DEF RenderFrameCreatesBitmap, CallInv, ObjectInv, NothingLost,
         Preparing, Drawing
    <3>2. UNCHANGED << targetWindow, windowDC, memoryDC, winDC >>
      BY <1>3 DEF RenderFrameCreatesBitmap
    <3>3. CASE ~Prepared \/ Cached
      BY <1>3, <3>1, <3>3 DEF RenderFrameCreatesBitmap, HandlesLive, ObjectInv,
         NothingLost, Preparing
    <3>4. ASSUME Prepared, NEW h \in Handles, SelectBitmap(h), bitmap' = h,
                 bmp' = With(Without(bmp, bitmap), h,
                             [size |-> frame.size, pixels |-> Black]),
                 rpc' = "setBits"
          PROVE  HandlesLive' /\ ObjectInv'
      <4>1. DOMAIN bmp' = {h}
        BY <3>1, <3>4 DEF With, Without, Restrict
      <4>2. DOMAIN memDC' = DOMAIN memDC /\ memDC'[memoryDC] = h
        BY <3>4 DEF SelectBitmap, Prepared, HandlesLive
      <4> QED
        BY <3>1, <3>2, <3>4, <4>1, <4>2 DEF HandlesLive, ObjectInv, NothingLost,
           Preparing, Prepared
    <3>5. ASSUME Fail, DeleteBitmap, UNCHANGED memDC
          PROVE  HandlesLive' /\ ObjectInv'
      <4>1. DOMAIN bmp' = {} /\ bitmap' = NoHandle
        BY <3>1, <3>5, BitmapDeleted
      <4> QED
        BY <3>1, <3>2, <3>5, <4>1 DEF HandlesLive, ObjectInv, NothingLost,
           Preparing
    <3> QED
      BY <1>3, <3>3, <3>4, <3>5 DEF RenderFrameCreatesBitmap,
         CreateCompatibleBitmap
  <2>3. CallInv' /\ TargetInv' /\ TraceInv'
    BY <1>3 DEF RenderFrameCreatesBitmap, Prepared, Cached,
       CreateCompatibleBitmap, SelectBitmap, DeleteBitmap, CallInv, TargetInv,
       TraceInv, Preparing, Drawing, Finding
  <2> QED
    BY <1>2, <2>1, <2>2, <2>3 DEF RequestInv, TypeOK
<1>4. CASE RenderFrameSetsBits
  <2>1. RendererTypeOK' /\ DesktopTypeOK'
    BY <1>4 DEF RenderFrameSetsBits, RendererTypeOK, DesktopTypeOK
  <2>2. HandlesLive' /\ ObjectInv'
    BY <1>4 DEF RenderFrameSetsBits, CallInv, HandlesLive, ObjectInv,
       NothingLost, TargetInv, RendererTypeOK, Preparing, Drawing
  <2>3. CallInv' /\ TargetInv' /\ TraceInv'
    BY <1>4 DEF RenderFrameSetsBits, CallInv, TargetInv, TraceInv, Preparing,
       Drawing, Finding
  <2> QED
    BY <1>2, <2>1, <2>2, <2>3 DEF RequestInv, TypeOK
<1>5. CASE RenderFrameBlts
  <2>1. RendererTypeOK' /\ DesktopTypeOK'
    BY <1>5 DEF RenderFrameBlts, Blt, RendererTypeOK, DesktopTypeOK
  <2>2. HandlesLive' /\ ObjectInv'
    BY <1>5 DEF RenderFrameBlts, CallInv, HandlesLive, ObjectInv, NothingLost,
       TargetInv, RendererTypeOK, Preparing, Drawing
  <2>3. CallInv' /\ TargetInv' /\ TraceInv'
    BY <1>5 DEF RenderFrameBlts, CallInv, TargetInv, TraceInv, Preparing,
       Drawing, Finding
  <2> QED
    BY <1>2, <2>1, <2>2, <2>3 DEF RequestInv, TypeOK
<1>6. CASE Clear
  <2>1. RendererTypeOK' /\ DesktopTypeOK'
    BY <1>6 DEF Clear, RendererTypeOK, DesktopTypeOK
  <2>2. HandlesLive' /\ ObjectInv'
    BY <1>6 DEF Clear, CallInv, HandlesLive, ObjectInv, NothingLost,
       TargetInv, RendererTypeOK, Preparing, Drawing
  <2>3. CallInv' /\ TargetInv' /\ TraceInv'
    BY <1>6 DEF Clear, CallInv, TargetInv, TraceInv, Preparing, Drawing,
       Finding
  <2> QED
    BY <1>2, <2>1, <2>2, <2>3 DEF RequestInv, TypeOK
<1> QED
  BY <1>3, <1>4, <1>5, <1>6 DEF RenderImageFrame

(* The last answer, or a refusal of request k, is an answer.               *)
LEMMA ReplyTyped ==
  ASSUME ServerTypeOK, NEW k \in Nat, k \in {n, n + 1},
         \/ reply' = reply
         \/ reply' = [to |-> k, success |-> FALSE, windows |-> <<>>]
  PROVE  reply'.to \in 0 .. k /\ reply'.windows \in Seq(Windows)
<1>1. reply.to \in 0 .. k /\ reply.windows \in Seq(Windows)
  BY RequestsAssumption DEF ServerTypeOK
<1>2. CASE reply' = reply
  BY <1>1, <1>2
<1>3. CASE reply' = [to |-> k, success |-> FALSE, windows |-> <<>>]
  <2>1. reply'.to = k /\ reply'.windows = <<>>
    BY <1>3
  <2>2. <<>> \in Seq(Windows)
    OBVIOUS
  <2> QED
    BY <2>1, <2>2
<1> QED
  BY <1>2, <1>3

(* WindowCasterServer's handlers.                                          *)
LEMMA DispatcherSafe ==
  ASSUME RequestInv,
         \/ \E r \in Request : Receive(r)
         \/ SendWindowList \/ Validate \/ InitializeFailed \/ Dispatch
         \/ FinishRender \/ FinishStop
  PROVE  RequestInv'
<1>1. /\ ServerTypeOK /\ WindowManagerTypeOK /\ RendererTypeOK /\ DesktopTypeOK
      /\ HandlesLive /\ CallInv /\ TargetInv /\ TraceInv /\ ObjectInv
  BY DEF RequestInv, TypeOK
<1> USE <1>1, NoHandleAssumption, NoWindowAssumption, RequestsAssumption
    DEF Handle, Answer, Response, windowManager, renderer, call, members,
       desktop, others, gdi
<1>2. ASSUME NEW r \in Request, Receive(r)
      PROVE  RequestInv'
  <2>1. ServerTypeOK'
    <3>1. n' \in 0 .. MaxRequests /\ n' = n + 1 /\ n \in Nat /\ req' = r
      BY <1>2 DEF Receive, ServerTypeOK
    <3>2. reply' = reply \/ reply' = [to |-> n + 1, success |-> FALSE, windows |-> <<>>]
      BY <1>2 DEF Receive
    <3>3. reply'.to \in 0 .. n' /\ reply'.windows \in Seq(Windows)
      BY <3>1, <3>2, ReplyTyped
    <3> QED
      BY <1>2, <3>1, <3>3 DEF Receive, ServerTypeOK
  <2>2. r.kind \notin { "list", "unset" } => r.window \in Handle
    BY DEF Request
  <2>3. WindowManagerTypeOK'
    <3>1. CASE CallEnumerateWindows
      <4>1. windowList' \in Seq(Windows)
        BY <3>1 DEF CallEnumerateWindows, ClearList
      <4> QED
        BY <3>1, <4>1 DEF CallEnumerateWindows, WindowManagerTypeOK
    <3>2. CASE UNCHANGED windowManager
      BY <3>2 DEF WindowManagerTypeOK
    <3>3. CASE r.window \in Handle /\ CallIsWindowValid(r.window)
      BY <3>3 DEF CallIsWindowValid, WindowManagerTypeOK
    <3> QED
      BY <1>2, <2>2, <3>1, <3>2, <3>3 DEF Receive
  <2>4. ServerTypeOK' /\ WindowManagerTypeOK' /\ RendererTypeOK' /\ DesktopTypeOK'
    BY <1>2, <2>1, <2>3 DEF Receive, RendererTypeOK, DesktopTypeOK
  <2>5. HandlesLive' /\ ObjectInv'
    BY <1>2 DEF Receive, CallEnumerateWindows, CallIsWindowValid, ClearList,
       CallInv, HandlesLive, ObjectInv, NothingLost, TargetInv,
       RendererTypeOK, Preparing, Drawing
  <2>6. CallInv' /\ TargetInv' /\ TraceInv'
    BY <1>2 DEF Receive, CallEnumerateWindows, CallIsWindowValid, ClearList,
       CallInv, TargetInv, TraceInv, Preparing, Drawing, Finding
  <2> QED
    BY <2>4, <2>5, <2>6 DEF RequestInv, TypeOK
<1>3. CASE SendWindowList
  <2>1. ServerTypeOK' /\ WindowManagerTypeOK' /\ RendererTypeOK' /\ DesktopTypeOK'
    BY <1>3 DEF SendWindowList, ServerTypeOK, WindowManagerTypeOK,
       RendererTypeOK, DesktopTypeOK
  <2>2. HandlesLive' /\ ObjectInv'
    BY <1>3 DEF SendWindowList, CallInv, HandlesLive, ObjectInv, NothingLost,
       TargetInv, RendererTypeOK, Preparing, Drawing
  <2>3. CallInv' /\ TargetInv' /\ TraceInv'
    BY <1>3 DEF SendWindowList, CallInv, TargetInv, TraceInv, Preparing,
       Drawing, Finding
  <2> QED
    BY <2>1, <2>2, <2>3 DEF RequestInv, TypeOK
<1>4. CASE Validate
  <2>1. ServerTypeOK' /\ WindowManagerTypeOK' /\ RendererTypeOK' /\ DesktopTypeOK'
    <3>1. ServerTypeOK'
      <4>1. reply' = reply \/ reply' = [to |-> n, success |-> FALSE, windows |-> <<>>]
        BY <1>4 DEF Validate
      <4>2. reply'.to \in 0 .. n /\ reply'.windows \in Seq(Windows)
        BY <4>1, ReplyTyped DEF ServerTypeOK
      <4> QED
        BY <1>4, <4>2 DEF Validate, ServerTypeOK
    <3>2. WindowManagerTypeOK' /\ DesktopTypeOK'
      BY <1>4 DEF Validate, WindowManagerTypeOK, DesktopTypeOK
    <3>3. RendererTypeOK'
      BY <1>4 DEF Validate, CallInitialize, WindowManagerTypeOK, RendererTypeOK
    <3> QED
      BY <3>1, <3>2, <3>3
  <2>2. HandlesLive' /\ ObjectInv'
    BY <1>4 DEF Validate, CallInitialize, CallInv, HandlesLive, ObjectInv,
       NothingLost, TargetInv, RendererTypeOK, Preparing, Drawing
  <2>3. CallInv' /\ TargetInv' /\ TraceInv'
    BY <1>4 DEF Validate, CallInitialize, CallInv, TargetInv, TraceInv,
       Preparing, Drawing, Finding
  <2> QED
    BY <2>1, <2>2, <2>3 DEF RequestInv, TypeOK
<1>5. CASE InitializeFailed
  <2>1. ServerTypeOK' /\ WindowManagerTypeOK' /\ RendererTypeOK' /\ DesktopTypeOK'
    BY <1>5 DEF InitializeFailed, ServerTypeOK, WindowManagerTypeOK,
       RendererTypeOK, DesktopTypeOK
  <2>2. HandlesLive' /\ ObjectInv'
    BY <1>5 DEF InitializeFailed, CallInv, HandlesLive, ObjectInv,
       NothingLost, TargetInv, RendererTypeOK, Preparing, Drawing
  <2>3. CallInv' /\ TargetInv' /\ TraceInv'
    BY <1>5 DEF InitializeFailed, CallInv, TargetInv, TraceInv, Preparing,
       Drawing, Finding
  <2> QED
    BY <2>1, <2>2, <2>3 DEF RequestInv, TypeOK
<1>6. CASE Dispatch
  <2>1. ServerTypeOK' /\ WindowManagerTypeOK' /\ RendererTypeOK' /\ DesktopTypeOK'
    <3>1. ServerTypeOK'
      <4>1. reply' = reply \/ reply' = [to |-> n, success |-> FALSE, windows |-> <<>>]
        BY <1>6 DEF Dispatch
      <4>2. reply'.to \in 0 .. n /\ reply'.windows \in Seq(Windows)
        BY <4>1, ReplyTyped DEF ServerTypeOK
      <4> QED
        BY <1>6, <4>2 DEF Dispatch, ServerTypeOK
    <3>2. WindowManagerTypeOK' /\ DesktopTypeOK'
      BY <1>6 DEF Dispatch, WindowManagerTypeOK, DesktopTypeOK
    <3>3. req.kind \in { "picture", "end" } => req.size \in Sizes
      BY DEF ServerTypeOK, Request
    <3>4. RendererTypeOK'
      BY <1>6, <3>3 DEF Dispatch, CallRenderImageFrame, CallClear,
         RendererTypeOK
    <3> QED
      BY <3>1, <3>2, <3>4
  <2>2. HandlesLive' /\ ObjectInv'
    BY <1>6 DEF Dispatch, CallRenderImageFrame, CallClear, CallInv,
       HandlesLive, ObjectInv, NothingLost, TargetInv, RendererTypeOK,
       Preparing, Drawing
  <2>3. CallInv' /\ TargetInv' /\ TraceInv'
    BY <1>6 DEF Dispatch, CallRenderImageFrame, CallClear, CallInv, TargetInv,
       TraceInv, Preparing, Drawing, Finding
  <2> QED
    BY <2>1, <2>2, <2>3 DEF RequestInv, TypeOK
<1>7. CASE FinishRender
  <2>1. ServerTypeOK' /\ WindowManagerTypeOK' /\ RendererTypeOK' /\ DesktopTypeOK'
    BY <1>7 DEF FinishRender, ServerTypeOK, WindowManagerTypeOK,
       RendererTypeOK, DesktopTypeOK
  <2>2. HandlesLive' /\ ObjectInv'
    BY <1>7 DEF FinishRender, CallInv, HandlesLive, ObjectInv, NothingLost,
       TargetInv, RendererTypeOK, Preparing, Drawing
  <2>3. CallInv' /\ TargetInv' /\ TraceInv'
    BY <1>7 DEF FinishRender, CallInv, TargetInv, TraceInv, Preparing,
       Drawing, Finding
  <2> QED
    BY <2>1, <2>2, <2>3 DEF RequestInv, TypeOK
<1>8. CASE FinishStop
  <2>1. ServerTypeOK' /\ WindowManagerTypeOK' /\ RendererTypeOK' /\ DesktopTypeOK'
    BY <1>8 DEF FinishStop, ServerTypeOK, WindowManagerTypeOK, RendererTypeOK,
       DesktopTypeOK
  <2>2. HandlesLive' /\ ObjectInv'
    BY <1>8 DEF FinishStop, CallInv, HandlesLive, ObjectInv, NothingLost,
       TargetInv, RendererTypeOK, Preparing, Drawing
  <2>3. CallInv' /\ TargetInv' /\ TraceInv'
    BY <1>8 DEF FinishStop, CallInv, TargetInv, TraceInv, Preparing, Drawing,
       Finding
  <2> QED
    BY <2>1, <2>2, <2>3 DEF RequestInv, TypeOK
<1> QED
  BY <1>2, <1>3, <1>4, <1>5, <1>6, <1>7, <1>8

(* Other processes, and the system that takes back a window's DCs.         *)
LEMMA OthersSafe ==
  ASSUME RequestInv, OtherProcesses,
         UNCHANGED << server, windowManager, renderer >>
  PROVE  RequestInv'
<1>1. /\ ServerTypeOK /\ WindowManagerTypeOK /\ RendererTypeOK /\ DesktopTypeOK
      /\ HandlesLive /\ CallInv /\ TargetInv /\ TraceInv /\ ObjectInv
  BY DEF RequestInv, TypeOK
<1> USE <1>1 DEF server, windowManager, renderer, call, members, gdi
<1>2. /\ ServerTypeOK' /\ WindowManagerTypeOK' /\ RendererTypeOK'
      /\ CallInv' /\ TargetInv'
  BY DEF ServerTypeOK, WindowManagerTypeOK, RendererTypeOK, CallInv, TargetInv
<1>3. ASSUME NEW w \in Windows, NEW cond \in Conds, Change(w, cond)
      PROVE  RequestInv'
  <2>1. DesktopTypeOK'
    BY <1>3, ChangesAssumption DEF Change, DesktopTypeOK
  <2>2. HandlesLive' /\ TraceInv' /\ ObjectInv'
    BY <1>3 DEF Change, HandlesLive, TraceInv, ObjectInv, NothingLost
  <2> QED
    BY <1>2, <2>1, <2>2 DEF RequestInv, TypeOK
<1>4. ASSUME NEW w \in Windows, Destroy(w)
      PROVE  RequestInv'
  <2>1. DesktopTypeOK'
    BY <1>4, ChangesAssumption DEF Destroy, DesktopTypeOK
  <2>2. /\ DOMAIN winDC' \subseteq DOMAIN winDC
        /\ \A h \in DOMAIN winDC' : winDC'[h] = winDC[h]
    BY <1>4 DEF Destroy, Restrict
  <2>3. HandlesLive' /\ TraceInv' /\ ObjectInv'
    BY <1>4, <2>2 DEF Destroy, HandlesLive, TraceInv, ObjectInv, NothingLost
  <2> QED
    BY <1>2, <2>1, <2>3 DEF RequestInv, TypeOK
<1> QED
  BY <1>3, <1>4 DEF OtherProcesses

(* Renderer::~Renderer.                                                    *)
LEMMA DestroyedSafe ==
  ASSUME RequestInv, Destroyed
  PROVE  RequestInv'
<1>1. /\ ServerTypeOK /\ WindowManagerTypeOK /\ RendererTypeOK /\ DesktopTypeOK
      /\ HandlesLive /\ CallInv /\ TargetInv /\ TraceInv /\ ObjectInv
  BY DEF RequestInv, TypeOK
<1> USE <1>1, NoHandleAssumption DEF Handle, windowManager, call, others
<1>2. /\ ServerTypeOK' /\ WindowManagerTypeOK' /\ RendererTypeOK'
      /\ DesktopTypeOK'
  BY DEF Destroyed, DeleteBitmap, DropWindowDC, ReleaseWindowDC, ServerTypeOK,
     WindowManagerTypeOK, RendererTypeOK, DesktopTypeOK
<1>3. HandlesLive' /\ ObjectInv'
  <2>1. DOMAIN bmp' = {} /\ bitmap' = NoHandle
    BY BitmapDeleted DEF Destroyed, ObjectInv, NothingLost
  <2>2. DOMAIN memDC' = {} /\ memoryDC' = NoHandle
    BY MemoryDCDeleted DEF Destroyed, ObjectInv, NothingLost
  <2>3. DOMAIN winDC' \subseteq DOMAIN winDC /\ windowDC' = NoHandle
    BY WindowDCReleased DEF Destroyed, DropWindowDC
  <2>4. pc' = "gone" /\ rpc' = "idle"
    BY DEF Destroyed, CallInv
  <2> QED
    BY <2>1, <2>2, <2>3, <2>4 DEF HandlesLive, ObjectInv, NothingLost, Preparing
<1>4. CallInv' /\ TargetInv' /\ TraceInv'
  BY DEF Destroyed, CallInv, TargetInv, TraceInv, Preparing, Drawing
<1> QED
  BY <1>2, <1>3, <1>4 DEF RequestInv, TypeOK

LEMMA Inductive == RequestInv /\ [Next]_vars => RequestInv'
<1> SUFFICES ASSUME RequestInv, [Next]_vars PROVE RequestInv'
  OBVIOUS
<1>1. CASE HandleMessage
  BY <1>1, WindowManagerStepSafe, InitializeSafe, DrawingSafe, DispatcherSafe
     DEF HandleMessage, RendererStep
<1>2. CASE \E r \in Request : Receive(r)
  BY <1>2, DispatcherSafe
<1>3. CASE OtherProcesses /\ UNCHANGED << server, windowManager, renderer >>
  BY <1>3, OthersSafe
<1>4. CASE Destroyed
  BY <1>4, DestroyedSafe
<1>5. CASE UNCHANGED vars
  BY <1>5 DEF vars, server, windowManager, renderer, call, members, desktop,
     others, gdi, RequestInv, CallInv, TargetInv, TraceInv, ObjectInv,
     NothingLost, TypeOK, ServerTypeOK, WindowManagerTypeOK, RendererTypeOK,
     DesktopTypeOK, HandlesLive
<1> QED
  BY <1>1, <1>2, <1>3, <1>4, <1>5 DEF Next, Gone

(* The invariant of the dispatcher, the window manager and the renderer.   *)
THEOREM RequestSafe == Spec => []RequestInv
BY Initial, Inductive, PTL DEF Spec

(* Every variable keeps its type, and the renderer's handles are live.     *)
THEOREM TypeCorrect == Spec => []TypeOK
<1>1. RequestInv => TypeOK
  BY DEF RequestInv
<1> QED
  BY <1>1, RequestSafe, PTL

(* Renderer never loses a GDI object, whichever call of Initialize or      *)
(* RenderImageFrame fails, and the destructor leaves only a window's DC.   *)
THEOREM NothingLostSafe == Spec => []NothingLost
<1>1. RequestInv => NothingLost
  BY DEF RequestInv, ObjectInv
<1> QED
  BY <1>1, RequestSafe, PTL

(* Initialize undoes what it does to the desktop.                          *)
THEOREM LeavesNoTraceSafe == Spec => []LeavesNoTrace
<1>1. RequestInv => LeavesNoTrace
  BY DEF RequestInv, CallInv, TraceInv, LeavesNoTrace
<1> QED
  BY <1>1, RequestSafe, PTL

(* The DC the renderer draws with is that of the window the request names, *)
(* whatever the last request left and whichever windows vanish meanwhile.  *)
THEOREM OnlyTargetDrawnSafe == Spec => OnlyTargetDrawn
<1>1. RequestInv /\ [Next]_vars => [TargetDrawn]_vars
  <2> SUFFICES ASSUME RequestInv, Next PROVE TargetDrawn
    OBVIOUS
  <2> USE DEF server, windowManager, renderer, call, members, desktop, others,
              gdi
  <2>1. CASE RenderFrameBlts \/ Clear
    <3>1. /\ DOMAIN screen = Windows /\ pc \in { "rendering", "clearing" }
          /\ windowDC \in DOMAIN winDC => winDC[windowDC] = req.window
      BY <2>1 DEF RenderFrameBlts, Clear, RequestInv, TypeOK, ServerTypeOK,
         DesktopTypeOK, HandlesLive, CallInv, TargetInv, Preparing, Drawing
    <3>2. \/ UNCHANGED screen
          \/ /\ windowDC \in DOMAIN winDC
             /\ \E pixels :
                  screen' = [screen EXCEPT ![winDC[windowDC]] = pixels]
      BY <2>1 DEF RenderFrameBlts, Blt, Clear
    <3> QED
      BY <3>1, <3>2 DEF TargetDrawn
  <2>2. ASSUME UNCHANGED screen
        PROVE  TargetDrawn
    BY <2>2 DEF TargetDrawn
  <2>3. CASE Initialize
    BY <2>2, <2>3 DEF Initialize, InitializeChecks, InitializeCleansUp,
       InitializeGetsDC, InitializeCreatesDC, InitializeAttaches,
       InitializeRestores, InitializeRaises, InitializeLowers,
       InitializeDetaches
  <2>4. CASE RenderFrameCreatesBitmap \/ RenderFrameSetsBits
    BY <2>2, <2>4 DEF RenderFrameCreatesBitmap, RenderFrameSetsBits
  <2>5. CASE \/ SendWindowList \/ Validate \/ InitializeFailed \/ Dispatch
             \/ FinishRender \/ FinishStop
             \/ WindowManagerStep /\ UNCHANGED << server, renderer, desktop >>
    BY <2>2, <2>5 DEF SendWindowList, Validate, InitializeFailed, Dispatch,
       FinishRender, FinishStop
  <2>6. CASE \E r \in Request : Receive(r)
    BY <2>2, <2>6 DEF Receive
  <2>7. CASE OtherProcesses
    BY <2>2, <2>7 DEF OtherProcesses, Change, Destroy
  <2>8. CASE Destroyed \/ Gone
    BY <2>2, <2>8 DEF Destroyed, Gone, vars
  <2> QED
    BY <2>1, <2>3, <2>4, <2>5, <2>6, <2>7, <2>8
       DEF Next, HandleMessage, RendererStep, RenderImageFrame
<1> QED
  BY <1>1, RequestSafe, PTL DEF Spec, OnlyTargetDrawn

-----------------------------------------------------------------------------
(* AnswerInv: what is answered is what was done.                           *)

(* Pictures differ by their request, and from all else a window may show.  *)
LEMMA Pictures ==
  /\ \A k, l \in Nat : Picture(k) = Picture(l) => k = l
  /\ \A k \in Nat : Picture(k) \notin {Black, Garbage, Original}
BY DEF Picture, Black, Garbage, Original

(* The windows listed once one more is.                                    *)
LEMMA RangeAppend ==
  ASSUME NEW S, NEW s \in Seq(S), NEW e \in S, e \notin Range(s),
         Len(s) = Cardinality(Range(s))
  PROVE  /\ Range(Append(s, e)) = Range(s) \cup {e}
         /\ Len(Append(s, e)) = Cardinality(Range(Append(s, e)))
<1>1. /\ Len(Append(s, e)) = Len(s) + 1 /\ Len(s) \in Nat
      /\ DOMAIN s = 1 .. Len(s) /\ DOMAIN Append(s, e) = 1 .. Len(s) + 1
      /\ \A k \in 1 .. Len(s) : Append(s, e)[k] = s[k]
      /\ Append(s, e)[Len(s) + 1] = e
  OBVIOUS
<1>2. 1 .. Len(s) + 1 = (1 .. Len(s)) \cup {Len(s) + 1}
  BY <1>1
<1>3. Range(Append(s, e)) = Range(s) \cup {e}
  BY <1>1, <1>2 DEF Range
<1>4. IsFiniteSet(Range(s))
  <2>1. s \in [1 .. Len(s) -> Range(s)]
    <3>1. s = [k \in 1 .. Len(s) |-> s[k]]
      BY <1>1
    <3> QED
      BY <1>1, <3>1 DEF Range
  <2>3. s \in Surjection(1 .. Len(s), Range(s))
    BY <1>1, <2>1 DEF Surjection, Range
  <2>2. IsFiniteSet(1 .. Len(s))
    BY <1>1, FS_Interval
  <2> QED
    BY <2>2, <2>3, FS_Surjection
<1>5. Cardinality(Range(s) \cup {e}) = Cardinality(Range(s)) + 1
  BY <1>4, FS_AddElement
<1> QED
  BY <1>1, <1>3, <1>5

(* What AnswerInv says of the dispatcher, the renderer and the desktop     *)
(* does not depend on WindowManager.                                       *)
LEMMA RestStays ==
  ASSUME AnswerInv, UNCHANGED << server, renderer, desktop >>
  PROVE  /\ KindInv' /\ ScreenInv' /\ HoldInv'
         /\ SuccessIsDrawn' /\ ServesUndisturbed' /\ ListExact'
<1> USE DEF AnswerInv, server, renderer, call, members, desktop, others, gdi,
            Untouched, Presentable, Held
<1>1. KindInv' /\ ScreenInv'
  BY DEF KindInv, ScreenInv, Undrawn, Drawn
<1>2. HoldInv'
  BY DEF HoldInv, Past
<1>3. SuccessIsDrawn' /\ ServesUndisturbed'
  BY DEF SuccessIsDrawn, ServesUndisturbed, Answered
<1>4. ListExact'
  BY DEF ListExact, Answered
<1> QED
  BY <1>1, <1>2, <1>3, <1>4

(* One question to the window: what it confirms is found, what it denies   *)
(* excludes the window.                                                    *)
LEMMA IsWindowValidAnswers ==
  ASSUME RequestInv, AnswerInv, IsWindowValid,
         UNCHANGED << server, renderer, desktop >>
  PROVE  FoundInv' /\ ListInv'
<1>1. /\ wpc \in {"isWindow"} \cup (Finding \ {"valid"})
      /\ wpc' \in {"invalid"} \cup Finding
      /\ UNCHANGED << hwnd, enumerating, todo, windowList, win, changed, pc >>
      /\ wpc \in Finding => hwnd \in Windows
  BY DEF IsWindowValid, Query, RequestInv, TargetInv, Finding, server, desktop,
         others
<1>2. ASSUME hwnd \in Windows
      PROVE  /\ Held(hwnd, Found)'
             /\ wpc' = "invalid" => ~Presentable(hwnd)'
  <2>1. Held(hwnd, Found)
    BY <1>2 DEF AnswerInv, FoundInv
  <2>2. CASE wpc \in {"isWindow", "isVisible", "getText"}
    BY <1>1, <1>2, <2>1, <2>2
    DEF IsWindowValid, Query, Is, Held, Found, Presentable, Finding
  <2>3. CASE wpc = "getCloaked"
    <3>1. << hwnd, "exists" >> \in changed =>
            \A cond \in Conds : << hwnd, cond >> \in changed
      BY <1>2 DEF AnswerInv, FoundInv
    <3>2. /\ wpc' = "invalid" => "uncloaked" \notin win[hwnd]
          /\ wpc' = "invalid" \/ wpc' = "valid"
          /\ wpc' = "valid" =>
               "exists" \notin win[hwnd] \/ "uncloaked" \in win[hwnd]
      BY <1>2, <2>3 DEF IsWindowValid, Query, Cloaked, Is
    <3>3. Held(hwnd, {"exists", "visible", "titled"})
      BY <2>1, <2>3 DEF Found, Held, Conds
    <3>4. Held(hwnd, Conds \ {"restored"})' \/ wpc' = "invalid"
      BY <1>1, <3>1, <3>2, <3>3 DEF Held, Conds
    <3> QED
      BY <1>1, <3>2, <3>4 DEF Found, Presentable, Held
  <2> QED
    BY <1>1, <2>2, <2>3 DEF Finding
<1>3. FoundInv'
  BY <1>1, <1>2 DEF AnswerInv, FoundInv, Untouched, Finding
<1>4. ListInv'
  BY <1>1 DEF AnswerInv, ListInv, Current, Untouched, Presentable, Held,
              Finding
<1> QED
  BY <1>3, <1>4

(* The steps of WindowManager.                                             *)
LEMMA WindowManagerAnswers ==
  ASSUME RequestInv, AnswerInv, WindowManagerStep,
         UNCHANGED << server, renderer, desktop >>
  PROVE  AnswerInv'
<1>1. FoundInv /\ ListInv
  BY DEF AnswerInv
<1>2. UNCHANGED << pc, win, changed >>
  BY DEF server, desktop, others
<1>3. pc \in { "listing", "validating" } /\ (enumerating => pc = "listing")
  <2>1. wpc # "idle"
    BY DEF WindowManagerStep, IsWindowValid, Query, NextWindow, EndEnumeration,
           EnumWindowsProc
  <2> QED
    BY <1>1, <2>1 DEF FoundInv, RequestInv, CallInv
<1>4. windowList \in Seq(Windows)
  BY DEF RequestInv, TypeOK, WindowManagerTypeOK
<1>5. CASE NextWindow
  <2>1. PICK w \in todo : hwnd' = w /\ todo' = todo \ {w}
    BY <1>5 DEF NextWindow
  <2>2. /\ wpc = "next" /\ wpc' = "isWindow"
        /\ UNCHANGED << enumerating, windowList >>
    BY <1>5 DEF NextWindow
  <2>3. FoundInv'
    BY <1>1, <1>2, <1>3, <2>2 DEF FoundInv, Found, Held, Untouched, Presentable
  <2>4. todo \subseteq Windows
    BY DEF RequestInv, TypeOK, WindowManagerTypeOK
  <2>5. ListInv'
    BY <1>1, <1>2, <2>1, <2>2, <2>4
    DEF ListInv, Current, Untouched, Presentable, Held
  <2> QED
    BY <2>3, <2>5, RestStays DEF AnswerInv
<1>6. CASE EndEnumeration
  <2>1. /\ wpc = "next" /\ wpc' = "listed" /\ todo = {}
        /\ UNCHANGED << hwnd, enumerating, todo, windowList >>
    BY <1>6 DEF EndEnumeration
  <2>2. FoundInv'
    BY <1>1, <1>2, <1>3, <2>1 DEF FoundInv, Found, Held, Untouched, Presentable
  <2>3. ListInv'
    BY <1>1, <1>2, <2>1 DEF ListInv, Current, Untouched, Presentable, Held
  <2> QED
    BY <2>2, <2>3, RestStays DEF AnswerInv
<1>7. CASE EnumWindowsProc
  <2>1. /\ pc = "listing" /\ wpc \in {"valid", "invalid"} /\ wpc' = "next"
        /\ windowList' = IF wpc = "valid" THEN Append(windowList, hwnd)
                                          ELSE windowList
        /\ UNCHANGED << hwnd, enumerating, todo >>
    BY <1>3, <1>7 DEF EnumWindowsProc
  <2>2. FoundInv'
    BY <1>1, <1>2, <1>3, <2>1 DEF FoundInv, Found, Held, Untouched, Presentable
  <2>3. /\ hwnd \in Windows \ todo /\ hwnd \notin Range(windowList)
        /\ Range(windowList) \cap todo = {}
        /\ Len(windowList) = Cardinality(Range(windowList))
        /\ enumerating
    BY <1>1, <2>1 DEF ListInv, Current
  <2>4. CASE wpc = "valid"
    <3>1. /\ Range(windowList') = Range(windowList) \cup {hwnd}
          /\ Len(windowList') = Cardinality(Range(windowList'))
      BY <1>4, <2>1, <2>3, <2>4, RangeAppend
    <3>2. Held(hwnd, Conds \ {"restored"})
      BY <1>1, <2>3, <2>4 DEF FoundInv, Found
    <3>3. \A w \in Windows : Untouched(w) /\ Presentable(w) =>
            w \in todo \cup Range(windowList')
      BY <1>1, <2>1, <3>1 DEF ListInv, Current
    <3>4. \A w \in Range(windowList') : Held(w, Conds \ {"restored"})
      BY <1>1, <2>1, <3>1, <3>2 DEF ListInv
    <3>5. ListInv'
      BY <1>2, <2>1, <2>3, <3>1, <3>3, <3>4
      DEF ListInv, Current, Untouched, Presentable, Held
    <3> QED
      BY <2>2, <3>5, RestStays DEF AnswerInv
  <2>5. CASE wpc = "invalid"
    <3>1. ~(Untouched(hwnd) /\ Presentable(hwnd))
      BY <1>1, <2>3, <2>5 DEF FoundInv
    <3>2. ListInv'
      BY <1>1, <1>2, <2>1, <2>3, <2>5, <3>1
      DEF ListInv, Current, Untouched, Presentable, Held
    <3> QED
      BY <2>2, <3>2, RestStays DEF AnswerInv
  <2> QED
    BY <2>1, <2>4, <2>5
<1> QED
  BY <1>5, <1>6, <1>7, IsWindowValidAnswers, RestStays
  DEF WindowManagerStep, AnswerInv

-----------------------------------------------------------------------------
(* While Initialize runs, only what it has taken hold of changes.          *)
LEMMA InitializingRest ==
  ASSUME AnswerInv, pc = "initializing",
         UNCHANGED << server, windowManager, changed, screen, frame >>
  PROVE  /\ FoundInv' /\ ListInv' /\ KindInv' /\ ScreenInv'
         /\ SuccessIsDrawn' /\ ServesUndisturbed' /\ ListExact'
<1> USE DEF AnswerInv, server, windowManager
<1>1. wpc = "idle" /\ wpc' = "idle" /\ pc' = "initializing"
  BY DEF FoundInv
<1>2. FoundInv'
  BY <1>1 DEF FoundInv, Held, Found
<1>3. ListInv' /\ KindInv'
  BY <1>1 DEF ListInv, KindInv
<1>4. ScreenInv'
  BY <1>1 DEF ScreenInv, Undrawn, Drawn
<1>5. SuccessIsDrawn' /\ ServesUndisturbed' /\ ListExact'
  BY <1>1 DEF SuccessIsDrawn, ServesUndisturbed, ListExact, Answered
<1> QED
  BY <1>2, <1>3, <1>4, <1>5

(* Renderer::Initialize.                                                   *)
LEMMA InitializeAnswers ==
  ASSUME RequestInv, AnswerInv, Initialize,
         UNCHANGED << server, windowManager >>
  PROVE  AnswerInv'
<1>1. /\ rpc \in {"initialize", "cleanup"} \cup Preparing
      /\ UNCHANGED << call, changed, screen, pc >>
  BY DEF Initialize, InitializeChecks, InitializeCleansUp, InitializeGetsDC,
         InitializeCreatesDC, InitializeAttaches, InitializeRestores,
         InitializeRaises, InitializeLowers, InitializeDetaches, Preparing,
         desktop, others, server
<1>2. pc = "initializing" /\ pc' = "initializing"
  BY <1>1 DEF RequestInv, CallInv, TypeOK, ServerTypeOK, Preparing, Drawing
<1>3. /\ HoldInv /\ param \in Windows /\ param' = param /\ frame' = frame
      /\ Untouched(param)' <=> Untouched(param)
  BY <1>1, <1>2 DEF AnswerInv, HoldInv, call, Untouched
<1>4. SUFFICES HoldInv'
  BY <1>1, <1>2, <1>3, InitializingRest DEF AnswerInv
<1> USE NoHandleAssumption DEF HoldInv, Past, Preparing, Drawing
<1>5. CASE InitializeChecks
  BY <1>2, <1>3, <1>5 DEF InitializeChecks, AfterCheck, desktop, others, Is
<1>6. CASE InitializeCleansUp
  BY <1>2, <1>3, <1>6 DEF InitializeCleansUp, others
<1>7. CASE InitializeGetsDC
  <2>1. UNCHANGED win
    BY <1>7 DEF InitializeGetsDC, others
  <2>2. CASE Fail
    BY <1>2, <1>3, <2>1, <2>2 DEF Fail
  <2>3. ASSUME NEW h \in Handles, rpc' = "createDC",
               winDC' = With(winDC, h, param), windowDC' = h
        PROVE  HoldInv'
    <3>1. windowDC' \in DOMAIN winDC'
      BY <2>3 DEF With
    <3> QED
      BY <1>2, <1>3, <2>1, <2>3, <3>1
  <2> QED
    BY <1>7, <2>2, <2>3 DEF InitializeGetsDC
<1>8. CASE InitializeCreatesDC
  <2>1. UNCHANGED win /\ rpc = "createDC"
    BY <1>8 DEF InitializeCreatesDC, others
  <2>2. CASE Fail
    BY <1>2, <1>3, <2>1, <2>2 DEF Fail
  <2>3. ASSUME NEW h \in Handles, rpc' = "attach", memoryDC' = h,
               UNCHANGED << winDC, windowDC >>
        PROVE  HoldInv'
    BY <1>2, <1>3, <2>1, <2>3
  <2> QED
    BY <1>8, <2>2, <2>3 DEF InitializeCreatesDC
<1>9. CASE InitializeAttaches
  BY <1>2, <1>3, <1>9 DEF InitializeAttaches, members, others, gdi
<1>10. CASE InitializeRestores
  <2>1. /\ rpc = "restore" /\ rpc' = "raise"
        /\ UNCHANGED << members, gdi, failed >>
    BY <1>10 DEF InitializeRestores
  <2>2. win \in [Windows -> SUBSET Conds]
    BY DEF RequestInv, TypeOK, DesktopTypeOK
  <2>3. Untouched(param) =>
          {"exists", "visible", "restored"} \subseteq win'[param]
    BY <1>2, <1>3, <1>10, <2>2 DEF InitializeRestores, Iconic, Is
  <2> QED
    BY <1>2, <1>3, <2>1, <2>3 DEF members, gdi
<1>11. CASE InitializeRaises
  BY <1>2, <1>3, <1>11 DEF InitializeRaises, AfterRaise, members, others, gdi
<1>12. CASE InitializeLowers
  BY <1>2, <1>3, <1>12 DEF InitializeLowers, members, others, gdi
<1>13. CASE InitializeDetaches
  BY <1>2, <1>3, <1>13 DEF InitializeDetaches, members, others, gdi
<1> QED
  BY <1>5, <1>6, <1>7, <1>8, <1>9, <1>10, <1>11, <1>12, <1>13 DEF Initialize

(* While a picture is drawn or a window cleared, nothing is concluded yet. *)
LEMMA DrawingRest ==
  ASSUME AnswerInv, pc \in { "rendering", "clearing" },
         UNCHANGED << server, windowManager, changed >>
  PROVE  /\ FoundInv' /\ ListInv' /\ KindInv'
         /\ SuccessIsDrawn' /\ ServesUndisturbed' /\ ListExact'
<1> USE DEF AnswerInv, server, windowManager
<1>1. wpc = "idle" /\ wpc' = "idle" /\ pc' \in { "rendering", "clearing" }
  BY DEF FoundInv
<1>2. FoundInv'
  BY <1>1 DEF FoundInv, Held, Found
<1>3. ListInv' /\ KindInv'
  BY <1>1 DEF ListInv, KindInv
<1>4. SuccessIsDrawn' /\ ServesUndisturbed' /\ ListExact'
  BY <1>1 DEF SuccessIsDrawn, ServesUndisturbed, ListExact, Answered
<1> QED
  BY <1>2, <1>3, <1>4

(* Renderer::RenderImageFrame: its StretchBlt copies the request's pixels  *)
(* to the request's window.                                                *)
LEMMA RenderAnswers ==
  ASSUME RequestInv, AnswerInv, RenderImageFrame,
         UNCHANGED << server, windowManager >>
  PROVE  AnswerInv'
<1>1. /\ rpc \in Drawing
      /\ UNCHANGED << call, targetWindow, win, changed, pc, n, req >>
  BY DEF RenderImageFrame, RenderFrameCreatesBitmap, RenderFrameSetsBits,
         RenderFrameBlts, CreateCompatibleBitmap, Drawing, members, others,
         server
<1>2. /\ pc = "rendering" /\ param \in Windows /\ targetWindow = param
      /\ param = req.window
  BY <1>1 DEF RequestInv, CallInv, TargetInv, TypeOK, ServerTypeOK, Preparing,
              Drawing
<1>3. param' = param /\ frame' = frame
  BY <1>1 DEF call
<1>4. HoldInv /\ ScreenInv /\ (Untouched(param)' <=> Untouched(param))
  BY <1>1, <1>3 DEF AnswerInv, Untouched
<1>5. ASSUME HoldInv', ScreenInv' PROVE AnswerInv'
  BY <1>1, <1>2, <1>5, DrawingRest DEF AnswerInv
<1>6. ASSUME UNCHANGED screen, rpc' # "true" PROVE ScreenInv'
  BY <1>1, <1>2, <1>3, <1>4, <1>6 DEF ScreenInv, Undrawn, Drawn, Drawing
<1>7. /\ windowDC # NoHandle /\ memoryDC # NoHandle
      /\ Untouched(param) => /\ windowDC \in DOMAIN winDC
                             /\ {"visible", "restored"} \subseteq win[param]
  BY <1>1, <1>4 DEF HoldInv, Past
<1>8. ASSUME Fail, UNCHANGED screen PROVE AnswerInv'
  <2>1. HoldInv'
    BY <1>1, <1>2, <1>3, <1>8 DEF HoldInv, Past, Fail, Preparing, Drawing
  <2> QED
    BY <1>5, <1>6, <1>8, <2>1 DEF Fail
<1> USE NoHandleAssumption, NoWindowAssumption
<1>9. CASE RenderFrameCreatesBitmap
  <2>1. rpc = "frame" /\ bitmap = NoHandle /\ UNCHANGED screen
    BY <1>9 DEF RenderFrameCreatesBitmap, RequestInv, ObjectInv
  <2>2. Prepared /\ ~Cached
    BY <1>2, <1>7, <2>1 DEF Prepared, Cached
  <2>3. CreateCompatibleBitmap /\ UNCHANGED << windowDC, memoryDC, winDC >>
    BY <1>9, <2>1, <2>2 DEF RenderFrameCreatesBitmap
  <2>4. ASSUME NEW h \in Handles, bitmap' = h, rpc' = "setBits",
               bmp' = With(Without(bmp, bitmap), h,
                           [size |-> frame.size, pixels |-> Black])
        PROVE  AnswerInv'
    <3>1. bmp'[bitmap'] = [size |-> frame.size, pixels |-> Black]
      BY <2>4 DEF With
    <3>2. HoldInv'
      BY <1>1, <1>2, <1>3, <1>4, <1>7, <2>3, <2>4, <3>1
      DEF HoldInv, Past, Preparing, Drawing
    <3> QED
      BY <1>5, <1>6, <2>1, <2>4, <3>2
  <2> QED
    BY <1>8, <2>1, <2>3, <2>4 DEF CreateCompatibleBitmap
<1>10. CASE RenderFrameSetsBits
  <2>1. rpc = "setBits" /\ UNCHANGED << members, winDC, screen >>
    BY <1>10 DEF RenderFrameSetsBits
  <2>2. ASSUME bitmap \in DOMAIN bmp, rpc' = "blt",
               bmp' = [bmp EXCEPT ![bitmap].pixels =
                         IF bmp[bitmap].size = frame.size THEN frame.pixels
                                                          ELSE Garbage]
        PROVE  AnswerInv'
    <3>1. bmp[bitmap] = [size |-> frame.size, pixels |-> Black]
      BY <1>4, <2>1 DEF HoldInv
    <3>2. bmp'[bitmap].pixels = frame.pixels
      BY <2>2, <3>1
    <3>3. HoldInv'
      BY <1>1, <1>2, <1>3, <1>4, <1>7, <2>1, <2>2, <3>2
      DEF HoldInv, Past, Preparing, Drawing, members
    <3> QED
      BY <1>5, <1>6, <2>1, <2>2, <3>3
  <2> QED
    BY <1>8, <1>10, <2>1, <2>2 DEF RenderFrameSetsBits
<1>11. CASE RenderFrameBlts
  <2>1. rpc = "blt"
    BY <1>11 DEF RenderFrameBlts
  <2>2. ASSUME rpc' = "true",
               IF windowDC \in DOMAIN winDC THEN Blt(winDC[windowDC])
                                            ELSE UNCHANGED screen
        PROVE  AnswerInv'
    <3>1. HoldInv'
      BY <1>1, <1>2, <2>2 DEF HoldInv, Past, Preparing, Drawing
    <3>2. windowDC \in DOMAIN winDC => winDC[windowDC] = param
      BY <1>2 DEF RequestInv, TypeOK, HandlesLive
    <3>3. /\ memDC[memoryDC] = bitmap /\ bitmap # NoHandle
          /\ bmp[bitmap].pixels = frame.pixels
      BY <1>4, <1>7, <2>1 DEF RequestInv, TypeOK, HandlesLive, HoldInv
    <3>4. /\ UNCHANGED screen
             \/ screen' = [screen EXCEPT ![param] = frame.pixels]
          /\ Untouched(param) =>
               screen' = [screen EXCEPT ![param] = frame.pixels]
      BY <1>7, <2>2, <3>2, <3>3 DEF Blt
    <3>5. /\ DOMAIN screen = Windows /\ n \in Nat
          /\ frame.pixels = IF req.kind = "picture" THEN Picture(n)
                                                    ELSE Garbage
      BY <1>2, <1>4 DEF RequestInv, TypeOK, DesktopTypeOK, ServerTypeOK,
                        ScreenInv
    <3>6. ASSUME NEW k \in n + 1 .. MaxRequests, NEW w \in Windows
          PROVE  screen'[w] # Picture(k)
      <4>1. frame.pixels # Picture(k)
        BY <3>5, Pictures
      <4> QED
        BY <1>2, <1>4, <3>4, <3>5, <4>1 DEF ScreenInv
    <3>7. ASSUME req.kind = "picture"
          PROVE  /\ \A w \in Windows : screen'[w] = Picture(n) => w = req.window
                 /\ Untouched(req.window) => screen'[req.window] = Picture(n)
      <4>1. \A w \in Windows : screen[w] # Picture(n)
        BY <1>2, <1>4, <2>1, <3>7 DEF ScreenInv, Undrawn
      <4> QED
        BY <1>2, <3>4, <3>5, <3>7, <4>1
    <3>8. ScreenInv'
      BY <1>1, <1>2, <1>3, <1>4, <2>2, <3>5, <3>6, <3>7
      DEF ScreenInv, Undrawn, Drawn
    <3> QED
      BY <1>5, <3>1, <3>8
  <2> QED
    BY <1>8, <1>11, <2>2 DEF RenderFrameBlts
<1> QED
  BY <1>9, <1>10, <1>11 DEF RenderImageFrame

(* Renderer::Clear draws no picture.                                       *)
LEMMA ClearAnswers ==
  ASSUME RequestInv, AnswerInv, Clear,
         UNCHANGED << server, windowManager >>
  PROVE  AnswerInv'
<1>1. /\ rpc = "clear" /\ rpc' = "true"
      /\ UNCHANGED << changed, pc, n, req >>
      /\ \/ UNCHANGED screen
         \/ screen' = [screen EXCEPT ![winDC[windowDC]] = Black]
  BY DEF Clear, others, server
<1>2. pc = "clearing" /\ n \in Nat
  BY <1>1 DEF RequestInv, CallInv, TypeOK, ServerTypeOK, Preparing, Drawing
<1>3. HoldInv'
  BY <1>1, <1>2 DEF HoldInv, Past, Preparing, Drawing
<1>4. ASSUME NEW k \in n + 1 .. MaxRequests, NEW w \in Windows
      PROVE  screen'[w] # Picture(k)
  <2>1. Black # Picture(k) /\ DOMAIN screen = Windows
    BY <1>2, Pictures DEF RequestInv, TypeOK, DesktopTypeOK
  <2> QED
    BY <1>1, <2>1 DEF AnswerInv, ScreenInv
<1>5. ScreenInv'
  BY <1>1, <1>2, <1>4 DEF ScreenInv, Undrawn, Drawn
<1> QED
  BY <1>1, <1>2, <1>3, <1>5, DrawingRest DEF AnswerInv

-----------------------------------------------------------------------------
(* What is not about an answer holds of an idle server.                    *)
LEMMA IdleRest ==
  ASSUME pc = "idle", wpc = "idle", rpc = "idle",
         \A k \in n + 1 .. MaxRequests, w \in Windows : screen[w] # Picture(k),
         \A w \in Windows : << w, "exists" >> \in changed =>
                             \A cond \in Conds : << w, cond >> \in changed
  PROVE  FoundInv /\ ListInv /\ KindInv /\ ScreenInv /\ HoldInv
BY DEF FoundInv, Held, Found, ListInv, KindInv, ScreenInv, Undrawn, Drawn,
       HoldInv, Past, Preparing, Drawing

(* The same of the next state.                                             *)
LEMMA AnsweredRest ==
  ASSUME AnswerInv, pc' = "idle", wpc' = "idle", rpc' = "idle",
         UNCHANGED << n, screen, changed >>
  PROVE  FoundInv' /\ ListInv' /\ KindInv' /\ ScreenInv' /\ HoldInv'
BY DEF AnswerInv, FoundInv, Held, Found, ListInv, KindInv, ScreenInv, Undrawn,
       Drawn, HoldInv, Past, Preparing, Drawing

(* A new request: nobody has touched a window since, and its picture is on *)
(* none.                                                                   *)
LEMMA ReceiveAnswers ==
  ASSUME RequestInv, AnswerInv, NEW r \in Request, Receive(r)
  PROVE  AnswerInv'
<1>1. /\ pc = "idle" /\ n < MaxRequests /\ n' = n + 1 /\ req' = r
      /\ changed' = {} /\ UNCHANGED << rpc, win, screen >>
      /\ pc' \in { "idle", "listing", "validating" }
  BY DEF Receive, Answer
<1>2. n \in Nat /\ rpc = "idle" /\ wpc = "idle" /\ MaxRequests \in Nat
  BY <1>1, RequestsAssumption
  DEF RequestInv, CallInv, AnswerInv, FoundInv, TypeOK, ServerTypeOK
<1>3. HoldInv'
  BY <1>1, <1>2 DEF HoldInv, Past, Preparing, Drawing
<1>4. ScreenInv'
  <2>1. \A k \in n + 1 .. MaxRequests, w \in Windows : screen[w] # Picture(k)
    BY DEF AnswerInv, ScreenInv
  <2> QED
    BY <1>1, <1>2, <2>1 DEF ScreenInv, Undrawn, Drawn
<1>5. CASE r.kind = "list" /\ CallEnumerateWindows /\ pc' = "listing"
  <2>1. /\ wpc' = "next" /\ enumerating' /\ windowList' = <<>>
        /\ todo' = { w \in Windows : "exists" \in win[w] }
    BY <1>5 DEF CallEnumerateWindows, ClearList, Is
  <2>2. Range(windowList') = {} /\ Len(windowList') = 0
    BY <2>1 DEF Range
  <2>3. FoundInv' /\ KindInv'
    BY <1>1, <1>5, <2>1 DEF FoundInv, Held, Found, KindInv
  <2>4. ListInv'
    BY <1>1, <2>1, <2>2, FS_EmptySet DEF ListInv, Current, Presentable
  <2> QED
    BY <1>3, <1>4, <1>5, <2>3, <2>4
    DEF AnswerInv, SuccessIsDrawn, ServesUndisturbed, ListExact, Answered
<1>6. CASE r.kind = "unset" /\ pc' = "idle" /\ UNCHANGED windowManager
  <2>1. FoundInv' /\ ListInv' /\ KindInv'
    BY <1>1, <1>2, <1>6
    DEF FoundInv, Held, Found, ListInv, KindInv, windowManager
  <2> QED
    BY <1>1, <1>3, <1>4, <1>6, <2>1
    DEF AnswerInv, SuccessIsDrawn, ServesUndisturbed, ListExact, Answered
<1>7. CASE /\ r.kind \notin { "list", "unset" }
           /\ CallIsWindowValid(r.window) /\ pc' = "validating"
  <2>1. FoundInv' /\ ListInv' /\ KindInv'
    BY <1>1, <1>7
    DEF FoundInv, Held, Found, ListInv, KindInv, CallIsWindowValid
  <2> QED
    BY <1>3, <1>4, <1>7, <2>1
    DEF AnswerInv, SuccessIsDrawn, ServesUndisturbed, ListExact, Answered
<1> QED
  BY <1>5, <1>6, <1>7 DEF Receive, Answer

(* HandleGetWindowList: EnumWindows has called back for every window.      *)
LEMMA SendWindowListAnswers ==
  ASSUME RequestInv, AnswerInv, SendWindowList
  PROVE  AnswerInv'
<1>1. /\ pc = "listing" /\ wpc = "listed" /\ pc' = "idle" /\ wpc' = "idle"
      /\ reply'.windows = windowList /\ rpc = "idle" /\ req.kind = "list"
      /\ UNCHANGED << n, req, rpc, win, changed, screen >>
  BY DEF SendWindowList, Answer, Response, RequestInv, CallInv, AnswerInv,
         KindInv, renderer, desktop, others
<1>2. FoundInv' /\ ListInv' /\ KindInv' /\ ScreenInv' /\ HoldInv'
  BY <1>1, AnsweredRest
<1>3. SuccessIsDrawn' /\ ServesUndisturbed'
  BY <1>1 DEF SuccessIsDrawn, ServesUndisturbed, Answered
<1>4. ListExact'
  BY <1>1 DEF AnswerInv, ListInv, Current, ListExact, Untouched, Presentable,
              Held
<1> QED
  BY <1>2, <1>3, <1>4 DEF AnswerInv

(* ValidateAndInitialize                                                   *)
LEMMA ValidateAnswers ==
  ASSUME RequestInv, AnswerInv, Validate
  PROVE  AnswerInv'
<1>1. /\ pc = "validating" /\ wpc \in { "valid", "invalid" } /\ wpc' = "idle"
      /\ hwnd = req.window /\ rpc = "idle"
      /\ req.kind \notin { "list", "unset" }
      /\ UNCHANGED << n, req, win, changed, screen >>
  BY DEF Validate, RequestInv, CallInv, TargetInv, AnswerInv, KindInv, desktop,
         others
<1>2. /\ \A w \in Windows : << w, "exists" >> \in changed =>
                             \A cond \in Conds : << w, cond >> \in changed
      /\ ScreenInv
      /\ req.kind = "picture" => \A w \in Windows : screen[w] # Picture(n)
  BY <1>1 DEF AnswerInv, FoundInv, ScreenInv, Undrawn
<1>3. CASE wpc = "valid"
  <2>1. pc' = "initializing" /\ rpc' = "initialize" /\ param' = hwnd
    BY <1>3 DEF Validate, CallInitialize
  <2>2. hwnd \in Windows
    BY <1>3 DEF RequestInv, TargetInv, Finding
  <2>3. Untouched(hwnd) => {"exists", "visible"} \subseteq win[hwnd]
    BY <1>3, <2>2 DEF AnswerInv, FoundInv, Held, Found, Untouched, Conds
  <2>4. FoundInv' /\ ListInv' /\ KindInv'
    BY <1>1, <1>2, <2>1 DEF FoundInv, Held, Found, ListInv, KindInv
  <2>5. ScreenInv'
    BY <1>1, <1>2, <2>1 DEF ScreenInv, Undrawn, Drawn
  <2>6. HoldInv'
    BY <1>1, <2>1, <2>2, <2>3
    DEF HoldInv, Past, Preparing, Drawing, Untouched
  <2> QED
    BY <2>1, <2>4, <2>5, <2>6
    DEF AnswerInv, SuccessIsDrawn, ServesUndisturbed, ListExact, Answered
<1>4. CASE wpc = "invalid"
  <2>1. /\ pc' = "idle" /\ rpc' = "idle"
        /\ reply' = [to |-> n, success |-> FALSE, windows |-> <<>>]
    BY <1>1, <1>4 DEF Validate, Answer, Response, renderer
  <2>2. FoundInv' /\ ListInv' /\ KindInv' /\ ScreenInv' /\ HoldInv'
    BY <1>1, <2>1, AnsweredRest
  <2>3. req.window \in Windows =>
          ~(Untouched(req.window) /\ Presentable(req.window))
    BY <1>1, <1>4 DEF AnswerInv, FoundInv
  <2>4. SuccessIsDrawn'
    BY <1>1, <1>2, <2>1 DEF SuccessIsDrawn, Answered
  <2>5. ServesUndisturbed'
    BY <1>1, <2>3
    DEF ServesUndisturbed, Answered, Untouched, Presentable
  <2>6. ListExact'
    BY <1>1 DEF ListExact, Answered
  <2> QED
    BY <2>2, <2>4, <2>5, <2>6 DEF AnswerInv
<1> QED
  BY <1>1, <1>3, <1>4

(* HandleRenderCommand and HandleStopRender, until they return.            *)
LEMMA InitializeFailedAnswers ==
  ASSUME RequestInv, AnswerInv, InitializeFailed
  PROVE  AnswerInv'
<1>1. /\ pc = "initializing" /\ rpc = "false" /\ pc' = "idle" /\ rpc' = "idle"
      /\ reply' = [to |-> n, success |-> FALSE, windows |-> <<>>]
      /\ wpc = "idle" /\ param = req.window
      /\ req.kind \notin { "list", "unset" }
      /\ UNCHANGED << n, req, wpc, win, changed, screen, failed >>
  BY DEF InitializeFailed, Answer, Response, RequestInv, TargetInv, AnswerInv,
         FoundInv, KindInv, windowManager, desktop, others
<1>2. FoundInv' /\ ListInv' /\ KindInv' /\ ScreenInv' /\ HoldInv'
  BY <1>1, AnsweredRest
<1>3. failed \/ ~Untouched(req.window)
  BY <1>1 DEF AnswerInv, HoldInv
<1>4. SuccessIsDrawn'
  BY <1>1 DEF AnswerInv, ScreenInv, Undrawn, SuccessIsDrawn, Answered
<1>5. ServesUndisturbed' /\ ListExact'
  BY <1>1, <1>3 DEF ServesUndisturbed, ListExact, Answered, Untouched
<1> QED
  BY <1>2, <1>4, <1>5 DEF AnswerInv

LEMMA DispatchAnswers ==
  ASSUME RequestInv, AnswerInv, Dispatch
  PROVE  AnswerInv'
<1>1. /\ pc = "initializing" /\ rpc = "true" /\ wpc = "idle" /\ wpc' = "idle"
      /\ req.kind \notin { "list", "unset" } /\ UNCHANGED << n, req, desktop >>
  BY DEF Dispatch, AnswerInv, FoundInv, KindInv, windowManager
<1>2. UNCHANGED << win, changed, screen, winDC >>
  BY <1>1 DEF desktop, others, gdi
<1>3. /\ \A w \in Windows : << w, "exists" >> \in changed =>
                             \A cond \in Conds : << w, cond >> \in changed
      /\ ScreenInv /\ HoldInv
      /\ req.kind = "picture" => \A w \in Windows : screen[w] # Picture(n)
  BY <1>1 DEF AnswerInv, FoundInv, ScreenInv, Undrawn
<1>4. CASE /\ req.kind \in { "picture", "end" } /\ pc' = "rendering"
           /\ CallRenderImageFrame(
                IF req.kind = "end" THEN Garbage ELSE Picture(n), req.size)
  <2>1. /\ rpc' = "frame" /\ UNCHANGED << param, members, failed >>
        /\ frame'.pixels = IF req.kind = "picture" THEN Picture(n) ELSE Garbage
    BY <1>4 DEF CallRenderImageFrame
  <2>2. FoundInv' /\ ListInv' /\ KindInv'
    BY <1>1, <1>2, <1>3, <1>4 DEF FoundInv, Held, Found, ListInv, KindInv
  <2>3. ScreenInv'
    BY <1>1, <1>2, <1>3, <1>4, <2>1 DEF ScreenInv, Undrawn, Drawn
  <2>4. HoldInv'
    BY <1>1, <1>2, <1>3, <1>4, <2>1
    DEF HoldInv, Past, Preparing, Drawing, Untouched, members
  <2> QED
    BY <1>4, <2>2, <2>3, <2>4
    DEF AnswerInv, SuccessIsDrawn, ServesUndisturbed, ListExact, Answered
<1>5. CASE req.kind = "stop" /\ CallClear /\ pc' = "clearing"
  <2>1. rpc' = "clear"
    BY <1>5 DEF CallClear
  <2>2. FoundInv' /\ ListInv' /\ KindInv'
    BY <1>1, <1>2, <1>3, <1>5 DEF FoundInv, Held, Found, ListInv, KindInv
  <2>3. ScreenInv' /\ HoldInv'
    BY <1>1, <1>2, <1>3, <1>5, <2>1
    DEF ScreenInv, Undrawn, Drawn, HoldInv, Past, Preparing, Drawing
  <2> QED
    BY <1>5, <2>2, <2>3
    DEF AnswerInv, SuccessIsDrawn, ServesUndisturbed, ListExact, Answered
<1>6. CASE req.kind = "empty" /\ Answer(n, FALSE, <<>>) /\ rpc' = "idle"
  <2>1. FoundInv' /\ ListInv' /\ KindInv' /\ ScreenInv' /\ HoldInv'
    BY <1>1, <1>2, <1>6, AnsweredRest DEF Answer
  <2> QED
    BY <1>1, <1>6, <2>1
    DEF AnswerInv, SuccessIsDrawn, ServesUndisturbed, ListExact, Answered
<1> QED
  BY <1>4, <1>5, <1>6 DEF Dispatch

LEMMA FinishAnswers ==
  ASSUME RequestInv, AnswerInv, FinishRender \/ FinishStop
  PROVE  AnswerInv'
<1>1. /\ pc' = "idle" /\ rpc' = "idle" /\ wpc = "idle"
      /\ UNCHANGED << n, req, wpc, win, changed, screen, failed >>
  BY DEF FinishRender, FinishStop, Answer, AnswerInv, FoundInv, windowManager,
         desktop, others
<1>2. FoundInv' /\ ListInv' /\ KindInv' /\ ScreenInv' /\ HoldInv'
  BY <1>1, AnsweredRest
<1>3. CASE FinishRender
  <2>1. /\ pc = "rendering" /\ rpc \in { "true", "false" }
        /\ reply' = [to |-> n, success |-> rpc = "true", windows |-> <<>>]
        /\ param = req.window /\ req.kind \in { "picture", "end" }
        /\ rpc = "true" => param \in Windows
    BY <1>3 DEF FinishRender, Answer, Response, RequestInv, TargetInv,
                AnswerInv, KindInv
  <2>2. rpc = "false" => failed \/ ~Untouched(req.window)
    BY <2>1 DEF AnswerInv, HoldInv
  <2>3. SuccessIsDrawn'
    BY <1>1, <2>1
    DEF AnswerInv, ScreenInv, Undrawn, Drawn, SuccessIsDrawn, Answered,
        Untouched
  <2>4. ServesUndisturbed' /\ ListExact'
    BY <1>1, <2>1, <2>2 DEF ServesUndisturbed, ListExact, Answered, Untouched
  <2> QED
    BY <1>2, <2>3, <2>4 DEF AnswerInv
<1>4. CASE FinishStop
  <2>1. req'.kind = "stop"
    BY <1>1, <1>4 DEF FinishStop, AnswerInv, KindInv
  <2> QED
    BY <1>2, <2>1
    DEF AnswerInv, SuccessIsDrawn, ServesUndisturbed, ListExact, Answered
<1> QED
  BY <1>3, <1>4

-----------------------------------------------------------------------------
(* What other processes do to a window counts as touching it.              *)
LEMMA OthersTouch ==
  ASSUME RequestInv, AnswerInv, OtherProcesses
  PROVE  /\ \A w, cond : << w, cond >> \notin changed' =>
                            << w, cond >> \notin changed
         /\ \A w \in Windows, cond \in Conds : << w, cond >> \notin changed' =>
              (cond \in win'[w] <=> cond \in win[w])
         /\ \A w \in Windows : << w, "exists" >> \in changed' =>
                               \A cond \in Conds : << w, cond >> \in changed'
         /\ \A h \in DOMAIN winDC :
              h \in DOMAIN winDC' \/ << winDC[h], "exists" >> \in changed'
         /\ UNCHANGED << memDC, bmp, screen >>
<1>1. /\ win \in [Windows -> SUBSET Conds]
      /\ \A w \in Windows : << w, "exists" >> \in changed =>
                            \A cond \in Conds : << w, cond >> \in changed
  BY DEF RequestInv, TypeOK, DesktopTypeOK, AnswerInv, FoundInv
<1>2. ASSUME NEW v \in Windows, NEW c \in Conds, Change(v, c)
      PROVE  /\ changed' = changed \cup {<< v, c >>} /\ c # "exists"
             /\ win' = [win EXCEPT ![v] = IF c \in @ THEN @ \ {c}
                                                     ELSE @ \cup {c}]
             /\ UNCHANGED << winDC, memDC, bmp, screen >>
  BY <1>2 DEF Change, gdi
<1>3. ASSUME NEW v \in Windows, NEW c \in Conds, Change(v, c)
      PROVE  \A w \in Windows, cond \in Conds : << w, cond >> \notin changed' =>
               (cond \in win'[w] <=> cond \in win[w])
  BY <1>1, <1>2, <1>3
<1>4. ASSUME NEW v \in Windows, Destroy(v)
      PROVE  /\ changed' = changed \cup { << v, cond >> : cond \in Conds }
             /\ win' = [win EXCEPT ![v] = {}]
             /\ DOMAIN winDC' = { h \in DOMAIN winDC : winDC[h] # v }
             /\ UNCHANGED << memDC, bmp, screen >>
  BY <1>4 DEF Destroy, Restrict
<1>5. "exists" \in Conds
  BY DEF Conds
<1>6. CASE \E v \in Windows, c \in Conds : Change(v, c)
  BY <1>1, <1>2, <1>3, <1>6
<1>7. CASE \E v \in Windows : Destroy(v)
  <2>1. PICK v \in Windows : Destroy(v)
    BY <1>7
  <2>2. /\ changed' = changed \cup { << v, cond >> : cond \in Conds }
        /\ win' = [win EXCEPT ![v] = {}]
        /\ DOMAIN winDC' = { h \in DOMAIN winDC : winDC[h] # v }
        /\ UNCHANGED << memDC, bmp, screen >>
    BY <1>4, <2>1
  <2>3. /\ \A w, cond : << w, cond >> \in changed => << w, cond >> \in changed'
        /\ \A cond \in Conds : << v, cond >> \in changed'
        /\ \A w, cond : << w, cond >> \in changed' =>
                          w = v \/ << w, cond >> \in changed
    BY <2>2
  <2> QED
    BY <1>1, <1>5, <2>2, <2>3
<1> QED
  BY <1>6, <1>7 DEF OtherProcesses

(* Nothing is known of a window that others touch, and of the others       *)
(* nothing changes.                                                        *)
LEMMA OthersAnswer ==
  ASSUME RequestInv, AnswerInv, OtherProcesses,
         UNCHANGED << server, windowManager, renderer >>
  PROVE  AnswerInv'
<1>1. /\ UNCHANGED << pc, n, req, reply, wpc, hwnd, enumerating, todo,
                      windowList, rpc, param, frame, targetWindow, windowDC,
                      memoryDC, bitmap, failed, memDC, bmp, screen >>
      /\ \A w, cond : << w, cond >> \notin changed' =>
                        << w, cond >> \notin changed
      /\ \A w \in Windows, cond \in Conds : << w, cond >> \notin changed' =>
           (cond \in win'[w] <=> cond \in win[w])
      /\ \A w \in Windows : << w, "exists" >> \in changed' =>
                            \A cond \in Conds : << w, cond >> \in changed'
      /\ \A h \in DOMAIN winDC :
           h \in DOMAIN winDC' \/ << winDC[h], "exists" >> \in changed'
  BY OthersTouch DEF server, windowManager, renderer, call, members
<1>2. /\ \A w : Untouched(w)' => Untouched(w)
      /\ \A w \in Windows, cond \in Conds :
           Untouched(w)' => (cond \in win'[w] <=> cond \in win[w])
  BY <1>1 DEF Untouched
<1>3. \A w \in Windows : Untouched(w)' => (Presentable(w)' <=> Presentable(w))
  BY <1>2 DEF Presentable, Conds
<1>4. \A w \in Windows, S \in SUBSET Conds : Held(w, S) => Held(w, S)'
  BY <1>1 DEF Held
<1>5. windowList \in Seq(Windows) /\ Range(windowList) \subseteq Windows
  BY DEF RequestInv, TypeOK, WindowManagerTypeOK, Range
<1>6. FoundInv'
  BY <1>1, <1>2, <1>3, <1>4 DEF AnswerInv, FoundInv, Found
<1>7. ListInv' /\ KindInv'
  BY <1>1, <1>2, <1>3, <1>4, <1>5 DEF AnswerInv, ListInv, KindInv, Current
<1>8. ScreenInv'
  BY <1>1, <1>2 DEF AnswerInv, ScreenInv, Undrawn, Drawn
<1>9. HoldInv'
  <2>1. \A calls : Past(calls)' <=> Past(calls)
    BY <1>1 DEF Past
  <2>2. \A calls : Past(calls) =>
          /\ param \in Windows
          /\ windowDC \in DOMAIN winDC => winDC[windowDC] = param
    BY DEF Past, RequestInv, TargetInv, TypeOK, HandlesLive
  <2>3. /\ {"exists", "visible"} \subseteq Conds
        /\ {"visible", "restored"} \subseteq Conds
    BY DEF Conds
  <2>4. param \in Windows /\ Untouched(param)' =>
          /\ Untouched(param)
          /\ \A cond \in Conds : cond \in win'[param] <=> cond \in win[param]
    BY <1>1, <1>2
  <2>5. Past({"getDC"})' /\ Untouched(param)' => windowDC \in DOMAIN winDC'
    BY <1>1, <2>1, <2>2, <2>3, <2>4
    DEF AnswerInv, HoldInv, Untouched
  <2>6. HoldInv
    BY DEF AnswerInv
  <2>7. pc = "initializing" /\ Untouched(param)' =>
          {"exists", "visible"} \subseteq win'[param]
    BY <2>3, <2>4, <2>6 DEF HoldInv
  <2>8. Past({"getDC", "createDC", "attach", "restore"}) /\ Untouched(param)' =>
          {"visible", "restored"} \subseteq win'[param]
    BY <2>2, <2>3, <2>4, <2>6 DEF HoldInv
  <2>9. /\ param' = param
        /\ pc \in { "initializing", "rendering" } /\ rpc = "false" =>
             failed \/ ~Untouched(param)'
    BY <1>1, <1>2, <2>6 DEF HoldInv
  <2> QED
    BY <1>1, <2>1, <2>5, <2>6, <2>7, <2>8, <2>9 DEF HoldInv, Untouched
<1>10. SuccessIsDrawn' /\ ServesUndisturbed'
  BY <1>1, <1>2, <1>3
  DEF AnswerInv, SuccessIsDrawn, ServesUndisturbed, Answered
<1>11. ListExact'
  <2>1. reply.windows \in Seq(Windows) /\ Range(reply.windows) \subseteq Windows
    BY DEF RequestInv, TypeOK, ServerTypeOK, Range
  <2> QED
    BY <1>1, <1>2, <1>3, <2>1 DEF AnswerInv, ListExact, Answered
<1> QED
  BY <1>6, <1>7, <1>8, <1>9, <1>10, <1>11 DEF AnswerInv

LEMMA AnswerInitial == Init => AnswerInv
<1> SUFFICES ASSUME Init PROVE AnswerInv
  OBVIOUS
<1>1. /\ pc = "idle" /\ wpc = "idle" /\ rpc = "idle" /\ n = 0 /\ changed = {}
      /\ \A w \in Windows : screen[w] = Original
  BY DEF Init, DesktopInit, WindowManagerInit, RendererInit
<1>2. \A k \in n + 1 .. MaxRequests, w \in Windows : screen[w] # Picture(k)
  BY <1>1, Pictures, RequestsAssumption
<1>3. FoundInv /\ ListInv /\ KindInv /\ ScreenInv /\ HoldInv
  BY <1>1, <1>2, IdleRest
<1> QED
  BY <1>1, <1>3
  DEF AnswerInv, SuccessIsDrawn, ServesUndisturbed, ListExact, Answered

LEMMA AnswerInductive ==
  RequestInv /\ AnswerInv /\ [Next]_vars => AnswerInv'
<1> SUFFICES ASSUME RequestInv, AnswerInv, [Next]_vars PROVE AnswerInv'
  OBVIOUS
<1>1. CASE HandleMessage
  BY <1>1, WindowManagerAnswers, InitializeAnswers, RenderAnswers, ClearAnswers,
     SendWindowListAnswers, ValidateAnswers, InitializeFailedAnswers,
     DispatchAnswers, FinishAnswers
  DEF HandleMessage, RendererStep
<1>2. CASE \E r \in Request : Receive(r)
  BY <1>2, ReceiveAnswers
<1>3. CASE OtherProcesses /\ UNCHANGED << server, windowManager, renderer >>
  BY <1>3, OthersAnswer
<1>4. CASE Destroyed
  <2>1. /\ pc = "idle" /\ rpc = "idle" /\ wpc = "idle" /\ pc' = "gone"
        /\ UNCHANGED << n, req, windowManager, rpc, changed, screen >>
    BY <1>4 DEF Destroyed, others, RequestInv, CallInv, AnswerInv, FoundInv
  <2>2. FoundInv' /\ ListInv' /\ KindInv'
    BY <2>1
    DEF AnswerInv, FoundInv, Held, Found, ListInv, KindInv, windowManager
  <2>3. ScreenInv' /\ HoldInv'
    BY <2>1 DEF AnswerInv, ScreenInv, Undrawn, Drawn, HoldInv, Past, Preparing,
                Drawing
  <2> QED
    BY <2>1, <2>2, <2>3
    DEF AnswerInv, SuccessIsDrawn, ServesUndisturbed, ListExact, Answered
<1>5. CASE UNCHANGED vars
  <2>1. /\ UNCHANGED << server, renderer, desktop >>
        /\ UNCHANGED << wpc, hwnd, enumerating, todo, windowList, pc, changed,
                        win >>
    BY <1>5 DEF vars, server, windowManager, desktop, others
  <2>2. FoundInv' /\ ListInv'
    BY <2>1 DEF AnswerInv, FoundInv, ListInv, Found, Held, Current, Untouched,
                Presentable
  <2> QED
    BY <2>1, <2>2, RestStays DEF AnswerInv
<1> QED
  BY <1>1, <1>2, <1>3, <1>4, <1>5 DEF Next, Gone

(* What is known of the windows nobody else touches, at every step of a    *)
(* request.                                                                *)
THEOREM AnswerSafe == Spec => []AnswerInv
BY AnswerInitial, AnswerInductive, RequestSafe, PTL DEF Spec

(* Both invariants of the handler, whatever fails and whoever interferes.  *)
THEOREM HandlerSafe == Spec => []HandlerInv
BY RequestSafe, AnswerSafe, PTL DEF HandlerInv

(* A picture that was drawn, on the window its request names and on no     *)
(* other, is reported as drawn; and one that is reported shows there,      *)
(* unless somebody else touched that window meanwhile.                     *)
THEOREM SuccessIsDrawnSafe == Spec => []SuccessIsDrawn
<1>1. AnswerInv => SuccessIsDrawn
  BY DEF AnswerInv
<1> QED
  BY <1>1, AnswerSafe, PTL

(* What earlier requests left behind never stands in the way of a picture  *)
(* for a presentable window.                                               *)
THEOREM ServesUndisturbedSafe == Spec => []ServesUndisturbed
<1>1. AnswerInv => ServesUndisturbed
  BY DEF AnswerInv
<1> QED
  BY <1>1, AnswerSafe, PTL

(* The list has the presentable windows, each once, and no others.         *)
THEOREM ListExactSafe == Spec => []ListExact
<1>1. AnswerInv => ListExact
  BY DEF AnswerInv
<1> QED
  BY <1>1, AnswerSafe, PTL

-----------------------------------------------------------------------------
(* RequestNearer: what is left to do for a request.                        *)

(* StepsLeft by where the handler is, before a step and after it.          *)
LEMMA StepsByPlace ==
  /\ pc = "listing" /\ wpc # "listed" =>
       StepsLeft = 6 * Cardinality(todo) + 2 + QueryLeft[wpc]
  /\ pc = "listing" /\ wpc = "listed" => StepsLeft = 1
  /\ pc = "validating" => StepsLeft = 14 + QueryLeft[wpc]
  /\ pc = "initializing" => StepsLeft = 4 + CallLeft[rpc]
  /\ pc \in {"idle", "rendering", "clearing"} => StepsLeft = CallLeft[rpc]
BY DEF StepsLeft

LEMMA StepsByPlaceNext ==
  /\ pc' = "listing" /\ wpc' # "listed" =>
       StepsLeft' = 6 * Cardinality(todo') + 2 + QueryLeft[wpc']
  /\ pc' = "listing" /\ wpc' = "listed" => StepsLeft' = 1
  /\ pc' = "validating" => StepsLeft' = 14 + QueryLeft[wpc']
  /\ pc' = "initializing" => StepsLeft' = 4 + CallLeft[rpc']
  /\ pc' \in {"idle", "rendering", "clearing"} => StepsLeft' = CallLeft[rpc']
BY DEF StepsLeft

(* A step of the window manager: the windows still to be asked about, and  *)
(* what is still to be asked about the one at hand.                        *)
LEMMA WindowManagerNearer ==
  ASSUME RequestInv, WindowManagerStep, pc' = pc,
         pc \in {"listing", "validating"}
  PROVE  StepsLeft' < StepsLeft
<1>1. wpc \in DOMAIN QueryLeft /\ \A q \in DOMAIN QueryLeft : QueryLeft[q] \in Nat
  BY DEF RequestInv, TypeOK, WindowManagerTypeOK, QueryLeft
<1>2. IsFiniteSet(todo) /\ Cardinality(todo) \in Nat
  BY WindowsAssumption, FS_Subset, FS_CardinalityType
     DEF RequestInv, TypeOK, WindowManagerTypeOK
<1>3. ASSUME todo' = todo, wpc' \in DOMAIN QueryLeft \ {"listed"},
             wpc # "listed", QueryLeft[wpc'] < QueryLeft[wpc]
      PROVE  StepsLeft' < StepsLeft
  BY <1>1, <1>2, <1>3, StepsByPlace, StepsByPlaceNext
<1>4. CASE IsWindowValid
  <2>1. /\ todo' = todo /\ wpc' \in DOMAIN QueryLeft \ {"listed"}
        /\ wpc # "listed"
    BY <1>4 DEF IsWindowValid, Query, QueryLeft
  <2>2. QueryLeft[wpc'] < QueryLeft[wpc]
    BY <1>4 DEF IsWindowValid, Query, QueryLeft
  <2> QED
    BY <1>3, <2>1, <2>2
<1>5. CASE NextWindow
  <2>1. PICK w \in todo : todo' = todo \ {w}
    BY <1>5 DEF NextWindow
  <2>2. PICK k \in Nat : k = Cardinality(todo') /\ Cardinality(todo) = k + 1
    <3>1. /\ IsFiniteSet(todo \ {w})
          /\ Cardinality(todo \ {w}) = Cardinality(todo) - 1
      BY <1>2, <2>1, FS_RemoveElement, Zenon
    <3>2. Cardinality(todo') \in Nat
      BY <2>1, <3>1, FS_CardinalityType
    <3>3. Cardinality(todo') = Cardinality(todo) - 1
      BY <2>1, <3>1
    <3> QED
      BY <1>2, <3>2, <3>3
  <2>3. wpc = "next" /\ wpc' = "isWindow" /\ pc = "listing"
    BY <1>5 DEF NextWindow, RequestInv, CallInv, Finding
  <2>4. StepsLeft = 6 * (k + 1) + 2 /\ StepsLeft' = 6 * k + 2 + 5
    BY <2>2, <2>3, StepsByPlace, StepsByPlaceNext DEF QueryLeft
  <2> QED
    BY <2>2, <2>4
<1>6. CASE EndEnumeration
  <2>1. wpc = "next" /\ wpc' = "listed" /\ pc = "listing"
    BY <1>6 DEF EndEnumeration, RequestInv, CallInv, Finding
  <2>2. StepsLeft = 6 * Cardinality(todo) + 2 /\ StepsLeft' = 1
    BY <1>2, <2>1, StepsByPlace, StepsByPlaceNext DEF QueryLeft
  <2> QED
    BY <1>2, <2>2
<1>7. CASE EnumWindowsProc
  BY <1>3, <1>7 DEF EnumWindowsProc, QueryLeft
<1> QED
  BY <1>4, <1>5, <1>6, <1>7 DEF WindowManagerStep

(* A step of the renderer: the calls that are still to come.               *)
LEMMA RendererNearer ==
  ASSUME RequestInv, RendererStep, pc' = pc
  PROVE  StepsLeft' < StepsLeft
<1>1. rpc \in DOMAIN CallLeft /\ \A q \in DOMAIN CallLeft : CallLeft[q] \in Nat
  BY DEF RequestInv, TypeOK, RendererTypeOK, CallLeft
<1>2. rpc' \in DOMAIN CallLeft /\ CallLeft[rpc'] < CallLeft[rpc] /\ rpc # "idle"
  <2>1. CASE Initialize
    <3>1. CASE InitializeChecks \/ InitializeCleansUp
      BY <3>1 DEF InitializeChecks, InitializeCleansUp, AfterCheck, CallLeft
    <3>2. CASE InitializeGetsDC \/ InitializeCreatesDC
      BY <3>2 DEF InitializeGetsDC, InitializeCreatesDC, Fail, CallLeft
    <3>3. CASE InitializeAttaches \/ InitializeRestores
      <4>1. \/ rpc = "attach" /\ rpc' = "restore"
            \/ rpc = "restore" /\ rpc' = "raise"
        BY <3>3, Zenon DEF InitializeAttaches, InitializeRestores
      <4> QED
        BY <4>1 DEF CallLeft
    <3>4. CASE InitializeRaises \/ InitializeLowers \/ InitializeDetaches
      BY <3>4 DEF InitializeRaises, InitializeLowers, InitializeDetaches,
             AfterRaise, CallLeft
    <3> QED
      BY <2>1, <3>1, <3>2, <3>3, <3>4 DEF Initialize
  <2>2. CASE RenderImageFrame
    BY <2>2 DEF RenderImageFrame, RenderFrameCreatesBitmap,
       CreateCompatibleBitmap, RenderFrameSetsBits, RenderFrameBlts, Fail,
       CallLeft
  <2>3. CASE Clear
    BY <2>3 DEF Clear, CallLeft
  <2> QED
    BY <2>1, <2>2, <2>3 DEF RendererStep
<1>3. pc \in {"initializing", "rendering", "clearing"}
  BY <1>2 DEF RequestInv, TypeOK, ServerTypeOK, CallInv
<1> QED
  BY <1>1, <1>2, <1>3, StepsByPlace, StepsByPlaceNext

(* A step of the dispatcher: it has less to do after each call it makes.   *)
LEMMA DispatcherNearer ==
  ASSUME RequestInv,
         \/ SendWindowList \/ Validate \/ InitializeFailed \/ Dispatch
         \/ FinishRender \/ FinishStop
  PROVE  StepsLeft' < StepsLeft
<1>1. CASE SendWindowList
  <2>1. pc = "listing" /\ wpc = "listed" /\ pc' = "idle" /\ rpc' = "idle"
    BY <1>1 DEF SendWindowList, Answer, RequestInv, CallInv, renderer
  <2>2. StepsLeft = 1 /\ StepsLeft' = 0
    BY <2>1, StepsByPlace, StepsByPlaceNext DEF CallLeft
  <2> QED
    BY <2>2
<1>2. CASE Validate
  <2>1. /\ pc = "validating" /\ wpc \in {"valid", "invalid"}
        /\ \/ pc' = "initializing" /\ rpc' = "initialize"
           \/ pc' = "idle" /\ rpc' = "idle"
    BY <1>2 DEF Validate, Answer, CallInitialize, RequestInv, CallInv, renderer
  <2>2. StepsLeft = 15 /\ StepsLeft' \in {14, 0}
    BY <2>1, StepsByPlace, StepsByPlaceNext DEF QueryLeft, CallLeft
  <2> QED
    BY <2>2
<1>3. CASE InitializeFailed \/ Dispatch
  <2>1. /\ pc = "initializing" /\ rpc \in {"true", "false"}
        /\ \/ pc' = "rendering" /\ rpc' = "frame"
           \/ pc' = "clearing" /\ rpc' = "clear"
           \/ pc' = "idle" /\ rpc' = "idle"
    BY <1>3 DEF InitializeFailed, Dispatch, Answer, CallRenderImageFrame,
           CallClear
  <2>2. StepsLeft = 5 /\ StepsLeft' \in {4, 2, 0}
    BY <2>1, StepsByPlace, StepsByPlaceNext DEF CallLeft
  <2> QED
    BY <2>2
<1>4. CASE FinishRender \/ FinishStop
  <2>1. /\ pc \in {"rendering", "clearing"} /\ rpc \in {"true", "false"}
        /\ pc' = "idle" /\ rpc' = "idle"
    BY <1>4 DEF FinishRender, FinishStop, Answer
  <2>2. StepsLeft = 1 /\ StepsLeft' = 0
    BY <2>1, StepsByPlace, StepsByPlaceNext DEF CallLeft
  <2> QED
    BY <2>2
<1> QED
  BY <1>1, <1>2, <1>3, <1>4

(* Every request is answered after at most StepsLeft steps of the program, *)
(* whatever fails and whatever the other processes do.                     *)
THEOREM RequestNearerSafe == Spec => RequestNearer
<1>1. RequestInv /\ AnswerInv /\ [Next]_vars =>
        [pc \notin {"idle", "gone"} => Nearer]_vars
  <2> SUFFICES ASSUME RequestInv, AnswerInv, Next, pc \notin {"idle", "gone"}
               PROVE  Nearer
    OBVIOUS
  <2>1. CASE /\ WindowManagerStep
             /\ UNCHANGED << server, renderer, desktop >>
    <3>1. wpc # "idle"
      BY <2>1 DEF WindowManagerStep, IsWindowValid, Query, NextWindow,
         EndEnumeration, EnumWindowsProc
    <3>2. pc \in {"listing", "validating"}
      BY <3>1 DEF AnswerInv, FoundInv
    <3> QED
      BY <2>1, <3>2, WindowManagerNearer DEF Nearer, server
  <2>2. CASE RendererStep /\ UNCHANGED << server, windowManager >>
    BY <2>2, RendererNearer DEF Nearer, server
  <2>3. CASE \/ SendWindowList \/ Validate \/ InitializeFailed \/ Dispatch
             \/ FinishRender \/ FinishStop
    BY <2>3, DispatcherNearer DEF Nearer
  <2>4. CASE OtherProcesses /\ UNCHANGED << server, windowManager, renderer >>
    BY <2>4 DEF Nearer
  <2>5. CASE Destroyed \/ Gone \/ \E r \in Request : Receive(r)
    BY <2>5 DEF Destroyed, Gone, Receive
  <2> QED
    BY <2>1, <2>2, <2>3, <2>4, <2>5 DEF Next, HandleMessage
<1> QED
  BY <1>1, RequestSafe, AnswerSafe, PTL DEF Spec, RequestNearer

-----------------------------------------------------------------------------
(* The handler implements DrawingService.                                  *)

(* There is a request to handle when one is handled.                       *)
Taken == pc \notin {"idle", "gone"} => n > 0

LEMMA TakenSafe == Spec => []Taken
<1>1. Init => Taken
  BY DEF Init, Taken
<1>2. RequestInv /\ Taken /\ [Next]_vars => Taken'
  <2> SUFFICES ASSUME RequestInv, Taken, [Next]_vars PROVE Taken'
    OBVIOUS
  <2>1. n \in Nat
    BY DEF RequestInv, TypeOK, ServerTypeOK
  <2>2. CASE UNCHANGED server
    BY <2>2 DEF Taken, server
  <2>3. CASE \/ SendWindowList \/ Validate \/ InitializeFailed \/ Dispatch
             \/ FinishRender \/ FinishStop
    BY <2>3 DEF Taken, SendWindowList, Validate, InitializeFailed, Dispatch,
       FinishRender, FinishStop
  <2>4. CASE \E r \in Request : Receive(r)
    BY <2>1, <2>4 DEF Taken, Receive
  <2>5. CASE Destroyed
    BY <2>5 DEF Taken, Destroyed
  <2> QED
    BY <2>2, <2>3, <2>4, <2>5 DEF Next, HandleMessage, Gone, vars
<1> QED
  BY <1>1, <1>2, RequestSafe, PTL DEF Spec

(* A step that neither takes, nor draws, nor answers a request.            *)
LEMMA QuietStep ==
  ASSUME UNCHANGED << n, req, screen, reply >>,
         pc' \in {"idle", "gone"} <=> pc \in {"idle", "gone"},
         pc' \in {"rendering", "clearing"} /\ rpc' = "true" <=>
           pc \in {"rendering", "clearing"} /\ rpc = "true"
  PROVE  UNCHANGED Drawings!vars
BY DEF Drawings!vars

(* What a drawing puts on which window.                                    *)
LEMMA DrawStep ==
  ASSUME RequestInv, AnswerInv, Taken, UNCHANGED server, rpc # "true",
         rpc' = "true", pc \in {"rendering", "clearing"},
         req.window \in Windows,
         \/ UNCHANGED screen
         \/ /\ pc = "rendering"
            /\ screen' = [screen EXCEPT ![req.window] = frame.pixels]
         \/ /\ pc = "clearing"
            /\ screen' = [screen EXCEPT ![req.window] = Black]
  PROVE  Drawings!Draw
<1>1. n \in 1 .. MaxRequests
  BY DEF RequestInv, TypeOK, ServerTypeOK, Taken
<1> DEFINE Ink == [k \in 1 .. MaxRequests |->
                     [picture |-> Picture(k), end |-> Garbage, stop |-> Black]]
<1>2. /\ Ink[n]["picture"] = Picture(n) /\ Ink[n]["end"] = Garbage
      /\ Ink[n]["stop"] = Black
  BY <1>1
<1>3. \/ /\ pc = "rendering" /\ req.kind \in {"picture", "end"}
         /\ frame.pixels = Ink[n][req.kind]
      \/ pc = "clearing" /\ req.kind = "stop" /\ Black = Ink[n][req.kind]
  BY <1>2 DEF AnswerInv, KindInv, ScreenInv
<1>4. screen' \in { screen,
                    [screen EXCEPT ![req.window] = Ink[n][req.kind]] }
  BY <1>3
<1> QED
  BY <1>3, <1>4 DEF Drawings!Draw, Drawings!Draws, server

(* RenderImageFrame draws the request's picture, and with the DC of the    *)
(* request's window; Clear paints that window black.                       *)
LEMMA DrawingDraws ==
  ASSUME RequestInv, AnswerInv, Taken, RendererStep,
         UNCHANGED << server, windowManager >>
  PROVE  Drawings!Draw \/ UNCHANGED Drawings!vars
<1>1. /\ pc \in { "idle", "listing", "validating", "initializing",
                  "rendering", "clearing", "gone" }
      /\ CallInv /\ TargetInv /\ HandlesLive /\ HoldInv
  BY DEF RequestInv, TypeOK, ServerTypeOK, AnswerInv
<1>2. UNCHANGED << pc, n, req, reply >>
  BY DEF server
<1>3. CASE Initialize
  <2>1. UNCHANGED screen /\ pc = "initializing"
    BY <1>1, <1>3 DEF Initialize, InitializeChecks, InitializeCleansUp,
       InitializeGetsDC, InitializeCreatesDC, InitializeAttaches,
       InitializeRestores, InitializeRaises, InitializeLowers,
       InitializeDetaches, desktop, CallInv, Drawing
  <2> QED
    BY <1>2, <2>1, QuietStep
<1>4. CASE RenderFrameCreatesBitmap \/ RenderFrameSetsBits
  <2>1. UNCHANGED screen /\ rpc # "true" /\ rpc' # "true"
    BY <1>4 DEF RenderFrameCreatesBitmap, RenderFrameSetsBits,
       CreateCompatibleBitmap, Fail
  <2> QED
    BY <1>2, <2>1, QuietStep
<1>5. CASE RenderFrameBlts
  <2>1. pc = "rendering" /\ rpc = "blt"
    BY <1>1, <1>5 DEF RenderFrameBlts, CallInv, Preparing
  <2>2. /\ req.window \in Windows /\ targetWindow = req.window
        /\ windowDC \in DOMAIN winDC => winDC[windowDC] = req.window
    BY <1>1, <2>1 DEF TargetInv, Drawing, HandlesLive
  <2>3. memDC[memoryDC] = bitmap /\ bmp[bitmap].pixels = frame.pixels
    BY <1>1, <2>1 DEF HoldInv, Past, Drawing, HandlesLive
  <2>4. \/ UNCHANGED screen
        \/ screen' = [screen EXCEPT ![req.window] = frame.pixels]
    BY <1>5, <2>2, <2>3 DEF RenderFrameBlts, Blt
  <2>5. rpc' = "true" \/ (rpc' = "false" /\ UNCHANGED screen)
    BY <1>5 DEF RenderFrameBlts, Fail
  <2>6. CASE rpc' = "true"
    BY <2>1, <2>2, <2>4, <2>6, DrawStep
  <2>7. CASE rpc' = "false" /\ UNCHANGED screen
    BY <1>2, <2>1, <2>7, QuietStep
  <2> QED
    BY <2>5, <2>6, <2>7
<1>6. CASE Clear
  <2>1. pc = "clearing" /\ rpc = "clear" /\ rpc' = "true"
    BY <1>1, <1>6 DEF Clear, CallInv, Preparing, Drawing
  <2>2. /\ req.window \in Windows /\ targetWindow = req.window
        /\ windowDC \in DOMAIN winDC => winDC[windowDC] = req.window
    BY <1>1, <2>1 DEF TargetInv, HandlesLive
  <2>3. \/ UNCHANGED screen
        \/ screen' = [screen EXCEPT ![req.window] = Black]
    BY <1>6, <2>2 DEF Clear
  <2> QED
    BY <2>1, <2>2, <2>3, DrawStep
<1> QED
  BY <1>3, <1>4, <1>5, <1>6 DEF RendererStep, RenderImageFrame

(* The dispatcher answers what became of the request, or goes on with it.  *)
LEMMA DispatcherAnswers ==
  ASSUME RequestInv, AnswerInv,
         \/ SendWindowList \/ Validate \/ InitializeFailed \/ Dispatch
         \/ FinishRender \/ FinishStop
  PROVE  Drawings!Answer \/ UNCHANGED Drawings!vars
<1>1. CallInv /\ KindInv /\ windowList \in Seq(Windows)
  BY DEF RequestInv, TypeOK, WindowManagerTypeOK, AnswerInv
<1>2. UNCHANGED << n, req, screen >>
  BY DEF SendWindowList, Validate, InitializeFailed, Dispatch, FinishRender,
     FinishStop, desktop
<1>3. ASSUME NEW success \in BOOLEAN, Answer(n, success, <<>>),
             pc \notin {"idle", "gone", "listing"}, req.kind # "list",
             success <=> pc \in {"rendering", "clearing"} /\ rpc = "true"
      PROVE  Drawings!Answer
  BY <1>2, <1>3 DEF Answer, Response, Drawings!Answer, Drawings!Answered
<1>4. CASE SendWindowList
  <2>1. pc = "listing" /\ req.kind = "list" /\ Answer(n, TRUE, windowList)
    BY <1>1, <1>4 DEF SendWindowList, KindInv
  <2> QED
    BY <1>1, <1>2, <2>1
       DEF Answer, Response, Drawings!Answer, Drawings!Answered
<1>5. CASE Validate
  <2>1. pc = "validating" /\ req.kind # "list"
    BY <1>1, <1>5 DEF Validate, KindInv
  <2>2. \/ pc' = "initializing" /\ UNCHANGED reply
        \/ Answer(n, FALSE, <<>>)
    BY <1>5 DEF Validate
  <2>3. CASE pc' = "initializing" /\ UNCHANGED reply
    BY <1>2, <2>1, <2>3, QuietStep
  <2> QED
    BY <1>3, <2>1, <2>2, <2>3
<1>6. CASE InitializeFailed \/ Dispatch
  <2>1. pc = "initializing" /\ req.kind # "list"
    BY <1>1, <1>6 DEF InitializeFailed, Dispatch, KindInv
  <2>2. \/ /\ pc' \in {"rendering", "clearing"} /\ rpc' # "true"
           /\ UNCHANGED reply
        \/ Answer(n, FALSE, <<>>)
    BY <1>6 DEF InitializeFailed, Dispatch, CallRenderImageFrame, CallClear
  <2>3. CASE /\ pc' \in {"rendering", "clearing"} /\ rpc' # "true"
             /\ UNCHANGED reply
    BY <1>2, <2>1, <2>3, QuietStep
  <2> QED
    BY <1>3, <2>1, <2>2, <2>3
<1>7. CASE FinishRender
  <2>1. pc = "rendering" /\ req.kind # "list"
    BY <1>1, <1>7 DEF FinishRender, KindInv
  <2> QED
    BY <1>3, <1>7, <2>1 DEF FinishRender
<1>8. CASE FinishStop
  <2>1. pc = "clearing" /\ req.kind # "list"
    BY <1>1, <1>8 DEF FinishStop, KindInv
  <2> QED
    BY <1>3, <1>8, <2>1 DEF FinishStop
<1> QED
  BY <1>4, <1>5, <1>6, <1>7, <1>8

(* A request is taken; one without content is answered at once.            *)
LEMMA ReceiveTakes ==
  ASSUME RequestInv, NEW r \in Request, Receive(r)
  PROVE  Drawings!Next
<1>1. /\ pc = "idle" /\ n + 1 \in 1 .. MaxRequests /\ n' = n + 1 /\ req' = r
      /\ UNCHANGED screen
  <2>1. n \in 0 .. MaxRequests
    BY DEF RequestInv, TypeOK, ServerTypeOK
  <2>2. /\ pc = "idle" /\ n < MaxRequests /\ n' = n + 1 /\ req' = r
        /\ UNCHANGED screen
    BY DEF Receive
  <2> QED
    BY <2>1, <2>2, RequestsAssumption
<1>2. CASE r.kind = "unset"
  <2>1. Answer(n + 1, FALSE, <<>>)
    BY <1>2 DEF Receive
  <2>2. Drawings!Refuse(r)
    BY <1>1, <1>2, <2>1
       DEF Answer, Response, Drawings!Refuse, Drawings!Answered
  <2> QED
    BY <2>2 DEF Drawings!Next
<1>3. CASE r.kind # "unset"
  <2>1. pc' \in {"listing", "validating"} /\ UNCHANGED reply
    BY <1>3 DEF Receive
  <2>2. Drawings!Take(r)
    BY <1>1, <2>1 DEF Drawings!Take
  <2> QED
    BY <2>2 DEF Drawings!Next
<1> QED
  BY <1>2, <1>3

(* Whoever sends a request may take the handler for one that does each     *)
(* request in one piece: every step of the dispatcher, the window manager  *)
(* and the renderer is one of DrawingService or is not seen there.         *)
THEOREM HandlerImplementsDrawing == Spec => ImplementsDrawing
<1>1. Init => Drawings!Init
  BY DEF Init, DesktopInit, Request, Drawings!Init
<1>2. RequestInv /\ AnswerInv /\ Taken /\ [Next]_vars =>
        [Drawings!Next]_(Drawings!vars)
  <2> SUFFICES ASSUME RequestInv, AnswerInv, Taken, [Next]_vars
               PROVE  Drawings!Next \/ UNCHANGED Drawings!vars
    OBVIOUS
  <2>1. CASE /\ WindowManagerStep
             /\ UNCHANGED << server, renderer, desktop >>
    BY <2>1, QuietStep DEF server, renderer, desktop
  <2>2. CASE RendererStep /\ UNCHANGED << server, windowManager >>
    BY <2>2, DrawingDraws DEF Drawings!Next
  <2>3. CASE \/ SendWindowList \/ Validate \/ InitializeFailed \/ Dispatch
             \/ FinishRender \/ FinishStop
    BY <2>3, DispatcherAnswers DEF Drawings!Next
  <2>4. CASE \E r \in Request : Receive(r)
    BY <2>4, ReceiveTakes
  <2>5. CASE OtherProcesses /\ UNCHANGED << server, windowManager, renderer >>
    <3>1. UNCHANGED << pc, n, req, reply, rpc, screen >>
      BY <2>5 DEF OtherProcesses, Change, Destroy, server, renderer
    <3> QED
      BY <3>1, QuietStep
  <2>6. CASE Destroyed
    <3>1. pc = "idle" /\ pc' = "gone" /\ UNCHANGED << n, req, reply, screen >>
      BY <2>6 DEF Destroyed
    <3> QED
      BY <3>1, QuietStep
  <2>7. CASE UNCHANGED vars
    BY <2>7, QuietStep DEF vars, server, renderer, desktop
  <2> QED
    BY <2>1, <2>2, <2>3, <2>4, <2>5, <2>6, <2>7 DEF Next, HandleMessage, Gone
<1> QED
  BY <1>1, <1>2, RequestSafe, AnswerSafe, TakenSafe, PTL
     DEF Spec, ImplementsDrawing, Drawings!Spec
=============================================================================
