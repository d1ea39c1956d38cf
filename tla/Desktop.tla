------------------------------- MODULE Desktop -------------------------------
(***************************************************************************)
(* The desktop the server draws on, and the GDI objects it uses to do so.  *)
(* None of this is in the repository: it is modelled from the Win32 calls  *)
(* window_manager.cpp and renderer.cpp make.  Other processes show, hide,  *)
(* minimise and destroy windows between any two of those calls.            *)
(***************************************************************************)
EXTENDS Naturals, FiniteSets, Sequences, Functions

CONSTANTS
  Windows,     (* the windows there are at the start                       *)
  NoWindow,    (* a handle that is not a window's, NULL among them         *)
  Handles,     (* the values of HDC and HBITMAP handles                    *)
  NoHandle,    (* nullptr                                                  *)
  MaxChanges   (* bound: what other processes change                       *)

ASSUME NoWindowAssumption == NoWindow \notin Windows
ASSUME NoHandleAssumption == NoHandle \notin Handles
ASSUME WindowsAssumption == IsFiniteSet(Windows)
ASSUME ChangesAssumption == MaxChanges \in Nat

VARIABLES
  win,         (* what is true of each window                              *)
  changed,     (* history: what others changed since the last request came *)
  changes,     (* how many changes there were                              *)
  winDC,       (* live window DCs, and the window of each                  *)
  memDC,       (* live memory DCs, and the bitmap selected into each       *)
  bmp,         (* live bitmaps, with their size and pixels                 *)
  screen,      (* what the server drew last on each window                 *)
  topmost,     (* the windows above all others                             *)
  attached     (* the listener shares its input queue with a window        *)

gdi     == << winDC, memDC, bmp >>
others  == << win, changed, changes >>
desktop == << others, gdi, screen, topmost, attached >>

(* A handle as a request carries it need not be a window's.                *)
Handle == Windows \cup {NoWindow}

Conds == { "exists", "visible", "titled", "uncloaked", "restored" }

Is(w, cond) == w \in Windows /\ cond \in win[w]

(* What the picture of a request, and everything else, looks like.         *)
Picture(n) == << "picture", n >>
Black == << "black" >>
Garbage == << "garbage" >>
Original == << "original" >>

DesktopInit ==
  /\ win = [w \in Windows |-> Conds]
  /\ changed = {} /\ changes = 0
  /\ winDC = << >> /\ memDC = << >> /\ bmp = << >>
  /\ screen = [w \in Windows |-> Original]
  /\ topmost = {} /\ attached = FALSE

(* The table of objects with one more object, and with one less.           *)
With(table, h, object) ==
  [x \in DOMAIN table \cup {h} |-> IF x = h THEN object ELSE table[x]]
Without(table, h) == Restrict(table, DOMAIN table \ {h})

-----------------------------------------------------------------------------
Change(w, cond) ==
  /\ changes < MaxChanges /\ Is(w, "exists") /\ cond # "exists"
  /\ win' = [win EXCEPT ![w] = IF cond \in @ THEN @ \ {cond} ELSE @ \cup {cond}]
  /\ changed' = changed \cup { << w, cond >> }
  /\ changes' = changes + 1
  /\ UNCHANGED << gdi, screen, topmost, attached >>

(* The system takes back the DCs of a window that is destroyed.            *)
Destroy(w) ==
  /\ changes < MaxChanges /\ Is(w, "exists")
  /\ win' = [win EXCEPT ![w] = {}]
  /\ changed' = changed \cup { << w, cond >> : cond \in Conds }
  /\ changes' = changes + 1
  /\ winDC' = Restrict(winDC, { h \in DOMAIN winDC : winDC[h] # w })
  /\ topmost' = topmost \ {w}
  /\ UNCHANGED << memDC, bmp, screen, attached >>

OtherProcesses ==
  \E w \in Windows : Destroy(w) \/ \E cond \in Conds : Change(w, cond)

-----------------------------------------------------------------------------
DesktopTypeOK ==
  /\ win \in [Windows -> SUBSET Conds] /\ topmost \subseteq Windows
  /\ changed \subseteq Windows \X Conds /\ changes \in 0 .. MaxChanges
  /\ attached \in BOOLEAN /\ DOMAIN screen = Windows
=============================================================================
