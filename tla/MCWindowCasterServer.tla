------------------------ MODULE MCWindowCasterServer ------------------------
(* Small instances of WindowCasterServer.                                  *)
EXTENDS WindowCasterServer, TLC

CONSTANTS w1, w2, h1, h2, s1, s2

MCWindows == {w1, w2}
(* One handle more than the renderer needs of a kind, so that one can leak. *)
MCHandles == {h1, h2}
MCSizes == {s1, s2}

MCOneWindow == {w1}
MCOneHandle == {h1}
MCOneSize == {s1}

Symmetry ==
  Permutations(MCWindows) \cup Permutations(MCHandles) \cup Permutations(MCSizes)
=============================================================================
