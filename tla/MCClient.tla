------------------------------ MODULE MCClient ------------------------------
(* Small instances of Client.  With Base = 2 a prefix is four bits.        *)
EXTENDS Client, TLC

CONSTANTS c1, c2

MCConns == {c1, c2}
MCOneConn == {c1}

(* The requests, as bodies of one byte; the final frame differs.           *)
MCRequest == <<1>>
MCFinal == <<0>>
MCMessages == {MCRequest, MCFinal}
MCNone == {}

MCAll == {"list", "image", "video"}
MCPictures == {"image", "video"}

Symmetry == Permutations(MCConns)
=============================================================================
