--------------------------- MODULE MCNetworkServer ---------------------------
(* Small instances of NetworkServer.  With Base = 2 a prefix is four bits. *)
EXTENDS NetworkServer, TLC

CONSTANTS c1, c2

MCConns == {c1, c2}
MCOneConn == {c1}

(* An empty body, and a body of one byte.                                  *)
ShortMessages == { <<>>, <<1>> }
(* Bodies that look like prefixes when they are cut in the wrong place.    *)
LongMessages == { <<>>, <<1, 1>> }
EmptyMessage == { <<>> }

Symmetry == Permutations(MCConns)
=============================================================================
