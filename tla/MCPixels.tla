------------------------------ MODULE MCPixels ------------------------------
(* Small instances of Pixels.                                              *)
EXTENDS Pixels

MCSizes == (1 .. 18) \X (1 .. 4)
(* The smallest picture both of whose dimensions matter: its rows are nine *)
(* bytes to the client and twelve to SetDIBits.                            *)
MCOneSize == { << 3, 2 >> }
=============================================================================
