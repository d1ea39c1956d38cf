------------------------------- MODULE Framing -------------------------------
(***************************************************************************)
(* The framing both programs put around a protobuf message on the TCP      *)
(* stream: a 4-byte little-endian length, then the body.  The client       *)
(* writes it in network.rs (send_message), the server takes it apart in    *)
(* network_server.cpp (ListenThread) and writes it in SendMessage.         *)
(*                                                                         *)
(* A byte is a number below Base.  Base is 256 in the program; the model   *)
(* checker uses 2, which keeps all four prefix bytes and shrinks uint32_t  *)
(* to Word = 16 values.                                                    *)
(***************************************************************************)
EXTENDS Naturals, Sequences

CONSTANT Base

ASSUME BaseAssumption == Base \in Nat \ {0, 1}

Byte == 0 .. (Base - 1)
PrefixLen == 4

(* How many values a uint32_t has: sums of uint32_t are taken modulo Word. *)
Word == Base * (Base * (Base * Base))

(* `len as u32` and to_le_bytes: the four low digits of n, lowest first.   *)
LenPrefix(n) ==
  << n % Base,
     (n \div Base) % Base,
     ((n \div Base) \div Base) % Base,
     (((n \div Base) \div Base) \div Base) % Base >>

(* memcpy(&msgLen, &pending[0], 4) on the little-endian x64 build.         *)
MsgLen(pending) ==
  pending[1] + Base * (pending[2] + Base * (pending[3] + Base * pending[4]))

(* The two size tests of the parse loop.  `4 + msgLen` is a uint32_t sum.  *)
(* Mutant: the test is <= where the code has <.                            *)
CompleteStrict(pending) ==
  /\ Len(pending) >= PrefixLen
  /\ Len(pending) > (PrefixLen + MsgLen(pending)) % Word

Complete(pending) ==
  /\ Len(pending) >= PrefixLen
  /\ Len(pending) >= (PrefixLen + MsgLen(pending)) % Word

FirstMsg(pending) ==
  SubSeq(pending, PrefixLen + 1, PrefixLen + MsgLen(pending))

(* Mutant: the prefix is not erased with the body.                         *)
AfterBody(pending) == SubSeq(pending, MsgLen(pending) + 1, Len(pending))

AfterFirst(pending) ==
  SubSeq(pending, PrefixLen + MsgLen(pending) + 1, Len(pending))

(* The bodies whose frames this framing can carry: the total must stay     *)
(* below Word.  A protobuf message is smaller than 2^31 bytes.             *)
Fits(m) == PrefixLen + Len(m) < Word
=============================================================================
