----------------------------- MODULE MCDecoders -----------------------------
(* Reassembled blocks without packets.  One of them, UndecodableNumber, has  *)
(* too few different ones to be decoded.                                    *)
EXTENDS Decoders, TLC

CONSTANTS MaxNumber, UndecodableNumber
MCItems == {[id |-> IdOf(n), n |-> n] : n \in 0 .. MaxNumber}
MCDecodable == {x \in MCItems : x.n # UndecodableNumber}

=============================================================================
