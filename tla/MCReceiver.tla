----------------------------- MODULE MCReceiver -----------------------------
(* One packet a block: a lost packet is a lost block.  Seven blocks, ids     *)
(* modulo 5, packets of two neighbouring blocks interleaved, one restart.   *)
EXTENDS Receiver

RestartsOnly == {{"restart"}}
LossOnly     == {{"lose"}}

=============================================================================
