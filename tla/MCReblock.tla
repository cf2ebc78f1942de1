----------------------------- MODULE MCReblock ------------------------------
(* Two packets a block and five ids, so a window of two; more blocks than   *)
(* ids, so that the ids wrap.  One link is reliable but for duplicates and  *)
(* restarts of the sender, one loses nothing, the last one does.            *)
EXTENDS ReblockLink

ThreeLinks ==
  {{"duplicate", "restart"}, {"overtake", "restart"}, {"lose", "duplicate", "overtake"}}

=============================================================================
