--------------------------- MODULE MCSendPipeline ---------------------------
(* Two encoders, ids modulo 3, enough blocks to fill the three channels and *)
(* every thread.                                                            *)
EXTENDS SendPipeline

=============================================================================
