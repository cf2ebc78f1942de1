----------------------------- MODULE MCDelivery -----------------------------
(* Two client ids that are used again, as many workers and more transfers.  *)
EXTENDS Delivery

=============================================================================
