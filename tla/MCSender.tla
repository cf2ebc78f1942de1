------------------------------ MODULE MCSender ------------------------------
(* Two client ids.  diode-send with two clients on two server threads, or    *)
(* with three on one thread, --flush and a heartbeat; diode-oneshot-send     *)
(* with a full block as its stdin.                                           *)
EXTENDS Sender

Two      == [oneshot |-> FALSE, flush |-> FALSE, heartbeat |-> FALSE, max_clients |-> 2,
             connections |-> 2]
Flushing == [oneshot |-> FALSE, flush |-> TRUE, heartbeat |-> TRUE, max_clients |-> 1,
             connections |-> 3]
OneShot  == [oneshot |-> TRUE, flush |-> FALSE, heartbeat |-> FALSE, max_clients |-> 1,
             connections |-> 1]

AllConfigs   == {Two, Flushing, OneShot}
OneShotAlone == {OneShot}

\* A block is full with two bytes.
FullThenEmpty == <<2, 0, 0>>

=============================================================================
