------------------------------ MODULE MCUdpLink ------------------------------
(* Headers of three bytes and one, packets aligned to two, quarters for      *)
(* percentages.  An MTU of 9 gives packets of 4, a block of 13 three of them *)
(* and a repair packet for each two quarters.                                *)
EXTENDS UdpLink

Side(mtu, block, repair, min_repair, batch) ==
  [mtu |-> mtu, block |-> block, repair |-> repair, min_repair |-> min_repair, batch |-> batch]

Options(send, receive, rmem_max) == [send |-> send, receive |-> receive, rmem_max |-> rmem_max]

SomeConfigs ==
  { Options(Side(9, 13, 3, 0, None), Side(9, 13, 3, 0, 2), 200),
    Options(Side(9, 13, 3, 0, 3), Side(9, 13, 3, 2, None), 200),
    Options(Side(9, 13, 0, 0, 2), Side(9, 13, 0, 0, 3), 200),
    Options(Side(9, 13, 2, 0, 2), Side(11, 13, 2, 1, 2), 30) }

=============================================================================
