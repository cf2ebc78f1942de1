---------------------------- MODULE RaptorQParams ----------------------------
(***************************************************************************)
(* The sizes and counts that RaptorQ::new (protocol.rs) computes from the  *)
(* MTU, the block size and the percentages of repair data, in u16 and u32. *)
(* Each side computes its own from its own options, and nothing on the     *)
(* link tells one of the other's.  An operation that overflows wraps: the  *)
(* release profile of Cargo.toml does not check for it.                    *)
(***************************************************************************)
EXTENDS Integers

CONSTANTS U16, U32,             \* how many values a u16 and a u32 have
          PACKET_HEADER_SIZE,   \* of IP and UDP: 20 + 8
          RAPTORQ_HEADER_SIZE,  \* 4
          RAPTORQ_ALIGNMENT,    \* 8
          Hundred               \* what percentages are of

ASSUME RaptorQAssumption ==
  /\ {U16, U32, RAPTORQ_ALIGNMENT, Hundred} \subseteq Nat \ {0}
  /\ {PACKET_HEADER_SIZE, RAPTORQ_HEADER_SIZE} \subseteq Nat
  /\ U16 <= U32

Larger(a, b) == IF a < b THEN b ELSE a

Room(mtu) == (mtu - PACKET_HEADER_SIZE - RAPTORQ_HEADER_SIZE) % U16

\* max_packet_size: the largest aligned size that a packet has room for.
MaxPacketSize(mtu) == Room(mtu) - (Room(mtu) % RAPTORQ_ALIGNMENT)

\* The packets that make up a percentage of a block.
Share(length, percentage, size) == (((length \div Hundred) * percentage) % U32) \div size

\* Defined for a max_packet_size that is not 0: the program divides by it.
New(mtu, block_size, repair_percentage, min_repair_percentage) ==
  LET size    == MaxPacketSize(mtu)
      symbols == block_size \div size
      length  == (size * symbols) % U32
      repair  == Share(length, repair_percentage, size)
      minimum == Share(length, min_repair_percentage, size)
  IN  [max_packet_size |-> size, symbol_count |-> symbols, transfer_length |-> length,
       nb_repair_packets |-> Larger(repair, minimum), min_nb_repair_packets |-> minimum]

\* RaptorQ::new returns no error.
Accepted(raptorq) ==
  {raptorq.symbol_count, raptorq.nb_repair_packets, raptorq.min_nb_repair_packets}
    \subseteq 0 .. (U16 - 1)

\* Mutant: the packets that the receiver waits for include all repair packets.
MinNbPacketsAll(raptorq) == (raptorq.symbol_count + raptorq.nb_repair_packets) % U16

\* The packets that the receiver waits for before it decodes.
MinNbPackets(raptorq) == (raptorq.symbol_count + raptorq.min_nb_repair_packets) % U16

\* The packets that the sender makes of a block.
NbPackets(raptorq) == raptorq.symbol_count + raptorq.nb_repair_packets

\* The bytes of a packet in a UDP datagram.
DatagramLen(raptorq) == raptorq.max_packet_size + RAPTORQ_HEADER_SIZE

=============================================================================
