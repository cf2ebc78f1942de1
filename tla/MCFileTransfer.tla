--------------------------- MODULE MCFileTransfer ---------------------------
(* Both sides hash, with a buffer of two bytes and one of three. *)
EXTENDS FileTransfer

Side(size, hash) == [buffer_size |-> size, hash |-> hash]

UnequalAlone == {[send |-> Side(2, TRUE), receive |-> Side(3, TRUE)]}

=============================================================================
