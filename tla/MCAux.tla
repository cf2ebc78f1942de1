-------------------------------- MODULE MCAux --------------------------------
(* A file of up to five bytes, buffers of two or three, footers of two: the  *)
(* content fills buffers exactly or not, and can be mistaken for a footer.   *)
(* Three connections to the file server, all of one name, and of two sizes;  *)
(* two sessions of the tunnel, of two datagrams and one, of up to two bytes. *)
EXTENDS AuxPrograms

Side(bytes, hash) == [buffer_size |-> bytes, hash |-> hash]

Hashing == [send |-> Side(2, TRUE), receive |-> Side(2, TRUE)]
Plain   == [send |-> Side(3, FALSE), receive |-> Side(2, FALSE)]

PassingConfigs == {Hashing, Plain}

File(n, k) == [name |-> n, chunks |-> k]

TwoSessions == <<2, 1>>

ThreeOfOneName == <<File("f", 2), File("f", 1), File("f", 2)>>

=============================================================================
