----------------------------- MODULE AuxPrograms -----------------------------
(***************************************************************************)
(* The programs beside the diode (aux): a file transfer, the server that   *)
(* receives files, and the UDP tunnel.  They share nothing but the library *)
(* they are built from; each behavior is one of one of them.               *)
(***************************************************************************)
EXTENDS FileTransfer, FileServer, UdpTunnel

VARIABLE program

auxVars == <<program, vars, serverVars, tunVars>>

\* The programs that do not run stay as they are.
AuxInit ==
  /\ program \in {"file", "server", "tunnel"}
  /\ Init /\ ServerInit /\ TunnelInit
  /\ program # "file" =>
       config = (CHOOSE c \in Configs : TRUE) /\ fileLen = 0 /\ ~existed

RunFile(A)   == program = "file" /\ A /\ UNCHANGED <<program, serverVars, tunVars>>
RunServer(A) == program = "server" /\ A /\ UNCHANGED <<program, vars, tunVars>>
RunTunnel(A) == program = "tunnel" /\ A /\ UNCHANGED <<program, vars, serverVars>>

AuxNext == RunFile(Next) \/ RunServer(ServerNext) \/ RunTunnel(TunnelNext)

\* The programs run: a file transfer sends and receives, every stream to the file
\* server comes to an end, and its threads go on while they can, and so does the
\* receiver of the tunnel.
AuxSpec ==
  /\ AuxInit /\ [][AuxNext]_auxVars
  /\ WF_auxVars(RunFile(Sender)) /\ WF_auxVars(RunFile(Receiver))
  /\ WF_auxVars(RunServer(FileServer))
  /\ \A c \in Conns : WF_auxVars(RunServer(ReceiveFile(c)))
  /\ WF_auxVars(RunTunnel(TunnelReceiver))

=============================================================================
