---------------------------- MODULE EchoClients ----------------------------
(***************************************************************************)
(* The client program of target 03, step03/clients.cpp: its main thread    *)
(* starts one thread per client and joins them; each thread connects,      *)
(* sends its one message, makes one recv and closes.  Beside them there    *)
(* may be clients of other programs that connect and say nothing, the      *)
(* case requirement 03 is about (dong_dong_network_requires_v1.md, target  *)
(* 03, "承接痛点").                                                         *)
(***************************************************************************)
EXTENDS Tcp

CONSTANT Idle      \* the clients that never send

ASSUME IdleAssumption == Idle \subseteq Clients

VARIABLES
  cpc,    \* where each client thread is in runClient
  cmain   \* where the main thread is: starting threads, joining, done

clientVars == <<cpc, cmain>>

Active == Clients \ Idle

ClientPcs == {"new", "socket", "connect", "send", "recv", "close", "done"}

ClientsTypeOK ==
  /\ cpc \in [Clients -> ClientPcs]
  /\ cmain \in {"spawn", "join", "done"}

ClientsInit ==
  /\ cpc = [c \in Clients |-> IF c \in Idle THEN "socket" ELSE "new"]
  /\ cmain = "spawn"

ClientGoto(c, from, to) ==
  /\ cpc[c] = from
  /\ cpc' = [cpc EXCEPT ![c] = to]
  /\ UNCHANGED cmain

-----------------------------------------------------------------------------
(* main                                                                    *)

\* threads.emplace_back(runClient, i)
SpawnClient(c) ==
  /\ cmain = "spawn"
  /\ c \in Active
  /\ ClientGoto(c, "new", "socket")
  /\ UNCHANGED netVars

\* The loop that starts threads ends, the loop that joins them begins.
StartJoin ==
  /\ cmain = "spawn"
  /\ \A c \in Active : cpc[c] # "new"
  /\ cmain' = "join"
  /\ UNCHANGED <<cpc, netVars>>

\* Every join has returned: "all clients done".
AllClientsDone ==
  /\ cmain = "join"
  /\ \A c \in Active : cpc[c] = "done"
  /\ cmain' = "done"
  /\ UNCHANGED <<cpc, netVars>>

-----------------------------------------------------------------------------
(* runClient                                                               *)

\* socket() gives a descriptor, or fails and the thread returns.
ClientSocket(c) ==
  /\ \E to \in {"connect", "done"} : ClientGoto(c, "socket", to)
  /\ UNCHANGED netVars

ClientConnect(c) ==
  /\ ClientGoto(c, "connect", "send")
  /\ NetConnect(c)

\* connect() < 0: the socket is closed and the thread returns.
ClientConnectFails(c) ==
  /\ ClientGoto(c, "connect", "done")
  /\ NetConnectError

\* send(), whose result the client does not look at.
ClientSend(c) ==
  /\ c \in Active
  /\ ClientGoto(c, "send", "recv")
  /\ NetClientSend(c)

\* The one recv() of a client; a result of 0 or less is not reported.
ClientRecv(c) ==
  /\ ClientGoto(c, "recv", "close")
  /\ \/ \E n \in 1 .. MsgLen : NetClientRecv(c, n)
     \/ NetClientRecvEnd(c)

ClientClose(c) ==
  /\ ClientGoto(c, "close", "done")
  /\ NetClientClose(c)

\* A silent client may leave without having sent anything, or stay.
IdleLeaves(c) ==
  /\ c \in Idle
  /\ ClientGoto(c, "send", "close")
  /\ UNCHANGED netVars

ClientThread(c) ==
  \/ SpawnClient(c)
  \/ ClientSocket(c)
  \/ ClientConnect(c)
  \/ ClientConnectFails(c)
  \/ ClientSend(c)
  \/ ClientRecv(c)
  \/ ClientClose(c)

ClientMain == StartJoin \/ AllClientsDone

ClientsNext ==
  \/ ClientMain
  \/ \E c \in Clients : ClientThread(c) \/ IdleLeaves(c)

=============================================================================
