---------------------------- MODULE BlockingEcho ----------------------------
(***************************************************************************)
(* Target 02: the single-threaded echo server (step02/server.cpp), which   *)
(* serves one client and ends, and client processes of step02/client.cpp.  *)
(*                                                                         *)
(* The server's steps include those of its local objects' constructors and *)
(* destructors: SocketInitializer (Platform.cpp), declared first and so    *)
(* destroyed last, and EchoServer, which closes its two descriptors.       *)
(***************************************************************************)
EXTENDS Tcp

CONSTANTS
  Idle,     \* clients of other programs that connect and say nothing
  RecvMax,  \* sizeof(buf) - 1 in serve
  NoConn    \* connFd_ is invalidSocket()

ASSUME BlockingAssumption ==
  /\ Idle \subseteq Clients
  /\ RecvMax \in Nat \ {0}
  /\ NoConn \notin Clients

VARIABLES
  spc,      \* where the server process is
  winsock,  \* TRUE: this is the Windows build; never changes
  wsa,      \* Winsock of the server process
  listenFd, \* "invalid", "open" or "closed" (and then invalid again)
  conn,     \* the client whose connection connFd_ is
  buf,      \* the bytes of serve's buffer that the last recv filled
  cpc       \* where each client process is

serverVars == <<spc, winsock, wsa, listenFd, conn, buf>>

vars == <<netVars, serverVars, cpc>>

ServerPcs == {"init", "socket", "bind", "listen", "accept", "recv", "send",
              "closeConn", "closeListen", "cleanup", "exited", "dead"}

ClientPcs == {"socket", "connect", "send", "recv", "close", "done"}

\* Every variable has its type, and no recv overruns buf (server.cpp:72-82).
TypeOK ==
  /\ NetTypeOK
  /\ spc \in ServerPcs
  /\ winsock \in BOOLEAN
  /\ wsa \in {"none", "started", "failed", "cleaned"}
  /\ listenFd \in {"invalid", "open", "closed"}
  /\ conn \in Clients \cup {NoConn}
  /\ buf \in Seq(Byte) /\ Len(buf) <= RecvMax
  /\ cpc \in [Clients -> ClientPcs]

Init ==
  /\ NetInit
  /\ spc = "init"
  /\ winsock \in BOOLEAN
  /\ wsa = "none"
  /\ listenFd = "invalid"
  /\ conn = NoConn
  /\ buf = <<>>
  /\ cpc = [c \in Clients |-> "socket"]

ServerGoto(from, to) ==
  /\ spc = from
  /\ spc' = to
  /\ UNCHANGED <<cpc, winsock>>

-----------------------------------------------------------------------------
(* main, start                                                             *)

\* SocketInitializer: a failure of WSAStartup is logged, the program goes on.
InitSockets ==
  /\ ServerGoto("init", "socket")
  /\ wsa' \in IF winsock THEN {"started", "failed"} ELSE {"none"}
  /\ UNCHANGED <<netVars, listenFd, conn, buf>>

\* socket() can fail, and without Winsock it does; "return false".
StartSocket ==
  /\ \/ /\ ServerGoto("socket", "bind")
        /\ wsa # "failed"
        /\ listenFd' = "open"
     \/ ServerGoto("socket", "closeConn") /\ UNCHANGED listenFd
  /\ UNCHANGED <<netVars, wsa, conn, buf>>

\* bind() can fail with listenFd_ open: the destructor closes it.
StartBind ==
  /\ \E to \in {"listen", "closeConn"} : ServerGoto("bind", to)
  /\ UNCHANGED <<netVars, wsa, listenFd, conn, buf>>

StartListen ==
  /\ \/ ServerGoto("listen", "accept") /\ NetListen
     \/ ServerGoto("listen", "closeConn") /\ UNCHANGED netVars
  /\ UNCHANGED <<wsa, listenFd, conn, buf>>

-----------------------------------------------------------------------------
(* serve                                                                   *)

\* The one accept(); if it fails serve returns.
ServeAccept ==
  /\ backlog # <<>>
  /\ \/ /\ ServerGoto("accept", "recv")
        /\ conn' = Head(backlog)
        /\ NetAccept(Head(backlog))
     \/ ServerGoto("accept", "closeConn") /\ UNCHANGED <<netVars, conn>>
  /\ UNCHANGED <<wsa, listenFd, buf>>

ServeRecv ==
  /\ ServerGoto("recv", "send")
  /\ \E n \in 1 .. RecvMax :
       /\ NetRecv(conn, n)
       /\ buf' = Chunk(conn, rcvd[conn], n)
  /\ UNCHANGED <<wsa, listenFd, conn>>

ServeRecvEof ==
  /\ ServerGoto("recv", "closeConn")
  /\ NetRecvEof(conn)
  /\ UNCHANGED <<wsa, listenFd, conn, buf>>

\* Mutant: "n < 0" is logged, and the loop goes on.
ServeRecvErrorGoesOn ==
  /\ ServerGoto("recv", "recv")
  /\ srv[conn] \in {"reset", "dead"}
  /\ UNCHANGED <<netVars, wsa, listenFd, conn, buf>>

ServeRecvError ==
  /\ ServerGoto("recv", "closeConn")
  /\ NetRecvError(conn)
  /\ UNCHANGED <<wsa, listenFd, conn, buf>>

\* Mutant: a send that succeeded is sent again.
ServeSendTwice ==
  /\ ServerGoto("send", "recv")
  /\ \/ NetSend(conn, buf \o buf)
     \/ NetSendError(conn)
  /\ UNCHANGED <<wsa, listenFd, conn, buf>>

\* send(connFd_, buf, n, 0); its result is not looked at.
ServeSend ==
  /\ ServerGoto("send", "recv")
  /\ \/ NetSend(conn, buf)
     \/ NetSendError(conn)
     \/ srv[conn] = "dead" /\ winsock /\ UNCHANGED netVars
  /\ UNCHANGED <<wsa, listenFd, conn, buf>>

\* POSIX: SIGPIPE ends the process, and no destructor runs.
ServeSigPipe ==
  /\ ServerGoto("send", "dead")
  /\ ~winsock
  /\ srv[conn] = "dead"
  /\ NetServerGone
  /\ UNCHANGED <<wsa, listenFd, conn, buf>>

-----------------------------------------------------------------------------
(* The destructors: ~EchoServer calls closeAll, then ~SocketInitializer.   *)

\* Mutant: after a client the server accepts the next one.
CloseConnAcceptsAgain ==
  /\ ServerGoto("closeConn", IF conn # NoConn THEN "accept" ELSE "closeListen")
  /\ IF conn # NoConn THEN NetCloseServerEnd(conn) ELSE UNCHANGED netVars
  /\ conn' = NoConn
  /\ UNCHANGED <<wsa, listenFd, buf>>

\* Mutant: closeAll forgets the listening descriptor.
CloseListenForgets ==
  /\ ServerGoto("closeListen", "cleanup")
  /\ UNCHANGED <<netVars, listenFd, wsa, conn, buf>>

CloseConn ==
  /\ ServerGoto("closeConn", "closeListen")
  /\ IF conn # NoConn THEN NetCloseServerEnd(conn) ELSE UNCHANGED netVars
  /\ conn' = NoConn
  /\ UNCHANGED <<wsa, listenFd, buf>>

CloseListen ==
  /\ ServerGoto("closeListen", "cleanup")
  /\ IF listenFd = "open"
     THEN listenFd' = "closed" /\ NetCloseListener
     ELSE UNCHANGED <<listenFd, netVars>>
  /\ UNCHANGED <<wsa, conn, buf>>

\* WSACleanup(); main returns, and the kernel closes what is still open.
Cleanup ==
  /\ ServerGoto("cleanup", "exited")
  /\ wsa' = IF winsock THEN "cleaned" ELSE wsa
  /\ NetServerGone
  /\ UNCHANGED <<listenFd, conn, buf>>

Server ==
  \/ InitSockets \/ StartSocket \/ StartBind \/ StartListen
  \/ ServeAccept \/ ServeRecv \/ ServeRecvEof \/ ServeRecvError
  \/ ServeSend \/ ServeSigPipe
  \/ CloseConn \/ CloseListen \/ Cleanup

-----------------------------------------------------------------------------
(* The client processes.                                                   *)

ClientGoto(c, from, to) ==
  /\ cpc[c] = from
  /\ cpc' = [cpc EXCEPT ![c] = to]
  /\ UNCHANGED serverVars

ClientSocket(c) ==
  /\ \E to \in {"connect", "done"} : ClientGoto(c, "socket", to)
  /\ UNCHANGED netVars

\* connect() < 0: main returns -1, the destructor closes the socket.
ClientConnect(c) ==
  \/ ClientGoto(c, "connect", "send") /\ NetConnect(c)
  \/ ClientGoto(c, "connect", "done") /\ NetConnectError

\* echo: send, whose result is not looked at, and one recv.
ClientSend(c) ==
  /\ c \notin Idle
  /\ ClientGoto(c, "send", "recv")
  /\ NetClientSend(c)

ClientRecv(c) ==
  /\ ClientGoto(c, "recv", "close")
  /\ \/ \E n \in 1 .. MsgLen : NetClientRecv(c, n)
     \/ NetClientRecvEnd(c)

\* ~EchoClient
ClientClose(c) ==
  /\ ClientGoto(c, "close", "done")
  /\ NetClientClose(c)

\* A silent client may leave, or stay.
IdleLeaves(c) ==
  /\ c \in Idle
  /\ ClientGoto(c, "send", "close")
  /\ UNCHANGED netVars

Client(c) ==
  \/ ClientSocket(c) \/ ClientConnect(c) \/ ClientSend(c)
  \/ ClientRecv(c) \/ ClientClose(c)

Network(c) == NetRstArrives(c) /\ UNCHANGED <<serverVars, cpc>>

Next ==
  \/ Server
  \/ \E c \in Clients : Client(c) \/ IdleLeaves(c) \/ Network(c)

Spec == Init /\ [][Next]_vars

\* The processes are scheduled by the operating system, a RST gets there in
\* the end; a silent client owes nothing.
FairSpec ==
  /\ Spec
  /\ WF_vars(Server)
  /\ \A c \in Clients : WF_vars(Client(c)) /\ WF_vars(Network(c))

-----------------------------------------------------------------------------

\* Winsock is not shut down while the server still has a socket: the
\* destructors run in the right order on every return of main
\* (server.cpp:108-118, 89-98).
SocketsBeforeWinsock ==
  wsa = "cleaned" => listenFd # "open" /\ conn = NoConn

\* The bytes in hand are the last ones received: nothing is dropped or sent
\* again while the connection stands (server.cpp:73-85).
InStep ==
  conn # NoConn /\ srv[conn] = "open" =>
    Len(out[conn]) + (IF spc = "send" THEN Len(buf) ELSE 0) = rcvd[conn]

\* One client is served in the life of the process; the others of the queue
\* get nothing but the end of their connection (step03/server.cpp:3, "一次只能
\* 服务一个客户端").
OneClientServed == \A c, d \in Clients : out[c] # <<>> /\ out[d] # <<>> => c = d

\* The one connection is served in step, and all is of its type
\* (server.cpp:60-85).
OneClientInStep == TypeOK /\ InStep /\ OneClientServed

\* The promise of an echo server, kept by this one too.
Echo == INSTANCE EchoService WITH
  said <- {c \in Clients : sent[c] > 0},
  heard <- [c \in Clients |-> Got(c)]

\* Nobody who waits for an answer waits forever, unless it is for a silent
\* client: the end of the server's one connection ends the process, and that
\* resets those in the queue (server.cpp:60-98).
WaitersReleased ==
  \A c \in Clients : (cpc[c] = "recv") ~> (cpc[c] = "done" \/ conn \in Idle)

\* The process ends once the client it serves has left.
ServerEnds ==
  \A c \in Clients :
    (conn = c /\ cli[c] # "open") ~> (spc \in {"exited", "dead"})

\* The process ends when it should, and its end is all that releases the
\* clients nobody serves (server.cpp:60-98).
EndReleases == WaitersReleased /\ ServerEnds

\* "用 RAII 保证 WSAStartup 与 WSACleanup 成对调用" (Platform.h:23): WSACleanup is
\* called for a WSAStartup that succeeded.  False: the destructor does not
\* know whether it did.
WsaPaired == [][wsa' = "cleaned" => wsa = "started"]_vars

=============================================================================
