------------------------ MODULE BlockingEcho_proofs -------------------------
(***************************************************************************)
(* Proofs about BlockingEcho, for any clients, message length, buffer and  *)
(* queue, in both builds.                                                  *)
(***************************************************************************)
EXTENDS BlockingEcho, SequenceTheorems, TLAPS

-----------------------------------------------------------------------------
(* The inductive invariant.                                                *)

Before == {"init", "socket", "bind", "listen", "accept"}   \* the one accept()
Serving == {"recv", "send"}

\* Nothing is received or sent before the one connection there is; the bytes of
\* others do not come after it; and connFd_ stands for it until closeAll.
OneConnection ==
  /\ spc \in Before => conn = NoConn /\ \A c \in Clients : out[c] = <<>> /\ rcvd[c] = 0
  /\ spc \in Serving => conn # NoConn
  /\ conn # NoConn => spc \in Serving \cup {"closeConn", "dead"}
  /\ spc \in Serving \cup {"closeConn"} => \A c \in Clients : out[c] # <<>> => c = conn

\* What closeAll has closed when ~SocketInitializer runs.
Closed ==
  /\ spc \in {"cleanup", "exited"} => listenFd # "open"
  /\ wsa = "cleaned" => spc = "exited"

-----------------------------------------------------------------------------
(* Types.                                                                  *)

\* The bytes a recv puts in the buffer (step02/server.cpp:73) are bytes of the
\* client, as many as it returned.
LEMMA ChunkType ==
  ASSUME NEW c \in Clients, NEW k \in Nat, NEW n \in Nat, k + n <= MsgLen
  PROVE  /\ Chunk(c, k, n) \in Seq(Byte)
         /\ Len(Chunk(c, k, n)) = n
  <1>1. \A i \in 1 .. n : <<c, k + i>> \in Byte
    BY TcpAssumption DEF Byte
  <1> QED  BY <1>1 DEF Chunk

\* The server's process and the network start with every variable in its type.
LEMMA InitTypeOK == Init => TypeOK
  <1> SUFFICES ASSUME Init PROVE TypeOK
    OBVIOUS
  <1>1. NetInit /\ <<>> \in Seq(Clients) /\ <<>> \in Seq(Byte) /\ Len(<<>>) = 0
    BY DEF Init
  <1>2. /\ listening \in BOOLEAN
        /\ backlog \in Seq(Clients)
        /\ rst \in [Clients -> BOOLEAN]
    BY <1>1 DEF NetInit
  <1>3. /\ cli \in [Clients -> CliStates]
        /\ srv \in [Clients -> SrvStates]
    BY <1>1 DEF NetInit, CliStates, SrvStates
  <1>4. /\ sent \in [Clients -> 0 .. MsgLen]
        /\ rcvd \in [Clients -> 0 .. MsgLen]
        /\ rd \in [Clients -> Nat]
        /\ out \in [Clients -> Seq(Byte)]
    BY <1>1, TcpAssumption DEF NetInit
  <1>5. NetTypeOK
    BY <1>2, <1>3, <1>4 DEF NetTypeOK
  <1> QED
    BY <1>1, <1>5, BlockingAssumption DEF Init, TypeOK, ServerPcs, ClientPcs

\* A step of the server keeps the types; connFd_ is a connection in serve.
LEMMA ServerType ==
  ASSUME TypeOK, OneConnection, Server
  PROVE  TypeOK'
  <1> USE DEF TypeOK, NetTypeOK, ServerGoto, netVars, ServerPcs
  <1>0. <<>> \in Seq(Clients)
    OBVIOUS
  <1>1. CASE InitSockets
    BY <1>1 DEF InitSockets
  <1>2. CASE StartSocket
    BY <1>2 DEF StartSocket
  <1>3. CASE StartBind
    BY <1>3 DEF StartBind
  <1>4. CASE StartListen
    BY <1>4 DEF StartListen, NetListen
  <1>5. CASE ServeAccept
    <2>1. Head(backlog) \in Clients /\ Tail(backlog) \in Seq(Clients)
      BY <1>5 DEF ServeAccept
    <2>2. CASE UNCHANGED <<netVars, conn>>
      BY <1>5, <2>2 DEF ServeAccept
    <2>3. CASE conn' = Head(backlog) /\ NetAccept(Head(backlog))
      <3>1. NetTypeOK'
        BY <2>1, <2>3 DEF NetAccept, SrvStates
      <3> QED  BY <1>5, <2>1, <2>3, <3>1 DEF ServeAccept
    <2> QED  BY <1>5, <2>2, <2>3 DEF ServeAccept
  <1>6. CASE ServeRecv
    <2>1. PICK n \in 1 .. RecvMax : NetRecv(conn, n) /\ buf' = Chunk(conn, rcvd[conn], n)
      BY <1>6 DEF ServeRecv
    <2>2. conn \in Clients
      BY <1>6 DEF ServeRecv, OneConnection, Serving
    <2>3. /\ sent[conn] \in 0 .. MsgLen /\ rcvd[conn] \in 0 .. MsgLen
          /\ n \in 1 .. (sent[conn] - rcvd[conn])
      BY <2>1, <2>2 DEF NetRecv
    <2>4. /\ rcvd[conn] \in Nat /\ n \in Nat /\ rcvd[conn] + n <= MsgLen /\ n <= RecvMax
          /\ rcvd[conn] + n \in 0 .. MsgLen
      BY <2>3, TcpAssumption, BlockingAssumption
    <2>5. buf' \in Seq(Byte) /\ Len(buf') <= RecvMax
      BY <2>1, <2>2, <2>4, ChunkType
    <2>6. NetTypeOK'
      BY <2>1, <2>2, <2>4 DEF NetRecv
    <2> QED  BY <1>6, <2>5, <2>6 DEF ServeRecv
  <1>7. CASE ServeRecvEof
    BY <1>7 DEF ServeRecvEof, NetRecvEof
  <1>8. CASE ServeRecvError
    BY <1>8 DEF ServeRecvError, NetRecvError, SrvStates
  <1>9. CASE ServeSend
    <2>1. conn \in Clients
      BY <1>9 DEF ServeSend, OneConnection, Serving
    <2>2. out[conn] \o buf \in Seq(Byte)
      BY <2>1
    <2>3. CASE NetSend(conn, buf)
      BY <1>9, <2>2, <2>3 DEF ServeSend, NetSend
    <2>4. CASE NetSendError(conn)
      BY <1>9, <2>4 DEF ServeSend, NetSendError, SrvStates
    <2>5. CASE UNCHANGED netVars
      BY <1>9, <2>5 DEF ServeSend
    <2> QED  BY <1>9, <2>3, <2>4, <2>5 DEF ServeSend
  <1>10. CASE ServeSigPipe
    BY <1>0, <1>10 DEF ServeSigPipe, NetServerGone, SrvStates
  <1>11. CASE CloseConn
    BY <1>11 DEF CloseConn, NetCloseServerEnd, SrvStates
  <1>12. CASE CloseListen
    BY <1>0, <1>12 DEF CloseListen, NetCloseListener, SrvStates
  <1>13. CASE Cleanup
    BY <1>0, <1>13 DEF Cleanup, NetServerGone, SrvStates
  <1> QED
    BY <1>1, <1>2, <1>3, <1>4, <1>5, <1>6, <1>7, <1>8, <1>9, <1>10, <1>11,
       <1>12, <1>13 DEF Server

\* A step of a client, or of the network, keeps the types.
LEMMA ClientType ==
  ASSUME TypeOK, NEW c \in Clients, Client(c) \/ IdleLeaves(c) \/ Network(c)
  PROVE  TypeOK'
  <1> USE DEF TypeOK, NetTypeOK, ClientGoto, netVars, serverVars, ClientPcs
  <1>1. CASE ClientSocket(c)
    BY <1>1 DEF ClientSocket
  <1>2. CASE ClientConnect(c)
    <2>1. CASE NetConnect(c)
      <3>1. NetTypeOK'
        <4>1. Append(backlog, c) \in Seq(Clients)
          OBVIOUS
        <4>2. cli' \in [Clients -> CliStates] /\ srv' \in [Clients -> SrvStates]
          BY <2>1 DEF NetConnect, CliStates, SrvStates
        <4> QED  BY <2>1, <4>1, <4>2 DEF NetConnect
      <3>2. cpc' \in [Clients -> ClientPcs] /\ UNCHANGED serverVars
        BY <1>2 DEF ClientConnect
      <3> QED  BY <3>1, <3>2
    <2>2. CASE NetConnectError
      BY <1>2, <2>2 DEF ClientConnect, NetConnectError
    <2> QED  BY <1>2, <2>1, <2>2 DEF ClientConnect
  <1>3. CASE ClientSend(c)
    BY <1>3, TcpAssumption DEF ClientSend, NetClientSend
  <1>4. CASE ClientRecv(c)
    <2>1. CASE NetClientRecvEnd(c)
      BY <1>4, <2>1 DEF ClientRecv, NetClientRecvEnd
    <2>2. ASSUME NEW n \in 1 .. MsgLen, NetClientRecv(c, n) PROVE TypeOK'
      BY <1>4, <2>2, TcpAssumption DEF ClientRecv, NetClientRecv
    <2> QED  BY <1>4, <2>1, <2>2 DEF ClientRecv
  <1>5. CASE ClientClose(c)
    BY <1>5 DEF ClientClose, NetClientClose, CliStates
  <1>6. CASE IdleLeaves(c)
    BY <1>6 DEF IdleLeaves
  <1>7. CASE Network(c)
    BY <1>7 DEF Network, NetRstArrives, SrvStates
  <1> QED  BY <1>1, <1>2, <1>3, <1>4, <1>5, <1>6, <1>7 DEF Client

-----------------------------------------------------------------------------
(* The one connection.                                                     *)

\* The server has one connection at most, and keeps in step with it.
LEMMA ServerConnection ==
  ASSUME TypeOK, OneConnection, InStep, OneClientServed, Server
  PROVE  (OneConnection /\ InStep /\ OneClientServed)'
  <1> USE BlockingAssumption
      DEF TypeOK, NetTypeOK, ServerGoto, netVars, OneConnection, InStep, OneClientServed,
          Before, Serving
  <1>1. CASE InitSockets
    BY <1>1 DEF InitSockets
  <1>2. CASE StartSocket
    BY <1>2 DEF StartSocket
  <1>3. CASE StartBind
    BY <1>3 DEF StartBind
  <1>4. CASE StartListen
    BY <1>4 DEF StartListen, NetListen
  <1>5. CASE ServeAccept
    <2>1. CASE UNCHANGED <<netVars, conn>> /\ spc' = "closeConn"
      BY <1>5, <2>1 DEF ServeAccept
    <2>2. CASE conn' = Head(backlog) /\ NetAccept(Head(backlog)) /\ spc' = "recv"
      <3>1. conn' \in Clients /\ Len(<<>>) = 0
        BY <1>5, <2>2 DEF ServeAccept
      <3> QED  BY <1>5, <2>2, <3>1 DEF ServeAccept, NetAccept
    <2> QED  BY <1>5, <2>1, <2>2 DEF ServeAccept
  <1>6. CASE ServeRecv
    <2>1. PICK n \in 1 .. RecvMax : NetRecv(conn, n) /\ buf' = Chunk(conn, rcvd[conn], n)
      BY <1>6 DEF ServeRecv
    <2>2. conn \in Clients
      BY <1>6 DEF ServeRecv
    <2>3. /\ sent[conn] \in 0 .. MsgLen /\ rcvd[conn] \in 0 .. MsgLen
          /\ n \in 1 .. (sent[conn] - rcvd[conn])
      BY <2>1, <2>2 DEF NetRecv
    <2>4. rcvd[conn] \in Nat /\ n \in Nat /\ rcvd[conn] + n <= MsgLen
      BY <2>3, TcpAssumption
    <2>5. Len(buf') = n /\ Len(out[conn]) \in Nat
      BY <2>1, <2>2, <2>4, ChunkType
    <2>6. rcvd'[conn] = rcvd[conn] + n
      BY <2>1, <2>2 DEF NetRecv
    <2>7. UNCHANGED <<conn, out, srv>> /\ spc = "recv" /\ spc' = "send"
      BY <1>6, <2>1 DEF ServeRecv, NetRecv
    <2>8. InStep'
      BY <2>2, <2>4, <2>5, <2>6, <2>7
    <2> QED  BY <2>2, <2>7, <2>8
  <1>7. CASE ServeRecvEof
    BY <1>7 DEF ServeRecvEof, NetRecvEof
  <1>8. CASE ServeRecvError
    BY <1>8 DEF ServeRecvError, NetRecvError
  <1>9. CASE ServeSend
    <2>1. conn \in Clients
      BY <1>9 DEF ServeSend
    <2>2. CASE NetSend(conn, buf)
      <3>1. Len(out[conn] \o buf) = Len(out[conn]) + Len(buf)
        BY <2>1
      <3>2. out' = [out EXCEPT ![conn] = @ \o buf] /\ spc = "send" /\ spc' = "recv"
        BY <1>9, <2>2 DEF ServeSend, NetSend
      <3>3. InStep'
        BY <1>9, <2>1, <2>2, <3>1, <3>2 DEF ServeSend, NetSend
      <3> QED  BY <1>9, <2>1, <2>2, <3>2, <3>3 DEF ServeSend, NetSend
    <2>3. CASE NetSendError(conn)
      BY <1>9, <2>1, <2>3 DEF ServeSend, NetSendError
    <2>4. CASE srv[conn] = "dead" /\ UNCHANGED netVars
      BY <1>9, <2>1, <2>4 DEF ServeSend
    <2> QED  BY <1>9, <2>2, <2>3, <2>4 DEF ServeSend
  <1>10. CASE ServeSigPipe
    BY <1>10 DEF ServeSigPipe, NetServerGone
  <1>11. CASE CloseConn
    BY <1>11 DEF CloseConn, NetCloseServerEnd
  <1>12. CASE CloseListen
    BY <1>12 DEF CloseListen, NetCloseListener
  <1>13. CASE Cleanup
    BY <1>13 DEF Cleanup, NetServerGone
  <1> QED
    BY <1>1, <1>2, <1>3, <1>4, <1>5, <1>6, <1>7, <1>8, <1>9, <1>10, <1>11,
       <1>12, <1>13 DEF Server

\* Clients and the network change nothing of that but that a connection may no
\* longer be open.
LEMMA ClientConnection ==
  ASSUME TypeOK, OneConnection, InStep, OneClientServed,
         NEW c \in Clients, Client(c) \/ IdleLeaves(c) \/ Network(c)
  PROVE  (OneConnection /\ InStep /\ OneClientServed)'
  <1>1. /\ UNCHANGED <<out, rcvd, serverVars>>
        /\ \A d \in Clients : srv'[d] = "open" => srv[d] = "open"
    BY DEF Client, ClientSocket, ClientConnect, ClientSend, ClientRecv, ClientClose,
           IdleLeaves, Network, NetConnect, NetConnectError, NetClientSend, NetClientRecv,
           NetClientRecvEnd, NetClientClose, NetRstArrives, ClientGoto, netVars, serverVars,
           TypeOK, NetTypeOK
  <1>2. conn \in Clients \cup {NoConn}
    BY DEF TypeOK
  <1> QED
    BY <1>1, <1>2 DEF OneConnection, InStep, OneClientServed, serverVars

-----------------------------------------------------------------------------
(* The bytes of the echo.                                                  *)

\* What was sent back is the beginning of what was received, and what is in hand
\* comes next.
OwnBytes ==
  /\ \A c \in Clients :
       /\ sent[c] \in {0, MsgLen}
       /\ rd[c] <= Len(out[c]) /\ Len(out[c]) <= rcvd[c] /\ rcvd[c] <= sent[c]
       /\ \A k \in 1 .. Len(out[c]) : out[c][k] = <<c, k>>
  /\ spc = "send" =>
       /\ Len(out[conn]) + Len(buf) <= rcvd[conn]
       /\ \A k \in 1 .. Len(buf) : buf[k] = <<conn, rcvd[conn] - Len(buf) + k>>

\* recv takes the bytes that follow those received before
\* (step02/server.cpp:73).
LEMMA RecvBytes ==
  ASSUME TypeOK, OneConnection, OwnBytes, ServeRecv
  PROVE  OwnBytes'
  <1> USE DEF TypeOK, NetTypeOK
  <1>1. PICK n \in 1 .. RecvMax : NetRecv(conn, n) /\ buf' = Chunk(conn, rcvd[conn], n)
    BY DEF ServeRecv
  <1>2. conn \in Clients /\ UNCHANGED <<conn, out, sent, rd>>
    BY <1>1 DEF ServeRecv, ServerGoto, OneConnection, Serving, NetRecv
  <1>3. /\ rcvd[conn] \in Nat /\ sent[conn] \in Nat /\ n \in Nat /\ n >= 1
        /\ rcvd[conn] + n <= sent[conn] /\ sent[conn] <= MsgLen
        /\ Len(out[conn]) \in Nat
    <2>1. /\ sent[conn] \in 0 .. MsgLen /\ rcvd[conn] \in 0 .. MsgLen
          /\ n \in 1 .. (sent[conn] - rcvd[conn])
      BY <1>1, <1>2 DEF NetRecv
    <2> QED  BY <1>2, <2>1, TcpAssumption
  <1>4. Len(buf') = n /\ \A k \in 1 .. n : buf'[k] = <<conn, rcvd[conn] + k>>
    BY <1>1, <1>2, <1>3 DEF Chunk
  <1>5. /\ rcvd'[conn] = rcvd[conn] + n
        /\ \A c \in Clients \ {conn} : rcvd'[c] = rcvd[c]
    BY <1>1, <1>2 DEF NetRecv
  <1>6. /\ sent[conn] \in {0, MsgLen}
        /\ rd[conn] <= Len(out[conn]) /\ Len(out[conn]) <= rcvd[conn]
        /\ \A k \in 1 .. Len(out[conn]) : out[conn][k] = <<conn, k>>
    BY <1>2 DEF OwnBytes
  <1>7. ASSUME NEW c \in Clients
        PROVE  /\ sent'[c] \in {0, MsgLen}
               /\ rd'[c] <= Len(out'[c]) /\ Len(out'[c]) <= rcvd'[c] /\ rcvd'[c] <= sent'[c]
               /\ \A k \in 1 .. Len(out'[c]) : out'[c][k] = <<c, k>>
    <2>1. CASE c = conn
      <3>1. Len(out[conn]) <= rcvd'[conn] /\ rcvd'[conn] <= sent[conn]
        BY <1>3, <1>5, <1>6
      <3> QED  BY <1>2, <1>6, <2>1, <3>1
    <2>2. CASE c # conn
      BY <1>2, <1>5, <2>2 DEF OwnBytes
    <2> QED  BY <2>1, <2>2
  <1>8. /\ Len(out'[conn']) + Len(buf') <= rcvd'[conn']
        /\ \A k \in 1 .. Len(buf') : buf'[k] = <<conn', rcvd'[conn'] - Len(buf') + k>>
    BY <1>2, <1>3, <1>4, <1>5, <1>6
  <1> QED  BY <1>7, <1>8 DEF OwnBytes

\* send appends what is in hand to what was sent, and nothing is between them
\* (step02/server.cpp:84).
LEMMA SendBytes ==
  ASSUME TypeOK, OneConnection, InStep, OwnBytes, ServeSend, NetSend(conn, buf)
  PROVE  OwnBytes'
  <1> USE DEF TypeOK, NetTypeOK
  <1>1. /\ conn \in Clients /\ srv[conn] = "open" /\ spc = "send" /\ spc' = "recv"
        /\ out' = [out EXCEPT ![conn] = @ \o buf] /\ UNCHANGED <<sent, rd, rcvd>>
    BY BlockingAssumption DEF ServeSend, ServerGoto, OneConnection, Serving, NetSend
  <1>2. /\ out[conn] \in Seq(Byte) /\ buf \in Seq(Byte)
        /\ Len(out[conn]) \in Nat /\ Len(buf) \in Nat
        /\ rcvd[conn] \in Nat /\ rd[conn] \in Nat
    BY <1>1, TcpAssumption
  <1>3. Len(out[conn]) + Len(buf) = rcvd[conn]
    BY <1>1, BlockingAssumption DEF InStep
  <1>4. \A k \in 1 .. Len(buf) : buf[k] = <<conn, Len(out[conn]) + k>>
    <2>1. rcvd[conn] - Len(buf) = Len(out[conn])
      BY <1>2, <1>3
    <2> QED  BY <1>1, <2>1 DEF OwnBytes
  <1>5. \A k \in 1 .. Len(out[conn]) : out[conn][k] = <<conn, k>>
    BY <1>1 DEF OwnBytes
  <1>6. /\ out'[conn] = out[conn] \o buf
        /\ \A c \in Clients \ {conn} : out'[c] = out[c]
    BY <1>1
  <1>7. /\ Len(out'[conn]) = rcvd[conn]
        /\ \A k \in 1 .. Len(out'[conn]) : out'[conn][k] = <<conn, k>>
    <2>1. Len(out'[conn]) = Len(out[conn]) + Len(buf)
      BY <1>2, <1>6
    <2>2. ASSUME NEW k \in 1 .. Len(out'[conn]) PROVE out'[conn][k] = <<conn, k>>
      <3>1. CASE k <= Len(out[conn])
        BY <1>2, <1>5, <1>6, <2>1, <2>2, <3>1
      <3>2. CASE k > Len(out[conn])
        <4>1. k - Len(out[conn]) \in 1 .. Len(buf) /\ k \in Nat
          BY <1>2, <2>1, <2>2, <3>2
        <4>2. out'[conn][k] = buf[k - Len(out[conn])]
          BY <1>2, <1>6, <2>1, <2>2, <3>2
        <4>3. buf[k - Len(out[conn])] = <<conn, Len(out[conn]) + (k - Len(out[conn]))>>
          BY <1>4, <4>1
        <4> QED  BY <1>2, <4>1, <4>2, <4>3
      <3> QED  BY <1>2, <3>1, <3>2
    <2> QED  BY <1>3, <2>1, <2>2
  <1>8. ASSUME NEW c \in Clients
        PROVE  /\ sent'[c] \in {0, MsgLen}
               /\ rd'[c] <= Len(out'[c]) /\ Len(out'[c]) <= rcvd'[c] /\ rcvd'[c] <= sent'[c]
               /\ \A k \in 1 .. Len(out'[c]) : out'[c][k] = <<c, k>>
    <2>1. rd[c] <= Len(out[c]) /\ Len(out[c]) <= rcvd[c]
      BY DEF OwnBytes
    <2>2. CASE c = conn
      <3>1. sent[conn] \in {0, MsgLen} /\ rcvd[conn] <= sent[conn] /\ rd[conn] <= rcvd[conn]
        BY <1>1, <1>2, <2>1, <2>2 DEF OwnBytes
      <3>2. Len(out'[conn]) <= rcvd[conn]
        BY <1>2, <1>7
      <3>3. rd[conn] <= Len(out'[conn])
        BY <1>7, <3>1
      <3> QED  BY <1>1, <1>7, <2>2, <3>1, <3>2, <3>3
    <2>3. CASE c # conn
      BY <1>1, <1>6, <2>3 DEF OwnBytes
    <2> QED  BY <2>2, <2>3
  <1> QED  BY <1>1, <1>8 DEF OwnBytes

\* No other step of the server moves a byte.
LEMMA ServerBytes ==
  ASSUME TypeOK, OneConnection, InStep, OwnBytes, Server
  PROVE  OwnBytes'
  <1>1. CASE ServeRecv
    BY <1>1, RecvBytes
  <1>2. CASE ServeSend /\ NetSend(conn, buf)
    BY <1>2, SendBytes
  <1>3. CASE ~ServeRecv /\ ~(ServeSend /\ NetSend(conn, buf))
    <2>1. UNCHANGED <<sent, rcvd, out, rd>> /\ spc' # "send"
      BY <1>3 DEF Server, InitSockets, StartSocket, StartBind, StartListen, ServeAccept,
           ServeRecvEof, ServeRecvError, ServeSend, ServeSigPipe, CloseConn, CloseListen,
           Cleanup, ServerGoto, NetListen, NetAccept, NetRecvEof, NetRecvError, NetSendError,
           NetCloseServerEnd, NetCloseListener, NetServerGone, netVars
    <2> QED  BY <2>1 DEF OwnBytes
  <1> QED  BY <1>1, <1>2, <1>3

\* A client says all of its message or none of it, and reads what was sent to it.
LEMMA ClientSays ==
  ASSUME TypeOK, OwnBytes, NEW c \in Clients, Client(c) \/ IdleLeaves(c) \/ Network(c)
  PROVE  /\ UNCHANGED <<out, rcvd, serverVars>>
         /\ \/ UNCHANGED <<sent, rd>>
            \/ rd' = rd /\ sent[c] = 0 /\ sent' = [sent EXCEPT ![c] = MsgLen]
            \/ /\ sent' = sent
               /\ \E n \in Nat \ {0} : /\ rd[c] + n <= Len(out[c])
                                       /\ rd' = [rd EXCEPT ![c] = @ + n]
  <1>1. UNCHANGED <<out, rcvd, serverVars>>
    BY DEF Client, ClientSocket, ClientConnect, ClientSend, ClientRecv, ClientClose,
           IdleLeaves, Network, NetConnect, NetConnectError, NetClientSend, NetClientRecv,
           NetClientRecvEnd, NetClientClose, NetRstArrives, ClientGoto, netVars
  <1>2. CASE ClientSend(c)
    <2>1. sent' = [sent EXCEPT ![c] = IF srv[c] = "closed" THEN @ ELSE MsgLen] /\ rd' = rd
      BY <1>2 DEF ClientSend, NetClientSend
    <2>2. sent[c] \in {0, MsgLen} /\ sent \in [Clients -> 0 .. MsgLen]
      BY DEF OwnBytes, TypeOK, NetTypeOK
    <2>3. CASE sent[c] = 0
      <3>1. sent' = sent \/ sent' = [sent EXCEPT ![c] = MsgLen]
        BY <2>1, <2>2
      <3> QED  BY <1>1, <2>1, <2>3, <3>1
    <2>4. CASE sent[c] = MsgLen
      BY <1>1, <2>1, <2>2, <2>4
    <2> QED  BY <2>2, <2>3, <2>4
  <1>3. CASE ClientRecv(c)
    <2>1. CASE NetClientRecvEnd(c)
      BY <1>1, <2>1 DEF NetClientRecvEnd, netVars
    <2>2. ASSUME NEW n \in 1 .. MsgLen, NetClientRecv(c, n)
          PROVE  /\ sent' = sent /\ n \in Nat \ {0}
                 /\ rd[c] + n <= Len(out[c]) /\ rd' = [rd EXCEPT ![c] = @ + n]
      <3>1. rd[c] \in Nat /\ Len(out[c]) \in Nat /\ n \in 1 .. (Len(out[c]) - rd[c])
        BY <2>2 DEF NetClientRecv, TypeOK, NetTypeOK
      <3> QED  BY <2>2, <3>1 DEF NetClientRecv
    <2> QED  BY <1>1, <1>3, <2>1, <2>2 DEF ClientRecv
  <1>4. CASE ~ClientSend(c) /\ ~ClientRecv(c)
    BY <1>1, <1>4 DEF Client, ClientSocket, ClientConnect, ClientClose, IdleLeaves, Network,
           NetConnect, NetConnectError, NetClientClose, NetRstArrives, netVars
  <1> QED  BY <1>2, <1>3, <1>4

\* So it stays behind the server, and the server behind it.
LEMMA ClientBytes ==
  ASSUME TypeOK, OwnBytes, NEW c \in Clients, Client(c) \/ IdleLeaves(c) \/ Network(c)
  PROVE  OwnBytes'
  <1>1. /\ UNCHANGED <<out, rcvd, conn, buf, spc>>
        /\ \/ UNCHANGED <<sent, rd>>
           \/ rd' = rd /\ sent[c] = 0 /\ sent' = [sent EXCEPT ![c] = MsgLen]
           \/ /\ sent' = sent
              /\ \E n \in Nat \ {0} : /\ rd[c] + n <= Len(out[c])
                                      /\ rd' = [rd EXCEPT ![c] = @ + n]
    BY ClientSays DEF serverVars
  <1>2. /\ sent \in [Clients -> 0 .. MsgLen] /\ rd \in [Clients -> Nat]
        /\ \A d \in Clients : rcvd[d] \in 0 .. MsgLen
    BY DEF TypeOK, NetTypeOK
  <1>3. ASSUME NEW d \in Clients
        PROVE  /\ sent'[d] \in {0, MsgLen} /\ rd'[d] <= Len(out[d]) /\ rcvd[d] <= sent'[d]
    <2>1. /\ sent[d] \in {0, MsgLen} /\ rd[d] <= Len(out[d]) /\ rcvd[d] <= sent[d]
          /\ rcvd[d] <= MsgLen
      BY <1>2, TcpAssumption DEF OwnBytes
    <2>2. CASE d = c
      BY <1>1, <1>2, <2>1, <2>2
    <2>3. CASE d # c
      BY <1>1, <1>2, <2>1, <2>3
    <2> QED  BY <2>2, <2>3
  <1> QED  BY <1>1, <1>3 DEF OwnBytes

-----------------------------------------------------------------------------
(* The order of the destructors.                                           *)

\* closeAll comes before WSACleanup on every way out of main.
LEMMA ServerClosed == TypeOK /\ Closed /\ Server => Closed'
  <1> SUFFICES ASSUME TypeOK, Closed, Server PROVE Closed'
    OBVIOUS
  <1> QED
    BY DEF Closed, Server, InitSockets, StartSocket, StartBind, StartListen, ServeAccept,
           ServeRecv, ServeRecvEof, ServeRecvError, ServeSend, ServeSigPipe, CloseConn,
           CloseListen, Cleanup, ServerGoto, TypeOK

-----------------------------------------------------------------------------
(* The refinement.                                                         *)

\* What a client has read is the beginning of its message.
LEMMA ReadsMessage ==
  TypeOK /\ OwnBytes =>
    \A c \in Clients :
      /\ sent[c] \in {0, MsgLen} /\ rd[c] \in Nat /\ rd[c] <= sent[c]
      /\ Len(Got(c)) = rd[c] /\ Got(c) = SubSeq(Echo!Message(c), 1, rd[c])
  <1> SUFFICES ASSUME TypeOK, OwnBytes, NEW c \in Clients
               PROVE  /\ sent[c] \in {0, MsgLen} /\ rd[c] \in Nat /\ rd[c] <= sent[c]
                      /\ Len(Got(c)) = rd[c] /\ Got(c) = SubSeq(Echo!Message(c), 1, rd[c])
    OBVIOUS
  <1>1. /\ out[c] \in Seq(Byte) /\ Len(out[c]) \in Nat /\ rd[c] \in Nat
        /\ rcvd[c] \in Nat /\ MsgLen \in Nat
    BY TcpAssumption DEF TypeOK, NetTypeOK
  <1>2. /\ sent[c] \in {0, MsgLen} /\ rd[c] <= Len(out[c]) /\ Len(out[c]) <= rcvd[c]
        /\ rcvd[c] <= sent[c] /\ \A k \in 1 .. Len(out[c]) : out[c][k] = <<c, k>>
    BY DEF OwnBytes
  <1>3. rd[c] <= sent[c] /\ rd[c] <= MsgLen
    BY <1>1, <1>2
  <1>4. Echo!Message(c) = [k \in 1 .. MsgLen |-> <<c, k>>]
    BY DEF Echo!Message
  <1>5. Echo!Message(c) \in Seq(Byte) /\ Len(Echo!Message(c)) = MsgLen
    <2>1. \A k \in 1 .. MsgLen : <<c, k>> \in Byte
      BY DEF Byte
    <2> QED  BY <1>1, <1>4, <2>1
  <1>6. /\ Len(SubSeq(out[c], 1, rd[c])) = rd[c]
        /\ SubSeq(out[c], 1, rd[c]) \in Seq(Byte)
        /\ \A k \in 1 .. rd[c] : SubSeq(out[c], 1, rd[c])[k] = out[c][k]
    BY <1>1, <1>2
  <1>7. /\ Len(SubSeq(Echo!Message(c), 1, rd[c])) = rd[c]
        /\ SubSeq(Echo!Message(c), 1, rd[c]) \in Seq(Byte)
        /\ \A k \in 1 .. rd[c] : SubSeq(Echo!Message(c), 1, rd[c])[k] = Echo!Message(c)[k]
    BY <1>1, <1>3, <1>5
  <1>8. \A k \in 1 .. rd[c] : out[c][k] = Echo!Message(c)[k]
    <2>1. \A k \in 1 .. rd[c] : k \in 1 .. Len(out[c]) /\ k \in 1 .. MsgLen
      BY <1>1, <1>2, <1>3
    <2> QED  BY <1>2, <1>4, <2>1
  <1>9. SubSeq(out[c], 1, rd[c]) = SubSeq(Echo!Message(c), 1, rd[c])
    BY <1>1, <1>6, <1>7, <1>8, SeqEqual
  <1> QED  BY <1>1, <1>2, <1>3, <1>6, <1>9 DEF Got

\* Only a client's send changes what was said, and only its recv what it has
\* read (step02/client.cpp).
LEMMA SaidAndRead ==
  ASSUME TypeOK, OwnBytes, [Next]_vars
  PROVE  \/ UNCHANGED <<sent, rd>>
         \/ /\ rd' = rd
            /\ \E c \in Clients : sent[c] = 0 /\ sent' = [sent EXCEPT ![c] = MsgLen]
         \/ /\ sent' = sent
            /\ \E c \in Clients, n \in Nat \ {0} : rd' = [rd EXCEPT ![c] = @ + n]
  <1>1. CASE UNCHANGED vars
    BY <1>1 DEF vars, netVars
  <1>2. CASE Server
    BY <1>2 DEF Server, InitSockets, StartSocket, StartBind, StartListen, ServeAccept,
         ServeRecv, ServeRecvEof, ServeRecvError, ServeSend, ServeSigPipe, CloseConn,
         CloseListen, Cleanup, NetListen, NetAccept, NetRecv, NetRecvEof, NetRecvError,
         NetSend, NetSendError, NetCloseServerEnd, NetCloseListener, NetServerGone, netVars
  <1>3. ASSUME NEW c \in Clients, Client(c) \/ IdleLeaves(c) \/ Network(c)
        PROVE  \/ UNCHANGED <<sent, rd>>
               \/ rd' = rd /\ sent[c] = 0 /\ sent' = [sent EXCEPT ![c] = MsgLen]
               \/ sent' = sent /\ \E n \in Nat \ {0} : rd' = [rd EXCEPT ![c] = @ + n]
    BY <1>3, ClientSays
  <1> QED  BY <1>1, <1>2, <1>3 DEF Next

-----------------------------------------------------------------------------
(* The theorems.                                                           *)

\* The inductive invariant, with the properties it is there for.
Inv == TypeOK /\ OneConnection /\ InStep /\ OneClientServed /\ OwnBytes /\ Closed

\* All of it holds when the processes start.
LEMMA InitInv == Init => Inv
  <1> SUFFICES ASSUME Init PROVE Inv
    OBVIOUS
  <1>1. TypeOK
    BY InitTypeOK
  <1>2. OneConnection /\ InStep /\ OneClientServed /\ Closed
    BY DEF Init, NetInit, OneConnection, InStep, OneClientServed, Closed, Before, Serving
  <1>3. OwnBytes
    BY DEF Init, NetInit, OwnBytes
  <1> QED  BY <1>1, <1>2, <1>3 DEF Inv

\* Every step keeps all of it.
LEMMA StepInv == Inv /\ [Next]_vars => Inv'
  <1> SUFFICES ASSUME Inv, [Next]_vars PROVE Inv'
    OBVIOUS
  <1>1. CASE Server
    <2>1. TypeOK'
      BY <1>1, ServerType DEF Inv
    <2>2. (OneConnection /\ InStep /\ OneClientServed)'
      BY <1>1, ServerConnection DEF Inv
    <2>3. Closed'
      BY <1>1, ServerClosed DEF Inv
    <2>4. OwnBytes'
      BY <1>1, ServerBytes DEF Inv
    <2> QED  BY <2>1, <2>2, <2>3, <2>4 DEF Inv
  <1>2. ASSUME NEW c \in Clients, Client(c) \/ IdleLeaves(c) \/ Network(c) PROVE Inv'
    <2>1. TypeOK'
      BY <1>2, ClientType DEF Inv
    <2>2. (OneConnection /\ InStep /\ OneClientServed)'
      BY <1>2, ClientConnection DEF Inv
    <2>3. UNCHANGED serverVars
      BY <1>2 DEF Client, ClientSocket, ClientConnect, ClientSend, ClientRecv, ClientClose,
                  IdleLeaves, Network, ClientGoto
    <2>4. Closed'
      BY <2>3 DEF Inv, Closed, serverVars
    <2>5. OwnBytes'
      BY <1>2, ClientBytes DEF Inv
    <2> QED  BY <2>1, <2>2, <2>4, <2>5 DEF Inv
  <1>3. CASE UNCHANGED vars
    <2> USE <1>3 DEF Inv, vars, netVars, serverVars
    <2>1. (TypeOK /\ OneConnection)'
      BY DEF TypeOK, NetTypeOK, OneConnection
    <2>2. (InStep /\ OneClientServed /\ Closed)'
      BY DEF InStep, OneClientServed, Closed
    <2>3. OwnBytes'
      BY DEF OwnBytes
    <2> QED  BY <2>1, <2>2, <2>3
  <1> QED  BY <1>1, <1>2, <1>3 DEF Next

\* The invariant the theorems rest on.
LEMMA AlwaysInv == Spec => []Inv
  BY InitInv, StepInv, PTL DEF Spec

\* However messages are cut and whoever leaves when, the bytes of the server's
\* one connection are sent back in step, and nobody else gets any
\* (step02/server.cpp:60-85).
THEOREM OneClientCorrect == Spec => []OneClientInStep
  <1>1. Inv => OneClientInStep
    BY DEF Inv, OneClientInStep
  <1> QED  BY <1>1, AlwaysInv, PTL

\* On every way out of main, in both builds, the server's sockets are closed
\* before Winsock is shut down (step02/server.cpp:89-118).
THEOREM SocketsClosedFirst == Spec => []SocketsBeforeWinsock
  <1>1. Inv => SocketsBeforeWinsock
    BY DEF Inv, Closed, OneConnection, SocketsBeforeWinsock, Serving
  <1> QED  BY <1>1, AlwaysInv, PTL

\* The server that serves one client and ends keeps the promise of an echo
\* server, too: every client, the one it serves and those in the queue, hears a
\* growing beginning of its own message, and nothing else ("原样回显",
\* step02/server.cpp:84).
THEOREM Refinement == Spec => Echo!Spec
  <1> DEFINE said == {c \in Clients : sent[c] > 0}
  <1> DEFINE heard == [c \in Clients |-> Got(c)]
  <1>1. Init => Echo!Init
    <2> SUFFICES ASSUME Init PROVE Echo!Init
      OBVIOUS
    <2>1. said = {}
      BY DEF Init, NetInit
    <2>2. \A c \in Clients : Got(c) = <<>>
      <3>1. SubSeq(<<>>, 1, 0) = <<>>
        BY SubSeqEmpty
      <3> QED  BY <3>1 DEF Init, NetInit, Got
    <2> QED  BY <2>1, <2>2 DEF Echo!Init
  <1>2. (TypeOK /\ OwnBytes =>
          \A c \in Clients :
            /\ sent[c] \in {0, MsgLen} /\ rd[c] \in Nat /\ rd[c] <= sent[c]
            /\ Len(Got(c)) = rd[c] /\ Got(c) = SubSeq(Echo!Message(c), 1, rd[c]))'
    BY ReadsMessage, PTL
  <1>3. Inv /\ Inv' /\ [Next]_vars => [Echo!Next]_<<said, heard>>
    <2> SUFFICES ASSUME Inv, Inv', [Next]_vars
                 PROVE  Echo!Next \/ (said' = said /\ heard' = heard)
      OBVIOUS
    <2>1. /\ TypeOK /\ OwnBytes /\ MsgLen \in Nat /\ MsgLen > 0
          /\ rd \in [Clients -> Nat] /\ sent \in [Clients -> 0 .. MsgLen]
      <3>1. TypeOK /\ OwnBytes
        BY DEF Inv
      <3>2. MsgLen \in Nat /\ MsgLen > 0
        BY TcpAssumption
      <3>3. rd \in [Clients -> Nat] /\ sent \in [Clients -> 0 .. MsgLen]
        BY <3>1 DEF TypeOK, NetTypeOK
      <3> QED  BY <3>1, <3>2, <3>3
    <2>2. \A c \in Clients :
            /\ sent[c] \in {0, MsgLen} /\ rd[c] \in Nat /\ rd[c] <= sent[c]
            /\ Len(Got(c)) = rd[c] /\ Got(c) = SubSeq(Echo!Message(c), 1, rd[c])
      BY <2>1, ReadsMessage
    <2>3. \A c \in Clients :
            /\ sent'[c] \in {0, MsgLen} /\ rd'[c] \in Nat /\ rd'[c] <= sent'[c]
            /\ Got(c)' = SubSeq(Echo!Message(c), 1, rd'[c])
      BY <1>2 DEF Inv
    <2>4. CASE UNCHANGED <<sent, rd>>
      BY <2>2, <2>3, <2>4
    <2>5. ASSUME NEW c \in Clients, rd' = rd,
                 sent[c] = 0, sent' = [sent EXCEPT ![c] = MsgLen]
          PROVE  Echo!Say(c)
      <3>1. sent'[c] > 0 /\ \A d \in Clients \ {c} : sent'[d] = sent[d]
        BY <2>1, <2>5
      <3>2. c \notin said /\ said' = said \cup {c}
        BY <2>5, <3>1
      <3>3. heard' = heard
        BY <2>2, <2>3, <2>5
      <3> QED  BY <3>2, <3>3 DEF Echo!Say
    <2>6. ASSUME NEW c \in Clients, NEW n \in Nat \ {0},
                 sent' = sent, rd' = [rd EXCEPT ![c] = @ + n]
          PROVE  Echo!Hear(c)
      <3>1. rd'[c] = rd[c] + n /\ \A d \in Clients \ {c} : rd'[d] = rd[d]
        BY <2>1, <2>6
      <3>2. sent[c] = MsgLen /\ rd'[c] <= MsgLen
        BY <2>1, <2>2, <2>3, <2>6, <3>1
      <3>3. c \in said /\ said' = said
        BY <2>1, <2>6, <3>2
      <3>4. heard' = [heard EXCEPT ![c] = SubSeq(Echo!Message(c), 1, rd'[c])]
        BY <2>2, <2>3, <3>1
      <3>5. rd'[c] \in (Len(heard[c]) + 1) .. MsgLen
        BY <2>1, <2>2, <3>1, <3>2
      <3> QED  BY <3>3, <3>4, <3>5 DEF Echo!Hear
    <2> QED
      BY <2>1, <2>4, <2>5, <2>6, SaidAndRead DEF Echo!Next
  <1> QED
    BY <1>1, <1>3, AlwaysInv, PTL DEF Spec, Echo!Spec

=============================================================================
