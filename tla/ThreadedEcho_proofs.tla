------------------------ MODULE ThreadedEcho_proofs -------------------------
(***************************************************************************)
(* Proofs about ThreadedEcho, for any clients, descriptors, message length *)
(* and thread limit.                                                       *)
(***************************************************************************)
EXTENDS ThreadedEcho, SequenceTheorems, TLAPS

-----------------------------------------------------------------------------
(* Types.                                                                  *)

\* The bytes a recv puts in the buffer (server.cpp:27) are bytes of the
\* sender, as many as recv returned.
LEMMA ChunkType ==
  ASSUME NEW c \in Clients, NEW k \in Nat, NEW n \in Nat, k + n <= MsgLen
  PROVE  /\ Chunk(c, k, n) \in Seq(Byte)
         /\ Len(Chunk(c, k, n)) = n
  <1>1. \A i \in 1 .. n : <<c, k + i>> \in Byte
    BY TcpAssumption DEF Byte
  <1> QED  BY <1>1 DEF Chunk

\* ThreadedEcho starts with every variable in its type.
LEMMA InitTypeOK == Init => TypeOK
  <1> SUFFICES ASSUME Init PROVE TypeOK
    OBVIOUS
  <1>1. NetTypeOK
    <2>1. <<>> \in Seq(Clients) /\ <<>> \in Seq(Byte)
      OBVIOUS
    <2>2. NetInit
      BY DEF Init
    <2>3. /\ listening \in BOOLEAN
          /\ backlog \in Seq(Clients)
          /\ rst \in [Clients -> BOOLEAN]
      BY <2>1, <2>2 DEF NetInit
    <2>4. /\ cli \in [Clients -> CliStates]
          /\ srv \in [Clients -> SrvStates]
      BY <2>2 DEF NetInit, CliStates, SrvStates
    <2>5. /\ sent \in [Clients -> 0 .. MsgLen]
          /\ rcvd \in [Clients -> 0 .. MsgLen]
          /\ rd \in [Clients -> Nat]
      BY <2>2, TcpAssumption DEF NetInit
    <2>6. out \in [Clients -> Seq(Byte)]
      BY <2>1, <2>2 DEF NetInit
    <2> QED  BY <2>3, <2>4, <2>5, <2>6 DEF NetTypeOK
  <1>2. ClientsTypeOK
    BY DEF Init, ClientsInit, ClientsTypeOK, ClientPcs
  <1>3. buf \in [Clients -> Seq(Byte)] /\ \A t \in Clients : Len(buf[t]) <= RecvMax
    <2>1. <<>> \in Seq(Byte) /\ Len(<<>>) = 0 /\ 0 <= RecvMax
      BY ServerAssumption
    <2> QED  BY <2>1 DEF Init
  <1> QED
    BY <1>1, <1>2, <1>3 DEF Init, TypeOK, MainPcs, ThreadPcs

\* Closing a descriptor (Platform.h, closeSocket) keeps the kernel's types.
LEMMA CloseType ==
  ASSUME TypeOK, NEW f \in Fds, CloseSocket(f)
  PROVE  NetTypeOK' /\ fdTable' \in [Fds -> Clients \cup {Free, Listener}]
  <1>1. CASE fdTable[f] \in Clients
    BY <1>1 DEF TypeOK, NetTypeOK, CloseSocket, NetCloseServerEnd, SrvStates
  <1>2. CASE fdTable[f] \notin Clients
    BY <1>2 DEF TypeOK, NetTypeOK, CloseSocket, netVars
  <1> QED  BY <1>1, <1>2

\* The end of the process keeps all types.
LEMMA EndType ==
  ASSUME TypeOK, NEW how \in {"exited", "dead"}, ProcessEnds(how),
         UNCHANGED clientVars
  PROVE  TypeOK'
  <1>1. NetTypeOK'
    <2>1. <<>> \in Seq(Clients)
      OBVIOUS
    <2> QED
      BY <2>1 DEF TypeOK, NetTypeOK, ProcessEnds, NetServerGone, SrvStates
  <1>2. ClientsTypeOK'
    BY DEF TypeOK, ClientsTypeOK, clientVars
  <1> QED
    BY <1>1, <1>2 DEF TypeOK, ProcessEnds, MainPcs, ThreadPcs

\* A step of a client keeps the types of both sides.
LEMMA ClientType ==
  ASSUME TypeOK, ClientsNext, UNCHANGED serverVars
  PROVE  TypeOK'
  <1>0. SUFFICES NetTypeOK' /\ ClientsTypeOK'
    BY DEF TypeOK, serverVars, Byte
  <1> USE DEF TypeOK, NetTypeOK, ClientsTypeOK, netVars, ClientPcs, ClientGoto
  <1>1. ASSUME NEW c \in Clients, SpawnClient(c) PROVE NetTypeOK' /\ ClientsTypeOK'
    BY <1>1 DEF SpawnClient
  <1>2. CASE StartJoin
    BY <1>2 DEF StartJoin
  <1>3. CASE AllClientsDone
    BY <1>3 DEF AllClientsDone
  <1>4. ASSUME NEW c \in Clients, ClientSocket(c) PROVE NetTypeOK' /\ ClientsTypeOK'
    BY <1>4 DEF ClientSocket
  <1>5. ASSUME NEW c \in Clients, ClientConnect(c) PROVE NetTypeOK' /\ ClientsTypeOK'
    BY <1>5 DEF ClientConnect, NetConnect, CliStates, SrvStates
  <1>6. ASSUME NEW c \in Clients, ClientConnectFails(c)
        PROVE  NetTypeOK' /\ ClientsTypeOK'
    BY <1>6 DEF ClientConnectFails, NetConnectError
  <1>7. ASSUME NEW c \in Clients, ClientSend(c) PROVE NetTypeOK' /\ ClientsTypeOK'
    BY <1>7, TcpAssumption DEF ClientSend, NetClientSend
  <1>8. ASSUME NEW c \in Clients, ClientRecv(c) PROVE NetTypeOK' /\ ClientsTypeOK'
    <2>1. CASE NetClientRecvEnd(c)
      BY <1>8, <2>1 DEF ClientRecv, NetClientRecvEnd
    <2>2. ASSUME NEW n \in 1 .. MsgLen, NetClientRecv(c, n)
          PROVE  NetTypeOK' /\ ClientsTypeOK'
      BY <1>8, <2>2, TcpAssumption DEF ClientRecv, NetClientRecv
    <2> QED  BY <1>8, <2>1, <2>2 DEF ClientRecv
  <1>9. ASSUME NEW c \in Clients, ClientClose(c) PROVE NetTypeOK' /\ ClientsTypeOK'
    BY <1>9 DEF ClientClose, NetClientClose, CliStates
  <1>10. ASSUME NEW c \in Clients, IdleLeaves(c) PROVE NetTypeOK' /\ ClientsTypeOK'
    BY <1>10 DEF IdleLeaves
  <1> QED
    BY <1>1, <1>2, <1>3, <1>4, <1>5, <1>6, <1>7, <1>8, <1>9, <1>10
    DEF ClientsNext, ClientMain, ClientThread

\* A step of main keeps the types.
LEMMA MainType ==
  ASSUME TypeOK, Main
  PROVE  TypeOK'
  <1> USE DEF MainPcs, ThreadPcs
  <1>1. CASE MainSocket
    <2>1. CASE ProcessEnds("exited")
      BY <2>1, <1>1, EndType DEF MainSocket
    <2>2. CASE ~ProcessEnds("exited")
      BY <2>2, <1>1 DEF MainSocket, TypeOK, NetTypeOK, ClientsTypeOK, netVars,
                    clientVars
    <2> QED  BY <2>1, <2>2
  <1>2. CASE MainBind
    <2>1. CASE ProcessEnds("exited")
      BY <2>1, <1>2, EndType DEF MainBind
    <2>2. CASE ~ProcessEnds("exited")
      BY <2>2, <1>2 DEF MainBind, TypeOK, NetTypeOK, ClientsTypeOK, netVars,
                    clientVars
    <2> QED  BY <2>1, <2>2
  <1>3. CASE MainListen
    <2>1. CASE ProcessEnds("exited")
      BY <2>1, <1>3, EndType DEF MainListen
    <2>2. CASE ~ProcessEnds("exited")
      BY <2>2, <1>3 DEF MainListen, NetListen, TypeOK, NetTypeOK,
                    ClientsTypeOK, clientVars
    <2> QED  BY <2>1, <2>2
  <1>4. CASE MainAccept
    BY <1>4 DEF MainAccept, NetAccept, IsLowestFree, TypeOK, NetTypeOK,
            ClientsTypeOK, clientVars, SrvStates
  <1>5. CASE MainAcceptFails \/ MainRetry
    BY <1>5 DEF MainAcceptFails, MainRetry, TypeOK, NetTypeOK, ClientsTypeOK,
            netVars, clientVars
  <1>6. CASE SpawnThreadThrows
    BY <1>6, EndType DEF SpawnThreadThrows
  <1>7. ASSUME NEW t \in Clients, SpawnThread(t) PROVE TypeOK'
    BY <1>7 DEF SpawnThread, TypeOK, NetTypeOK, ClientsTypeOK, netVars,
            clientVars
  <1> QED  BY <1>1, <1>2, <1>3, <1>4, <1>5, <1>6, <1>7 DEF Main

\* A step of a thread keeps the types.
LEMMA ThreadType ==
  ASSUME TypeOK, NEW t \in Clients, Thread(t)
  PROVE  TypeOK'
  <1> USE DEF ThreadPcs, ThreadGoto
  <1>0. fdTable[tfd[t]] \in Clients => tfd[t] \in Fds \/ tfd[t] = NoFd
    BY DEF TypeOK
  <1>1. CASE ThreadRecv(t)
    <2> DEFINE p == Peer(t)
    <2>1. PICK n \in 1 .. RecvMax :
            /\ NetRecv(p, n)
            /\ buf' = [buf EXCEPT ![t] = Chunk(p, rcvd[p], n)]
      BY <1>1 DEF ThreadRecv
    <2>2. p \in Clients
      BY <1>1 DEF ThreadRecv
    <2> HIDE DEF p
    <2>3. /\ sent[p] \in 0 .. MsgLen /\ rcvd[p] \in 0 .. MsgLen
          /\ n \in 1 .. (sent[p] - rcvd[p])
      BY <2>2, <2>1 DEF NetRecv, TypeOK, NetTypeOK
    <2>4. /\ p \in Clients
          /\ rcvd[p] \in Nat /\ n \in Nat /\ rcvd[p] + n <= MsgLen
          /\ rcvd[p] + n \in 0 .. MsgLen
      BY <2>2, <2>3, TcpAssumption, ServerAssumption
    <2>5. Chunk(p, rcvd[p], n) \in Seq(Byte) /\ Len(Chunk(p, rcvd[p], n)) = n
      BY <2>4, ChunkType
    <2>6. NetTypeOK'
      BY <2>1, <2>4 DEF NetRecv, TypeOK, NetTypeOK
    <2>7. buf' \in [Clients -> Seq(Byte)] /\ \A u \in Clients : Len(buf'[u]) <= RecvMax
      BY <2>1, <2>5 DEF TypeOK
    <2> QED
      BY <1>1, <2>6, <2>7 DEF ThreadRecv, TypeOK, ClientsTypeOK, clientVars
  <1>2. CASE ThreadRecvEof(t)
    BY <1>2 DEF ThreadRecvEof, NetRecvEof, netVars, clientVars, TypeOK,
            NetTypeOK, ClientsTypeOK
  <1>3. CASE ThreadRecvError(t)
    <2>1. NetTypeOK'
      BY <1>3 DEF ThreadRecvError, NetRecvError, netVars, TypeOK, NetTypeOK,
              SrvStates
    <2> QED
      BY <1>3, <2>1 DEF ThreadRecvError, clientVars, TypeOK, ClientsTypeOK
  <1>4. CASE ThreadSend(t)
    <2>1. out[Peer(t)] \o buf[t] \in Seq(Byte)
      BY <1>4 DEF ThreadSend, TypeOK, NetTypeOK
    <2>2. NetTypeOK'
      BY <1>4, <2>1 DEF ThreadSend, NetSend, TypeOK, NetTypeOK
    <2> QED
      BY <1>4, <2>2 DEF ThreadSend, clientVars, TypeOK, ClientsTypeOK
  <1>5. CASE ThreadSendError(t)
    <2>1. NetTypeOK'
      BY <1>5 DEF ThreadSendError, NetSendError, netVars, TypeOK, NetTypeOK,
              SrvStates
    <2> QED
      BY <1>5, <2>1 DEF ThreadSendError, clientVars, TypeOK, ClientsTypeOK
  <1>6. CASE ThreadSigPipe(t)
    BY <1>6, EndType DEF ThreadSigPipe
  <1>7. CASE ThreadClose(t)
    <2>1. CASE tfd[t] \in Fds
      BY <1>7, <2>1, CloseType DEF ThreadClose, clientVars, TypeOK, ClientsTypeOK
    <2>2. CASE tfd[t] \notin Fds
      <3>1. fdTable' = fdTable
        BY <1>7, <2>2 DEF ThreadClose, CloseSocket, TypeOK
      <3>2. NetTypeOK'
        BY <1>7 DEF ThreadClose, CloseSocket, NetCloseServerEnd, netVars,
                TypeOK, NetTypeOK, SrvStates
      <3> QED  BY <1>7, <3>1, <3>2 DEF ThreadClose, clientVars, TypeOK, ClientsTypeOK
    <2> QED  BY <2>1, <2>2
  <1> QED
    BY <1>1, <1>2, <1>3, <1>4, <1>5, <1>6, <1>7 DEF Thread

\* The RST of a client (Tcp) keeps the types.
LEMMA NetworkType ==
  ASSUME TypeOK, NEW c \in Clients, Network(c)
  PROVE  TypeOK'
  BY DEF Network, NetRstArrives, TypeOK, NetTypeOK, ClientsTypeOK, clientVars,
     serverVars, SrvStates

\* TypeOK holds in every state the server, its clients and the kernel reach:
\* no recv overruns buf (server.cpp:25-27), descriptors stay in the table.
THEOREM TypeCorrect == Spec => []TypeOK
  <1>1. Init => TypeOK
    BY InitTypeOK
  <1>2. TypeOK /\ [Next]_vars => TypeOK'
    <2> SUFFICES ASSUME TypeOK, [Next]_vars PROVE TypeOK'
      OBVIOUS
    <2>1. CASE UNCHANGED vars
      BY <2>1 DEF vars, netVars, clientVars, serverVars, TypeOK, NetTypeOK,
              ClientsTypeOK
    <2>2. CASE Next
      BY <2>2, MainType, ThreadType, ClientType, NetworkType DEF Next
    <2> QED  BY <2>1, <2>2
  <1> QED  BY <1>1, <1>2, PTL DEF Spec

-----------------------------------------------------------------------------
(* Descriptors.                                                            *)

\* The end of the process leaves no thread and no connection.
LEMMA EndHandOver ==
  ASSUME TypeOK, HandOver, NEW how \in {"exited", "dead"}, ProcessEnds(how),
         UNCHANGED clientVars
  PROVE  HandOver' /\ NoFdLeak'
  <1>1. /\ \A t \in Clients : tpc'[t] \notin {"recv", "send", "close"}
        /\ \A f \in Fds : fdTable'[f] \notin Clients
        /\ Len(backlog') = 0
        /\ mpc' # "spawn"
    BY ServerAssumption DEF ProcessEnds, NetServerGone, TypeOK
  <1>2. \A c \in Unaccepted' : tpc'[c] = "none"
    BY DEF ProcessEnds, NetServerGone, HandOver, Unaccepted, TypeOK, NetTypeOK
  <1>3. \A c \in Clients : cpc'[c] \in {"new", "socket", "connect"} => srv'[c] = "none"
    BY DEF ProcessEnds, NetServerGone, HandOver, clientVars, TypeOK, NetTypeOK
  <1> QED  BY <1>1, <1>2, <1>3 DEF HandOver, NoFdLeak, Live

\* A step that leaves alone the server's ends of the connections, its queue
\* and the server itself disturbs nothing, if no client goes back.
LEMMA FrameHandOver ==
  ASSUME HandOver, NoFdLeak, UNCHANGED <<backlog, srv, serverVars>>,
         \A c \in Clients : cpc'[c] \in {"new", "socket", "connect"} =>
                            cpc[c] \in {"new", "socket", "connect"}
  PROVE  HandOver' /\ NoFdLeak'
  BY DEF HandOver, NoFdLeak, Unaccepted, Live, Peer, serverVars

\* A client that connects gets at the end of the queue, where it was not yet.
LEMMA ConnectHandOver ==
  ASSUME TypeOK, HandOver, NoFdLeak, NEW c \in Clients, ClientConnect(c),
         UNCHANGED serverVars
  PROVE  HandOver' /\ NoFdLeak'
  <1> USE DEF ClientConnect, NetConnect, ClientGoto, serverVars
  <1>1. /\ srv[c] = "none" /\ tpc[c] = "none"
        /\ srv' = [srv EXCEPT ![c] = "queued"]
    BY DEF HandOver, Unaccepted
  <1>2. /\ Len(backlog') = Len(backlog) + 1
        /\ \A i \in 1 .. Len(backlog) : backlog'[i] = backlog[i]
        /\ backlog'[Len(backlog) + 1] = c
        /\ Len(backlog) \in Nat
        /\ \A i \in 1 .. Len(backlog) : backlog[i] \in Clients
    BY DEF TypeOK, NetTypeOK
  <1>3. \A i \in 1 .. Len(backlog) : backlog[i] # c
    BY <1>1 DEF HandOver
  <1>4. /\ \A i \in 1 .. Len(backlog') : srv'[backlog'[i]] = "queued"
        /\ \A i, j \in 1 .. Len(backlog') : backlog'[i] = backlog'[j] => i = j
    BY <1>1, <1>2, <1>3 DEF HandOver, TypeOK, NetTypeOK
  <1>5. /\ \A t \in Live' : tfd'[t] \in Fds /\ Peer(t)' = t
        /\ \A f, g \in Fds :
             fdTable'[f] \in Clients /\ fdTable'[f] = fdTable'[g] => f = g
        /\ mpc' = "spawn" =>
             /\ connFd' \in Fds
             /\ fdTable'[connFd'] \in Clients
             /\ tpc'[fdTable'[connFd']] = "none"
        /\ NoFdLeak'
    BY DEF HandOver, Live, Peer, NoFdLeak
  <1>6. /\ \A f \in Fds : fdTable'[f] \in Clients =>
             srv'[fdTable'[f]] \in {"open", "reset", "dead"}
        /\ \A d \in Unaccepted' : tpc'[d] = "none"
        /\ \A d \in Clients :
             cpc'[d] \in {"new", "socket", "connect"} => srv'[d] = "none"
    BY <1>1 DEF HandOver, Unaccepted, TypeOK, NetTypeOK, ClientsTypeOK
  <1> QED  BY <1>4, <1>5, <1>6 DEF HandOver

\* accept takes the connection from the queue and gives it a descriptor that
\* stood for nothing.
LEMMA AcceptHandOver ==
  ASSUME TypeOK, HandOver, NoFdLeak, MainAccept
  PROVE  HandOver' /\ NoFdLeak'
  <1>1. PICK c \in Clients, f \in Fds :
          /\ IsLowestFree(f)
          /\ NetAccept(c)
          /\ fdTable' = [fdTable EXCEPT ![f] = c]
          /\ connFd' = f
    BY DEF MainAccept
  <1>2. /\ fdTable[f] = Free /\ fdTable'[f] = c
        /\ \A g \in Fds : g # f => fdTable'[g] = fdTable[g]
        /\ mpc' = "spawn" /\ mpc = "accept"
        /\ tpc' = tpc /\ tfd' = tfd /\ cpc' = cpc
    BY <1>1 DEF IsLowestFree, TypeOK, MainAccept, clientVars
  <1>3. /\ backlog \in Seq(Clients) /\ backlog # <<>>
        /\ c = backlog[1]
        /\ backlog' = Tail(backlog)
        /\ srv' = [srv EXCEPT ![c] = "open"]
    BY <1>1 DEF NetAccept, TypeOK, NetTypeOK
  <1>4. /\ Len(backlog) \in Nat /\ Len(backlog) > 0
        /\ Len(backlog') = Len(backlog) - 1
        /\ \A i \in 1 .. Len(backlog') :
             backlog'[i] = backlog[i + 1] /\ i + 1 \in 1 .. Len(backlog)
        /\ \A i \in 1 .. Len(backlog) : backlog[i] \in Clients
    BY <1>3
  <1>5. srv[c] = "queued" /\ tpc[c] = "none" /\ \A g \in Fds : fdTable[g] # c
    BY <1>3, <1>4 DEF HandOver, Unaccepted
  <1>6. /\ \A i \in 1 .. Len(backlog') : backlog'[i] # c
        /\ \A i \in 1 .. Len(backlog') : srv'[backlog'[i]] = "queued"
        /\ \A i, j \in 1 .. Len(backlog') : backlog'[i] = backlog'[j] => i = j
    <2>1. \A i \in 1 .. Len(backlog') : backlog'[i] # c
      BY <1>3, <1>4 DEF HandOver
    <2>2. \A i \in 1 .. Len(backlog') : srv'[backlog'[i]] = "queued"
      BY <2>1, <1>3, <1>4 DEF HandOver, TypeOK, NetTypeOK
    <2>3. \A i, j \in 1 .. Len(backlog') : backlog'[i] = backlog'[j] => i = j
      BY <1>4 DEF HandOver
    <2> QED  BY <2>1, <2>2, <2>3
  <1>7. Free \notin Clients
    BY ServerAssumption
  <1>8. /\ \A t \in Live' : tfd'[t] \in Fds /\ Peer(t)' = t
        /\ NoFdLeak'
    BY <1>1, <1>2, <1>7 DEF HandOver, Live, Peer, NoFdLeak
  <1>9. /\ \A g, h \in Fds :
             fdTable'[g] \in Clients /\ fdTable'[g] = fdTable'[h] => g = h
        /\ \A g \in Fds : fdTable'[g] \in Clients =>
             srv'[fdTable'[g]] \in {"open", "reset", "dead"}
    <2>1. \A g, h \in Fds :
             fdTable'[g] \in Clients /\ fdTable'[g] = fdTable'[h] => g = h
      BY <1>2, <1>5 DEF HandOver
    <2>2. srv \in [Clients -> SrvStates]
      BY DEF TypeOK, NetTypeOK
    <2>3. ASSUME NEW g \in Fds, fdTable'[g] \in Clients
          PROVE  srv'[fdTable'[g]] \in {"open", "reset", "dead"}
      <3>1. CASE g = f
        BY <3>1, <2>2, <1>2, <1>3
      <3>2. CASE g # f
        <4>1. fdTable[g] \in Clients /\ fdTable[g] # c /\ fdTable'[g] = fdTable[g]
          BY <3>2, <2>3, <1>2, <1>5
        <4> QED  BY <4>1, <2>2, <1>3 DEF HandOver
      <3> QED  BY <3>1, <3>2
    <2> QED  BY <2>1, <2>3
  <1>10. /\ \A d \in Unaccepted' : tpc'[d] = "none"
         /\ \A d \in Clients :
              cpc'[d] \in {"new", "socket", "connect"} => srv'[d] = "none"
    BY <1>2, <1>3, <1>5 DEF HandOver, Unaccepted, TypeOK, NetTypeOK
  <1> QED  BY <1>1, <1>2, <1>5, <1>6, <1>8, <1>9, <1>10 DEF HandOver

\* The descriptor main holds goes to the new thread.
LEMMA SpawnHandOver ==
  ASSUME TypeOK, HandOver, NoFdLeak, NEW t \in Clients, SpawnThread(t)
  PROVE  HandOver' /\ NoFdLeak'
  <1> USE DEF SpawnThread, netVars, clientVars
  <1>1. /\ connFd \in Fds /\ fdTable[connFd] = t /\ tpc[t] = "none"
        /\ srv[t] \in {"open", "reset", "dead"}
        /\ tfd' = [tfd EXCEPT ![t] = connFd]
        /\ tpc' = [tpc EXCEPT ![t] = "recv"]
        /\ mpc' = "accept"
    BY DEF HandOver
  <1>2. tfd'[t] = connFd /\ tpc'[t] = "recv"
    BY <1>1 DEF TypeOK
  <1>3. \A u \in Clients : u # t => tfd'[u] = tfd[u] /\ tpc'[u] = tpc[u]
    BY <1>1 DEF TypeOK
  <1>4. \A u \in Live' : tfd'[u] \in Fds /\ Peer(u)' = u
    BY <1>1, <1>2, <1>3 DEF HandOver, Live, Peer
  <1>5. NoFdLeak'
    BY <1>1, <1>2, <1>3 DEF HandOver, NoFdLeak, Live
  <1>6. \A c \in Unaccepted' : tpc'[c] = "none"
    BY <1>1, <1>3 DEF HandOver, Unaccepted
  <1> QED  BY <1>1, <1>4, <1>5, <1>6 DEF HandOver

\* recv and send leave the descriptors alone, and an error or a RST only ends
\* a connection that was accepted.
LEMMA SteadyHandOver ==
  ASSUME TypeOK, HandOver, NoFdLeak,
         UNCHANGED <<backlog, cpc, mpc, connFd, tfd, fdTable>>,
         \A u \in Clients : tpc'[u] = tpc[u] \/ (u \in Live /\ u \in Live'),
         \A c \in Clients : srv'[c] = srv[c] \/
           (srv[c] \notin {"none", "queued"} /\ srv'[c] \in {"reset", "dead"})
  PROVE  HandOver' /\ NoFdLeak'
  <1>1. Live' = Live
    BY DEF Live
  <1>2. /\ \A u \in Live' : tfd'[u] \in Fds /\ Peer(u)' = u
        /\ NoFdLeak'
    BY <1>1 DEF HandOver, NoFdLeak, Peer
  <1>3. /\ \A f \in Fds : fdTable'[f] \in Clients =>
             srv'[fdTable'[f]] \in {"open", "reset", "dead"}
        /\ \A c \in Clients :
             cpc'[c] \in {"new", "socket", "connect"} => srv'[c] = "none"
    BY DEF HandOver
  <1>4. /\ \A c \in Unaccepted' : tpc'[c] = "none"
        /\ mpc' = "spawn" => tpc'[fdTable'[connFd']] = "none"
    BY DEF HandOver, Unaccepted, Live
  <1>5. \A i \in 1 .. Len(backlog) : backlog[i] \in Clients
    BY DEF TypeOK, NetTypeOK
  <1>6. \A i \in 1 .. Len(backlog') : srv'[backlog'[i]] = "queued"
    BY <1>5 DEF HandOver
  <1> QED  BY <1>2, <1>3, <1>4, <1>6 DEF HandOver

\* A thread that goes on within echoLoop is live before and after.
LEMMA GotoLive ==
  ASSUME TypeOK, NEW t \in Clients, NEW to \in {"recv", "send", "close"},
         tpc[t] \in {"recv", "send", "close"}, tpc' = [tpc EXCEPT ![t] = to]
  PROVE  \A u \in Clients : tpc'[u] = tpc[u] \/ (u \in Live /\ u \in Live')
  <1>1. tpc'[t] = to /\ \A u \in Clients \ {t} : tpc'[u] = tpc[u]
    BY DEF TypeOK
  <1> QED  BY <1>1 DEF Live

\* closeSocket at the end of echoLoop closes the thread's own descriptor,
\* which nobody else holds.
LEMMA CloseHandOver ==
  ASSUME TypeOK, HandOver, NoFdLeak, NEW t \in Clients, ThreadClose(t)
  PROVE  HandOver' /\ NoFdLeak'
  <1> DEFINE f == tfd[t]
  <1>1. /\ t \in Live /\ f \in Fds /\ fdTable[f] = t
        /\ tpc[t] = "close" /\ tpc' = [tpc EXCEPT ![t] = "done"]
        /\ srv[t] \in {"open", "reset", "dead"}
    BY DEF ThreadClose, ThreadGoto, HandOver, Live, Peer
  <1>2. /\ fdTable' = [fdTable EXCEPT ![f] = Free]
        /\ srv' = [srv EXCEPT ![t] = "closed"]
        /\ UNCHANGED <<mpc, connFd, tfd, cpc, backlog>>
    BY <1>1 DEF ThreadClose, ThreadGoto, CloseSocket, NetCloseServerEnd, clientVars
  <1> HIDE DEF f
  <1>3. /\ \A g \in Fds : fdTable'[g] \in Clients =>
             /\ g # f /\ fdTable'[g] = fdTable[g] /\ fdTable[g] # t
        /\ Live' = Live \ {t}
        /\ \A u \in Clients : u # t => tpc'[u] = tpc[u] /\ srv'[u] = srv[u]
    <2>1. Free \notin Clients
      BY ServerAssumption
    <2>2. \A g \in Fds : fdTable'[g] \in Clients =>
             /\ g # f /\ fdTable'[g] = fdTable[g] /\ fdTable[g] # t
      BY <2>1, <1>1, <1>2 DEF HandOver, TypeOK
    <2>3. \A u \in Clients : u # t => tpc'[u] = tpc[u] /\ srv'[u] = srv[u]
      BY <1>1, <1>2 DEF TypeOK, NetTypeOK
    <2>4. tpc'[t] = "done"
      BY <1>1 DEF TypeOK
    <2> QED  BY <2>2, <2>3, <2>4, <1>1 DEF Live
  <1>4. \A u \in Live' : tfd'[u] \in Fds /\ Peer(u)' = u
    <2> TAKE u \in Live'
    <2>1. u \in Live /\ u # t
      BY <1>3
    <2>2. tfd[u] \in Fds /\ fdTable[tfd[u]] = u /\ tfd[u] # f
      BY <2>1, <1>1 DEF HandOver, Peer
    <2> QED  BY <2>2, <1>2 DEF Peer, TypeOK
  <1>5. NoFdLeak'
    BY <1>2, <1>3 DEF NoFdLeak
  <1>6. mpc' = "spawn" =>
          /\ connFd' \in Fds
          /\ fdTable'[connFd'] \in Clients
          /\ tpc'[fdTable'[connFd']] = "none"
    <2> SUFFICES ASSUME mpc = "spawn"
                 PROVE  /\ fdTable'[connFd] \in Clients
                        /\ tpc'[fdTable'[connFd]] = "none"
      BY <1>2 DEF HandOver
    <2>1. connFd \in Fds /\ fdTable[connFd] \in Clients /\ fdTable[connFd] # t
      BY <1>1 DEF HandOver
    <2>2. fdTable'[connFd] = fdTable[connFd]
      BY <2>1, <1>1, <1>2 DEF TypeOK
    <2> QED  BY <2>1, <2>2, <1>3 DEF HandOver
  <1>7. \A i \in 1 .. Len(backlog') : srv'[backlog'[i]] = "queued"
    <2>1. \A i \in 1 .. Len(backlog) : backlog[i] \in Clients
      BY DEF TypeOK, NetTypeOK
    <2>2. \A i \in 1 .. Len(backlog) : backlog[i] # t
      BY <1>1 DEF HandOver
    <2> QED  BY <2>1, <2>2, <1>2, <1>3 DEF HandOver
  <1>8. srv'[t] = "closed" /\ \A c \in Clients :
          cpc[c] \in {"new", "socket", "connect"} => c # t
    BY <1>1, <1>2 DEF HandOver, TypeOK, NetTypeOK
  <1>9. /\ \A c \in Unaccepted' : tpc'[c] = "none"
        /\ \A c \in Clients :
             cpc'[c] \in {"new", "socket", "connect"} => srv'[c] = "none"
    BY <1>2, <1>3, <1>8 DEF HandOver, Unaccepted
  <1>10. /\ \A g, h \in Fds :
              fdTable'[g] \in Clients /\ fdTable'[g] = fdTable'[h] => g = h
         /\ \A g \in Fds : fdTable'[g] \in Clients =>
              srv'[fdTable'[g]] \in {"open", "reset", "dead"}
    BY <1>3 DEF HandOver
  <1>11. \A i, j \in 1 .. Len(backlog') : backlog'[i] = backlog'[j] => i = j
    BY <1>2 DEF HandOver
  <1> QED  BY <1>4, <1>5, <1>6, <1>7, <1>9, <1>10, <1>11 DEF HandOver

\* HandOver and NoFdLeak hold before main has opened its first descriptor.
LEMMA InitHandOver == Init => HandOver /\ NoFdLeak
  <1>1. Free \notin Clients
    BY ServerAssumption
  <1> QED
    BY <1>1 DEF Init, NetInit, HandOver, NoFdLeak, Unaccepted, Live

\* Every step of the server, the clients and the kernel keeps HandOver and
\* NoFdLeak.
LEMMA NextHandOver ==
  ASSUME TypeOK, HandOver, NoFdLeak, [Next]_vars
  PROVE  HandOver' /\ NoFdLeak'
  <1> DEFINE Goal == HandOver' /\ NoFdLeak'
  <1>1. CASE Main
    <2>1. CASE MainSocket
      <3>1. CASE ProcessEnds("exited")
        BY <3>1, <2>1, EndHandOver DEF MainSocket
      <3>2. CASE ~ProcessEnds("exited")
        <4>1. PICK f \in Fds :
                /\ fdTable[f] = Free
                /\ fdTable' = [fdTable EXCEPT ![f] = Listener]
          BY <2>1, <3>2 DEF MainSocket, IsLowestFree
        <4>2. /\ Free \notin Clients /\ Listener \notin Clients
              /\ mpc' = "bind" /\ mpc = "socket"
              /\ UNCHANGED <<netVars, clientVars, tpc, tfd>>
          BY <2>1, <3>2, ServerAssumption DEF MainSocket
        <4>3. \A g \in Fds : fdTable'[g] \in Clients \/ fdTable[g] \in Clients =>
                fdTable'[g] = fdTable[g]
          BY <4>1, <4>2 DEF TypeOK
        <4> QED
          BY <4>2, <4>3
          DEF HandOver, NoFdLeak, Live, Peer, Unaccepted, netVars, clientVars
      <3> QED  BY <3>1, <3>2
    <2>2. CASE MainBind
      <3>1. CASE ProcessEnds("exited")
        BY <3>1, <2>2, EndHandOver DEF MainBind
      <3>2. CASE ~ProcessEnds("exited")
        BY <3>2, <2>2 DEF MainBind, HandOver, NoFdLeak, Live, Peer, Unaccepted,
                          netVars, clientVars
      <3> QED  BY <3>1, <3>2
    <2>3. CASE MainListen
      <3>1. CASE ProcessEnds("exited")
        BY <3>1, <2>3, EndHandOver DEF MainListen
      <3>2. CASE ~ProcessEnds("exited")
        BY <3>2, <2>3 DEF MainListen, NetListen, HandOver, NoFdLeak, Live, Peer,
                          Unaccepted, clientVars
      <3> QED  BY <3>1, <3>2
    <2>4. CASE MainAccept
      BY <2>4, AcceptHandOver
    <2>5. CASE MainAcceptFails \/ MainRetry
      BY <2>5 DEF MainAcceptFails, MainRetry, HandOver, NoFdLeak, Live, Peer,
                  Unaccepted, netVars, clientVars
    <2>6. CASE SpawnThreadThrows
      BY <2>6, EndHandOver DEF SpawnThreadThrows
    <2>7. ASSUME NEW t \in Clients, SpawnThread(t) PROVE Goal
      BY <2>7, SpawnHandOver
    <2> QED
      BY <1>1, <2>1, <2>2, <2>3, <2>4, <2>5, <2>6, <2>7 DEF Main
  <1>2. ASSUME NEW t \in Clients, Thread(t) PROVE Goal
    <2>1. CASE ThreadRecv(t)
      <3>1. /\ UNCHANGED <<backlog, cpc, mpc, connFd, tfd, fdTable, srv>>
            /\ tpc[t] = "recv" /\ tpc' = [tpc EXCEPT ![t] = "send"]
        BY <2>1 DEF ThreadRecv, NetRecv, ThreadGoto, clientVars
      <3> QED  BY <3>1, GotoLive, SteadyHandOver
    <2>2. CASE ThreadRecvEof(t)
      <3>1. /\ UNCHANGED <<backlog, cpc, mpc, connFd, tfd, fdTable, srv>>
            /\ tpc[t] = "recv" /\ tpc' = [tpc EXCEPT ![t] = "close"]
        BY <2>2 DEF ThreadRecvEof, NetRecvEof, ThreadGoto, clientVars, netVars
      <3> QED  BY <3>1, GotoLive, SteadyHandOver
    <2>3. CASE ThreadRecvError(t)
      <3>1. /\ UNCHANGED <<backlog, cpc, mpc, connFd, tfd, fdTable>>
            /\ tpc[t] = "recv" /\ tpc' = [tpc EXCEPT ![t] = "close"]
            /\ \/ srv' = srv
               \/ /\ srv[Peer(t)] \in {"reset", "dead"}
                  /\ srv' = [srv EXCEPT ![Peer(t)] = "dead"]
        BY <2>3 DEF ThreadRecvError, NetRecvError, ThreadGoto, clientVars, netVars
      <3>2. \A c \in Clients : srv'[c] = srv[c] \/
              (srv[c] \notin {"none", "queued"} /\ srv'[c] \in {"reset", "dead"})
        <4>1. srv \in [Clients -> SrvStates]
          BY DEF TypeOK, NetTypeOK
        <4> QED  BY <3>1, <4>1
      <3> QED  BY <3>1, <3>2, GotoLive, SteadyHandOver
    <2>4. CASE ThreadSend(t)
      <3>1. /\ UNCHANGED <<backlog, cpc, mpc, connFd, tfd, fdTable, srv>>
            /\ tpc[t] = "send" /\ tpc' = [tpc EXCEPT ![t] = "recv"]
        BY <2>4 DEF ThreadSend, NetSend, ThreadGoto, clientVars
      <3> QED  BY <3>1, GotoLive, SteadyHandOver
    <2>5. CASE ThreadSendError(t)
      <3>1. /\ UNCHANGED <<backlog, cpc, mpc, connFd, tfd, fdTable>>
            /\ tpc[t] = "send" /\ tpc' = [tpc EXCEPT ![t] = "recv"]
            /\ \/ srv' = srv
               \/ /\ srv[Peer(t)] = "reset"
                  /\ srv' = [srv EXCEPT ![Peer(t)] = "dead"]
        BY <2>5 DEF ThreadSendError, NetSendError, ThreadGoto, clientVars, netVars
      <3>2. \A c \in Clients : srv'[c] = srv[c] \/
              (srv[c] \notin {"none", "queued"} /\ srv'[c] \in {"reset", "dead"})
        <4>1. srv \in [Clients -> SrvStates]
          BY DEF TypeOK, NetTypeOK
        <4> QED  BY <3>1, <4>1
      <3> QED  BY <3>1, <3>2, GotoLive, SteadyHandOver
    <2>6. CASE ThreadSigPipe(t)
      BY <2>6, EndHandOver DEF ThreadSigPipe
    <2>7. CASE ThreadClose(t)
      BY <2>7, CloseHandOver
    <2> QED
      BY <1>2, <2>1, <2>2, <2>3, <2>4, <2>5, <2>6, <2>7 DEF Thread
  <1>3. CASE ClientsNext /\ UNCHANGED serverVars
    <2>1. CASE ClientMain
      BY <1>3, <2>1, FrameHandOver
      DEF ClientMain, StartJoin, AllClientsDone, netVars
    <2>2. ASSUME NEW c \in Clients, ClientThread(c) \/ IdleLeaves(c) PROVE Goal
      <3>1. CASE ClientConnect(c)
        BY <1>3, <3>1, ConnectHandOver
      <3>2. CASE ~ClientConnect(c)
        <4>1. /\ UNCHANGED <<backlog, srv>>
              /\ \A d \in Clients : cpc'[d] \in {"new", "socket", "connect"} =>
                   cpc[d] \in {"new", "socket", "connect"}
          BY <2>2, <3>2
          DEF ClientThread, SpawnClient, ClientSocket, ClientConnectFails,
              ClientSend, ClientRecv, ClientClose, IdleLeaves, ClientGoto,
              NetConnectError, NetClientSend, NetClientRecv, NetClientRecvEnd,
              NetClientClose, netVars, TypeOK, ClientsTypeOK
        <4> QED  BY <1>3, <4>1, FrameHandOver
      <3> QED  BY <3>1, <3>2
    <2> QED  BY <1>3, <2>1, <2>2 DEF ClientsNext
  <1>4. ASSUME NEW c \in Clients, Network(c) PROVE Goal
    <2>1. /\ UNCHANGED <<backlog, cpc, mpc, connFd, tfd, fdTable, tpc>>
          /\ srv[c] = "open"
          /\ srv' = [srv EXCEPT ![c] = IF cli[c] = "fin" THEN "dead" ELSE "reset"]
      BY <1>4 DEF Network, NetRstArrives, clientVars, serverVars
    <2>2. srv \in [Clients -> SrvStates]
      BY DEF TypeOK, NetTypeOK
    <2>3. \A d \in Clients : srv'[d] = srv[d] \/
            (srv[d] \notin {"none", "queued"} /\ srv'[d] \in {"reset", "dead"})
      BY <2>1, <2>2
    <2> QED  BY <2>1, <2>3, SteadyHandOver
  <1>5. CASE UNCHANGED vars
    BY <1>5, FrameHandOver DEF vars, netVars, clientVars
  <1> QED  BY <1>1, <1>2, <1>3, <1>4, <1>5 DEF Next

\* HandOver and NoFdLeak hold in every reachable state.
THEOREM HandOverCorrect == Spec => [](HandOver /\ NoFdLeak)
  <1>1. Init => HandOver /\ NoFdLeak
    BY InitHandOver
  <1>2. TypeOK /\ (HandOver /\ NoFdLeak) /\ [Next]_vars => (HandOver /\ NoFdLeak)'
    BY NextHandOver
  <1> QED  BY <1>1, <1>2, TypeCorrect, PTL DEF Spec

\* A thread always serves the connection it was started for, although the
\* kernel uses descriptors again (server.cpp:23-40, 84-86).
THEOREM OwnershipCorrect == Spec => []FdOwnership
  <1>1. HandOver => FdOwnership
    BY DEF HandOver, FdOwnership
  <1> QED  BY <1>1, HandOverCorrect, PTL

\* No way out of echoLoop loses a descriptor (server.cpp:28-39).
THEOREM LeakFree == Spec => []NoFdLeak
  BY HandOverCorrect, PTL

-----------------------------------------------------------------------------
(* Bytes.                                                                  *)

\* A step that neither receives nor sends for the client c: the thread may end,
\* begin, or drop what it has in hand once the connection is broken.
LEMMA FrameInStep ==
  ASSUME TypeOK, TypeOK', NEW c \in Clients, InStepOf(c), OwnBytes(c),
         out'[c] = out[c], rcvd'[c] = rcvd[c], buf'[c] = buf[c], rd'[c] = rd[c],
         sent'[c] >= sent[c],
         tpc'[c] = "none" => tpc[c] = "none",
         tpc'[c] = "send" => tpc[c] = "send",
         (tpc'[c] \in {"recv", "send", "close"} /\ srv'[c] = "open")
           => \/ tpc[c] = "none"
              \/ /\ tpc[c] \in {"recv", "send", "close"}
                 /\ srv[c] = "open"
                 /\ tpc[c] = "send" <=> tpc'[c] = "send",
         cpc'[c] \in {"new", "socket", "connect", "send"} => sent'[c] = 0
  PROVE  InStepOf(c)' /\ OwnBytes(c)'
  <1>1. /\ Len(out[c]) \in Nat /\ Len(buf[c]) \in Nat
        /\ rcvd[c] \in Nat /\ sent[c] \in Nat /\ sent'[c] \in Nat
    BY TcpAssumption DEF TypeOK, NetTypeOK
  <1>2. OwnBytes(c)'
    BY DEF OwnBytes
  <1>3. Pending(c)' <= Pending(c) /\ Pending(c) \in Nat /\ Pending(c)' \in Nat
    BY <1>1 DEF Pending
  <1>4. /\ tpc'[c] = "none" => rcvd'[c] = 0 /\ out'[c] = <<>>
        /\ tpc'[c] = "send" => \A i \in 1 .. Len(buf'[c]) :
             buf'[c][i] = <<c, (rcvd'[c] - Len(buf'[c])) + i>>
    BY DEF InStepOf
  <1>5. /\ Len(out'[c]) + Pending(c)' <= rcvd'[c]
        /\ rcvd'[c] <= sent'[c]
        /\ rd'[c] <= Len(out'[c])
    BY <1>1, <1>3 DEF InStepOf, TypeOK, NetTypeOK
  <1>6. (c \in Live /\ srv[c] = "open")' => Len(out'[c]) + Pending(c)' = rcvd'[c]
    <2>1. CASE tpc[c] = "none"
      <3>1. Len(out'[c]) = 0 /\ rcvd'[c] = 0
        BY <2>1 DEF InStepOf
      <3>2. Pending(c)' = 0
        BY <2>1 DEF Pending
      <3> QED  BY <3>1, <3>2
    <2>2. CASE tpc[c] # "none"
      <3>1. SUFFICES ASSUME c \in Live', srv'[c] = "open"
                     PROVE  Len(out'[c]) + Pending(c)' = rcvd'[c]
        OBVIOUS
      <3>2. c \in Live /\ srv[c] = "open" /\ (tpc[c] = "send" <=> tpc'[c] = "send")
        BY <2>2, <3>1 DEF Live
      <3>3. Len(out[c]) + Pending(c) = rcvd[c]
        BY <3>2 DEF InStepOf
      <3> QED  BY <3>2, <3>3 DEF Pending
    <2> QED  BY <2>1, <2>2
  <1> QED  BY <1>2, <1>4, <1>5, <1>6 DEF InStepOf

\* A recv puts the next bytes of its client in the buffer.
LEMMA RecvInStep ==
  ASSUME TypeOK, TypeOK', HandOver, NEW t \in Clients, ThreadRecv(t),
         InStepOf(t), OwnBytes(t)
  PROVE  InStepOf(t)' /\ OwnBytes(t)'
  <1>1. t \in Live /\ Peer(t) = t /\ tpc[t] = "recv" /\ tpc'[t] = "send"
    BY DEF ThreadRecv, ThreadGoto, HandOver, Live, TypeOK
  <1>2. PICK n \in 1 .. RecvMax :
          /\ NetRecv(t, n)
          /\ buf' = [buf EXCEPT ![t] = Chunk(t, rcvd[t], n)]
    BY <1>1 DEF ThreadRecv
  <1>3. /\ n \in Nat /\ rcvd[t] \in Nat /\ sent[t] \in Nat /\ Len(out[t]) \in Nat
        /\ rcvd'[t] = rcvd[t] + n /\ rcvd[t] + n <= sent[t]
        /\ sent' = sent /\ out' = out /\ rd' = rd /\ srv' = srv /\ cpc' = cpc
    <2>1. /\ n \in Nat /\ sent[t] \in Nat /\ rcvd[t] \in Nat
          /\ Len(out[t]) \in Nat
          /\ rcvd \in [Clients -> 0 .. MsgLen]
      BY TcpAssumption, ServerAssumption DEF TypeOK, NetTypeOK
    <2>2. /\ n \in 1 .. (sent[t] - rcvd[t])
          /\ rcvd' = [rcvd EXCEPT ![t] = @ + n]
          /\ sent' = sent /\ out' = out /\ rd' = rd /\ srv' = srv /\ cpc' = cpc
      BY <1>2 DEF NetRecv, ThreadRecv, ThreadGoto, clientVars
    <2> QED  BY <2>1, <2>2
  <1>4. buf'[t] = Chunk(t, rcvd[t], n)
    BY <1>2 DEF TypeOK
  <1>5. Len(buf'[t]) = n /\ \A i \in 1 .. n : buf'[t][i] = <<t, rcvd[t] + i>>
    BY <1>3, <1>4 DEF Chunk
  <1>6. Pending(t) = 0 /\ Pending(t)' = n
    BY <1>1, <1>5 DEF Pending
  <1>7. \A i \in 1 .. Len(buf'[t]) : buf'[t][i] = <<t, (rcvd'[t] - Len(buf'[t])) + i>>
    <2>1. rcvd'[t] - Len(buf'[t]) = rcvd[t]
      BY <1>3, <1>5
    <2> QED  BY <2>1, <1>5
  <1>8. /\ Len(out'[t]) + Pending(t)' <= rcvd'[t]
        /\ srv'[t] = "open" => Len(out'[t]) + Pending(t)' = rcvd'[t]
    BY <1>1, <1>3, <1>6 DEF InStepOf
  <1>9. /\ rcvd'[t] <= sent'[t]
        /\ rd'[t] <= Len(out'[t])
        /\ cpc'[t] \in {"new", "socket", "connect", "send"} => sent'[t] = 0
    BY <1>3 DEF InStepOf
  <1>10. OwnBytes(t)'
    BY <1>3 DEF OwnBytes
  <1> QED  BY <1>1, <1>7, <1>8, <1>9, <1>10 DEF InStepOf

\* A send appends exactly the bytes in hand, which are the next ones.
LEMMA SendInStep ==
  ASSUME TypeOK, TypeOK', HandOver, NEW t \in Clients, ThreadSend(t),
         InStepOf(t), OwnBytes(t)
  PROVE  InStepOf(t)' /\ OwnBytes(t)'
  <1>1. t \in Live /\ Peer(t) = t /\ tpc[t] = "send" /\ tpc'[t] = "recv"
    BY DEF ThreadSend, ThreadGoto, HandOver, Live, TypeOK
  <1>2. /\ srv[t] = "open" /\ srv' = srv
        /\ out' = [out EXCEPT ![t] = @ \o buf[t]]
        /\ UNCHANGED <<sent, rcvd, rd, cpc, buf>>
    BY <1>1 DEF ThreadSend, NetSend, ThreadGoto, clientVars
  <1>3. /\ out[t] \in Seq(Byte) /\ buf[t] \in Seq(Byte)
        /\ out'[t] = out[t] \o buf[t]
        /\ Len(out[t]) \in Nat /\ Len(buf[t]) \in Nat
        /\ rcvd[t] \in Nat /\ rd[t] \in Nat
    BY <1>2, TcpAssumption DEF TypeOK, NetTypeOK
  <1>4. Pending(t) = Len(buf[t]) /\ Pending(t)' = 0
    BY <1>1 DEF Pending
  <1>5. Len(out[t]) + Len(buf[t]) = rcvd[t]
    BY <1>1, <1>2, <1>4 DEF InStepOf
  <1>6. /\ Len(out'[t]) = rcvd[t]
        /\ \A i \in 1 .. Len(out'[t]) : out'[t][i] =
             IF i <= Len(out[t]) THEN out[t][i] ELSE buf[t][i - Len(out[t])]
    <2>1. /\ Len(out[t] \o buf[t]) = Len(out[t]) + Len(buf[t])
          /\ \A i \in 1 .. Len(out[t]) + Len(buf[t]) : (out[t] \o buf[t])[i] =
               IF i <= Len(out[t]) THEN out[t][i] ELSE buf[t][i - Len(out[t])]
      BY <1>3, ConcatProperties
    <2>2. Len(out'[t]) = rcvd[t] /\ rcvd[t] = Len(out[t]) + Len(buf[t])
      BY <1>3, <1>5, <2>1
    <2> QED  BY <1>3, <2>1, <2>2
  <1>7. OwnBytes(t)'
    <2> SUFFICES ASSUME NEW i \in 1 .. Len(out'[t])
                 PROVE  out'[t][i] = <<t, i>>
      BY DEF OwnBytes
    <2>1. /\ i \in 1 .. rcvd[t] /\ rcvd[t] \in Nat
          /\ Len(out[t]) \in Nat /\ Len(buf[t]) \in Nat
          /\ out'[t][i] =
               IF i <= Len(out[t]) THEN out[t][i] ELSE buf[t][i - Len(out[t])]
      BY <1>3, <1>6
    <2>2. CASE i <= Len(out[t])
      <3>1. i \in 1 .. Len(out[t])
        BY <2>1, <2>2
      <3> QED  BY <3>1, <2>1, <2>2 DEF OwnBytes
    <2>3. CASE ~(i <= Len(out[t]))
      <3> DEFINE j == i - Len(out[t])
      <3> DEFINE lo == Len(out[t])
      <3> DEFINE lb == Len(buf[t])
      <3>1. lo \in Nat /\ lb \in Nat /\ i \in 1 .. (lo + lb) /\ ~(i <= lo)
        BY <2>1, <2>3, <1>5
      <3>2. rcvd[t] = lo + lb
        BY <1>5
      <3> HIDE DEF lo, lb
      <3>3. j \in 1 .. lb /\ (rcvd[t] - lb) + j = i
        <4>1. i - lo \in 1 .. lb /\ ((lo + lb) - lb) + (i - lo) = i
          BY <3>1
        <4> QED  BY <4>1, <3>2 DEF lo
      <3>4. j \in 1 .. Len(buf[t]) /\ (rcvd[t] - Len(buf[t])) + j = i
        BY <3>3 DEF lb
      <3>5. buf[t][j] = <<t, (rcvd[t] - Len(buf[t])) + j>>
        BY <3>4, <1>1 DEF InStepOf
      <3> QED  BY <3>4, <3>5, <2>1, <2>3
    <2> QED  BY <2>2, <2>3
  <1>8. /\ rd'[t] <= Len(out'[t])
        /\ rcvd'[t] <= sent'[t]
        /\ Len(out'[t]) + Pending(t)' <= rcvd'[t]
        /\ Len(out'[t]) + Pending(t)' = rcvd'[t]
        /\ cpc'[t] \in {"new", "socket", "connect", "send"} => sent'[t] = 0
    BY <1>2, <1>3, <1>4, <1>5, <1>6 DEF InStepOf
  <1> QED  BY <1>1, <1>7, <1>8 DEF InStepOf

\* Nothing has been sent or received at the start.
LEMMA InitInStep == Init => InStep /\ EchoIntegrity
  <1>1. Len(<<>>) = 0
    OBVIOUS
  <1> QED
    BY <1>1 DEF Init, NetInit, InStep, InStepOf, EchoIntegrity, OwnBytes, Pending,
                Live

\* A step of a client moves only what the client itself has said and read.
LEMMA ClientInStep ==
  ASSUME TypeOK, TypeOK', NEW c \in Clients, InStepOf(c), OwnBytes(c),
         ClientsNext, UNCHANGED serverVars
  PROVE  InStepOf(c)' /\ OwnBytes(c)'
  <1> USE DEF serverVars
  <1>0. /\ sent[c] \in Nat /\ rd[c] \in Nat /\ Len(out[c]) \in Nat
        /\ sent \in [Clients -> 0 .. MsgLen] /\ rd \in [Clients -> Nat]
        /\ srv \in [Clients -> SrvStates] /\ cpc \in [Clients -> ClientPcs]
        /\ MsgLen \in Nat
    BY TcpAssumption DEF TypeOK, NetTypeOK, ClientsTypeOK
  <1>1. ASSUME UNCHANGED <<out, rcvd, srv, sent, rd>>,
               cpc'[c] \in {"new", "socket", "connect", "send"} =>
                 cpc[c] \in {"new", "socket", "connect", "send"}
        PROVE  InStepOf(c)' /\ OwnBytes(c)'
    BY <1>0, <1>1, FrameInStep DEF InStepOf
  <1>2. CASE ClientMain
    BY <1>2, <1>1 DEF ClientMain, StartJoin, AllClientsDone, netVars
  <1>3. ASSUME NEW d \in Clients, ClientConnect(d)
        PROVE  InStepOf(c)' /\ OwnBytes(c)'
    <2>1. /\ UNCHANGED <<out, rcvd, sent, rd>>
          /\ srv' = [srv EXCEPT ![d] = "queued"]
          /\ cpc[d] = "connect" /\ cpc' = [cpc EXCEPT ![d] = "send"]
      BY <1>3 DEF ClientConnect, NetConnect, ClientGoto
    <2>2. srv'[c] = srv[c] \/ srv'[c] = "queued"
      BY <2>1, <1>0
    <2>3. cpc'[c] \in {"new", "socket", "connect", "send"} => sent'[c] = 0
      BY <2>1, <1>0 DEF InStepOf
    <2> QED  BY <1>0, <2>1, <2>2, <2>3, FrameInStep
  <1>4. ASSUME NEW d \in Clients, ClientSend(d)
        PROVE  InStepOf(c)' /\ OwnBytes(c)'
    <2>1. /\ UNCHANGED <<out, rcvd, srv, rd>>
          /\ sent' = [sent EXCEPT ![d] = IF srv[d] = "closed" THEN @ ELSE MsgLen]
          /\ cpc[d] = "send" /\ cpc' = [cpc EXCEPT ![d] = "recv"]
      BY <1>4 DEF ClientSend, NetClientSend, ClientGoto
    <2>2. sent'[c] >= sent[c]
      BY <2>1, <1>0
    <2>3. cpc'[c] \in {"new", "socket", "connect", "send"} => sent'[c] = 0
      BY <2>1, <1>0 DEF InStepOf
    <2> QED  BY <2>1, <2>2, <2>3, FrameInStep
  <1>5. ASSUME NEW d \in Clients, NEW n \in 1 .. MsgLen, ClientRecv(d),
               NetClientRecv(d, n)
        PROVE  InStepOf(c)' /\ OwnBytes(c)'
    <2>1. /\ UNCHANGED <<out, rcvd, srv, sent>>
          /\ n \in 1 .. (Len(out[d]) - rd[d])
          /\ rd' = [rd EXCEPT ![d] = @ + n]
          /\ cpc[d] = "recv" /\ cpc' = [cpc EXCEPT ![d] = "close"]
      BY <1>5 DEF ClientRecv, NetClientRecv, ClientGoto
    <2>2. rd'[c] <= Len(out[c])
      <3>1. CASE c = d
        BY <3>1, <2>1, <1>0
      <3>2. CASE c # d
        BY <3>2, <2>1, <1>0 DEF InStepOf
      <3> QED  BY <3>1, <3>2
    <2>3. cpc'[c] \in {"new", "socket", "connect", "send"} => sent'[c] = 0
      BY <2>1, <1>0 DEF InStepOf
    <2> QED  BY <2>1, <2>2, <2>3 DEF InStepOf, OwnBytes, Pending, Live
  <1>6. ASSUME NEW d \in Clients,
               \/ SpawnClient(d) \/ ClientSocket(d) \/ ClientConnectFails(d)
               \/ ClientRecv(d) /\ NetClientRecvEnd(d)
               \/ ClientClose(d) \/ IdleLeaves(d)
        PROVE  InStepOf(c)' /\ OwnBytes(c)'
    <2>1. /\ UNCHANGED <<out, rcvd, srv, sent, rd>>
          /\ \/ cpc[d] \in {"new", "socket", "connect", "send"}
             \/ cpc'[d] \in {"close", "done"}
          /\ \A e \in Clients : e # d => cpc'[e] = cpc[e]
      BY <1>6, <1>0
      DEF SpawnClient, ClientSocket, ClientConnectFails, ClientRecv, ClientClose,
          IdleLeaves, ClientGoto, NetConnectError, NetClientRecvEnd,
          NetClientClose, netVars
    <2> QED  BY <2>1, <1>1
  <1> QED
    BY <1>2, <1>3, <1>4, <1>5, <1>6
    DEF ClientsNext, ClientThread, ClientRecv

\* Where the process ends, whatever was in hand is dropped.
LEMMA EndInStep ==
  ASSUME TypeOK, TypeOK', NEW c \in Clients, InStepOf(c), OwnBytes(c),
         NEW how \in {"exited", "dead"}, ProcessEnds(how), UNCHANGED clientVars
  PROVE  InStepOf(c)' /\ OwnBytes(c)'
  <1>1. /\ UNCHANGED <<out, rcvd, sent, rd, buf, cpc>>
        /\ tpc'[c] \in {"none", "done"}
        /\ tpc'[c] = "none" => tpc[c] = "none"
        /\ sent[c] \in Nat
    BY TcpAssumption DEF ProcessEnds, NetServerGone, clientVars, TypeOK, NetTypeOK
  <1> QED  BY <1>1, FrameInStep DEF InStepOf

\* A step of main, a thread or the network keeps InStep for every client.
LEMMA ServerInStep ==
  ASSUME TypeOK, TypeOK', HandOver, NEW c \in Clients, InStepOf(c), OwnBytes(c),
         \/ Main
         \/ \E t \in Clients : Thread(t)
         \/ \E d \in Clients : Network(d)
  PROVE  InStepOf(c)' /\ OwnBytes(c)'
  <1>0. /\ sent[c] \in Nat
        /\ tpc \in [Clients -> ThreadPcs] /\ srv \in [Clients -> SrvStates]
    <2>1. sent \in [Clients -> 0 .. MsgLen] /\ MsgLen \in Nat
      BY TcpAssumption DEF TypeOK, NetTypeOK
    <2>2. tpc \in [Clients -> ThreadPcs] /\ srv \in [Clients -> SrvStates]
      BY DEF TypeOK, NetTypeOK
    <2> QED  BY <2>1, <2>2
  <1>1. ASSUME UNCHANGED <<out, rcvd, sent, rd, buf, cpc>>,
               tpc'[c] = "none" => tpc[c] = "none",
               tpc'[c] = "send" => tpc[c] = "send",
               (tpc'[c] \in {"recv", "send", "close"} /\ srv'[c] = "open")
                 => \/ tpc[c] = "none"
                    \/ /\ tpc[c] \in {"recv", "send", "close"}
                       /\ srv[c] = "open"
                       /\ tpc[c] = "send" <=> tpc'[c] = "send"
        PROVE  InStepOf(c)' /\ OwnBytes(c)'
    BY <1>0, <1>1, FrameInStep DEF InStepOf
  <1>2. CASE Main
    <2>1. CASE \E how \in {"exited", "dead"} : ProcessEnds(how)
      BY <1>2, <2>1, EndInStep
      DEF Main, MainSocket, MainBind, MainListen, MainAccept, MainAcceptFails,
          MainRetry, SpawnThread, SpawnThreadThrows
    <2>2. CASE MainAccept
      <3>1. PICK d \in Clients : srv' = [srv EXCEPT ![d] = "open"] /\ NetAccept(d)
        BY <2>2 DEF MainAccept, NetAccept
      <3>2. /\ UNCHANGED <<out, rcvd, sent, rd, buf, cpc, tpc>>
            /\ srv[d] = "queued" /\ tpc[d] = "none"
        <4>1. backlog \in Seq(Clients) /\ backlog # <<>> /\ d = backlog[1]
          BY <3>1 DEF NetAccept, TypeOK, NetTypeOK
        <4> QED
          BY <2>2, <3>1, <4>1
          DEF MainAccept, NetAccept, clientVars, HandOver, Unaccepted
      <3> QED  BY <3>1, <3>2, <1>0, <1>1
    <2>3. ASSUME NEW t \in Clients, SpawnThread(t)
          PROVE  InStepOf(c)' /\ OwnBytes(c)'
      <3>1. /\ UNCHANGED <<out, rcvd, sent, rd, buf, cpc, srv>>
            /\ tpc[t] = "none" /\ tpc' = [tpc EXCEPT ![t] = "recv"]
        BY <2>3 DEF SpawnThread, netVars, clientVars, HandOver
      <3> QED  BY <3>1, <1>0, <1>1
    <2>4. CASE \/ MainSocket \/ MainBind \/ MainListen
               \/ MainAcceptFails \/ MainRetry
      <3>1. \/ \E how \in {"exited", "dead"} : ProcessEnds(how)
            \/ UNCHANGED <<out, rcvd, sent, rd, buf, cpc, tpc, srv>>
        BY <2>4
        DEF MainSocket, MainBind, MainListen, MainAcceptFails, MainRetry,
            NetListen, netVars, clientVars
      <3> QED  BY <3>1, <2>1, <1>0, <1>1
    <2> QED
      BY <1>2, <2>1, <2>2, <2>3, <2>4 DEF Main, SpawnThreadThrows
  <1>3. ASSUME NEW t \in Clients, Thread(t)
        PROVE  InStepOf(c)' /\ OwnBytes(c)'
    <2>1. CASE ThreadRecv(t)
      <3>1. CASE t = c
        BY <2>1, <3>1, RecvInStep
      <3>2. CASE t # c
        <4>1. t \in Live /\ Peer(t) = t
          BY <2>1 DEF ThreadRecv, ThreadGoto, Live, HandOver
        <4>2. /\ UNCHANGED <<out, sent, rd, cpc, srv>>
              /\ rcvd'[c] = rcvd[c] /\ buf'[c] = buf[c] /\ tpc'[c] = tpc[c]
          BY <2>1, <3>2, <4>1
          DEF ThreadRecv, NetRecv, ThreadGoto, clientVars, TypeOK, NetTypeOK
        <4> QED  BY <4>2, <1>0, FrameInStep DEF InStepOf
      <3> QED  BY <3>1, <3>2
    <2>2. CASE ThreadSend(t)
      <3>1. CASE t = c
        BY <2>2, <3>1, SendInStep
      <3>2. CASE t # c
        <4>1. t \in Live /\ Peer(t) = t
          BY <2>2 DEF ThreadSend, ThreadGoto, Live, HandOver
        <4>2. /\ UNCHANGED <<rcvd, sent, rd, cpc, srv, buf>>
              /\ out'[c] = out[c] /\ tpc'[c] = tpc[c]
          BY <2>2, <3>2, <4>1
          DEF ThreadSend, NetSend, ThreadGoto, clientVars, TypeOK, NetTypeOK
        <4> QED  BY <4>2, <1>0, FrameInStep DEF InStepOf
      <3> QED  BY <3>1, <3>2
    <2>3. CASE ThreadRecvEof(t) \/ ThreadRecvError(t)
      <3>1. /\ UNCHANGED <<out, rcvd, sent, rd, buf, cpc>>
            /\ tpc[t] = "recv" /\ tpc' = [tpc EXCEPT ![t] = "close"]
            /\ srv' = srv \/ srv' = [srv EXCEPT ![Peer(t)] = "dead"]
        BY <2>3
        DEF ThreadRecvEof, ThreadRecvError, NetRecvEof, NetRecvError, ThreadGoto,
            netVars, clientVars
      <3>2. srv'[c] = "open" => srv[c] = "open"
        BY <3>1, <1>0
      <3> QED  BY <3>1, <3>2, <1>0, <1>1
    <2>4. CASE ThreadSendError(t)
      <3>1. t \in Live /\ Peer(t) = t
        BY <2>4 DEF ThreadSendError, ThreadGoto, Live, HandOver
      <3>2. /\ UNCHANGED <<out, rcvd, sent, rd, buf, cpc>>
            /\ tpc[t] = "send" /\ tpc' = [tpc EXCEPT ![t] = "recv"]
            /\ \/ srv' = [srv EXCEPT ![t] = "dead"]
               \/ srv' = srv /\ srv[t] = "dead"
        BY <2>4, <3>1
        DEF ThreadSendError, NetSendError, ThreadGoto, netVars, clientVars
      <3>3. srv'[t] = "dead" /\ \A d \in Clients : d # t => srv'[d] = srv[d]
        BY <3>2, <1>0
      <3> QED  BY <3>2, <3>3, <1>0, <1>1
    <2>5. CASE ThreadSigPipe(t)
      BY <2>5, EndInStep DEF ThreadSigPipe
    <2>6. CASE ThreadClose(t)
      <3>1. t \in Live /\ Peer(t) = t
        BY <2>6 DEF ThreadClose, ThreadGoto, Live, HandOver
      <3>2. /\ UNCHANGED <<out, rcvd, sent, rd, buf, cpc>>
            /\ tpc' = [tpc EXCEPT ![t] = "done"]
            /\ srv' = [srv EXCEPT ![t] = "closed"]
        BY <2>6, <3>1
        DEF ThreadClose, ThreadGoto, CloseSocket, Peer, NetCloseServerEnd, clientVars
      <3> QED  BY <3>2, <1>0, <1>1
    <2> QED
      BY <1>3, <2>1, <2>2, <2>3, <2>4, <2>5, <2>6 DEF Thread
  <1>4. ASSUME NEW d \in Clients, Network(d)
        PROVE  InStepOf(c)' /\ OwnBytes(c)'
    <2>1. /\ UNCHANGED <<out, rcvd, sent, rd, buf, cpc, tpc>>
          /\ srv' = [srv EXCEPT ![d] = IF cli[d] = "fin" THEN "dead" ELSE "reset"]
      BY <1>4 DEF Network, NetRstArrives, clientVars, serverVars
    <2>2. srv'[c] = "open" => srv[c] = "open"
      BY <2>1, <1>0
    <2> QED  BY <2>1, <2>2, <1>0, <1>1
  <1> QED  BY <1>2, <1>3, <1>4

\* InStep and EchoIntegrity hold in every reachable state: what a connection
\* carries back is a beginning of what its own client has sent, byte for byte
\* (server.cpp:26-38).
THEOREM InStepCorrect == Spec => [](InStep /\ EchoIntegrity)
  <1>1. Init => InStep /\ EchoIntegrity
    BY InitInStep
  <1>2. TypeOK /\ TypeOK' /\ (HandOver /\ NoFdLeak) /\ (InStep /\ EchoIntegrity)
        /\ [Next]_vars => (InStep /\ EchoIntegrity)'
    <2> SUFFICES ASSUME TypeOK, TypeOK', HandOver, InStep, EchoIntegrity,
                        [Next]_vars, NEW c \in Clients
                 PROVE  InStepOf(c)' /\ OwnBytes(c)'
      BY DEF InStep, EchoIntegrity
    <2>0. InStepOf(c) /\ OwnBytes(c)
      BY DEF InStep, EchoIntegrity
    <2>1. CASE UNCHANGED vars
      BY <2>0, <2>1 DEF vars, netVars, clientVars, serverVars, InStepOf, OwnBytes,
                        Pending, Live
    <2>2. CASE Next
      BY <2>0, <2>2, ServerInStep, ClientInStep DEF Next
    <2> QED  BY <2>1, <2>2
  <1> QED  BY <1>1, <1>2, TypeCorrect, HandOverCorrect, PTL DEF Spec

\* No client ever gets a byte of another one, or one twice, or out of order.
THEOREM IntegrityCorrect == Spec => []EchoIntegrity
  BY InStepCorrect, PTL

\* Nothing that was received is swallowed while the connection stands.
THEOREM CompleteCorrect == Spec => []EchoComplete
  <1>1. InStep => EchoComplete
    BY DEF InStep, InStepOf, EchoComplete, Live
  <1> QED  BY <1>1, InStepCorrect, PTL

-----------------------------------------------------------------------------
(* The promise of EchoService.                                             *)

\* Sequences that agree on their first k elements have the same beginning.
LEMMA SamePrefix ==
  ASSUME NEW S, NEW s, NEW r, NEW k \in Nat,
         \A i \in 1 .. k : s[i] = r[i] /\ s[i] \in S
  PROVE  SubSeq(s, 1, k) = SubSeq(r, 1, k) /\ Len(SubSeq(s, 1, k)) = k
  <1>1. /\ SubSeq(s, 1, k) \in Seq(S)
        /\ Len(SubSeq(s, 1, k)) = k
        /\ \A i \in 1 .. k : SubSeq(s, 1, k)[i] = s[i]
    BY SubSeqProperties
  <1>2. /\ SubSeq(r, 1, k) \in Seq(S)
        /\ Len(SubSeq(r, 1, k)) = k
        /\ \A i \in 1 .. k : SubSeq(r, 1, k)[i] = r[i]
    BY SubSeqProperties
  <1> QED  BY <1>1, <1>2, SeqEqual

\* What a client has received is a beginning of its own message.
LEMMA GotPrefix ==
  ASSUME TypeOK, NEW c \in Clients, InStepOf(c), OwnBytes(c)
  PROVE  /\ Len(Got(c)) = rd[c] /\ rd[c] <= sent[c] /\ rd[c] \in Nat
         /\ Got(c) = SubSeq(Echo!Message(c), 1, rd[c])
  <1>1. /\ out[c] \in Seq(Byte) /\ Len(out[c]) \in Nat /\ rd[c] \in Nat
        /\ rcvd[c] \in Nat /\ sent[c] \in 0 .. MsgLen /\ MsgLen \in Nat
        /\ Len(buf[c]) \in Nat
    BY TcpAssumption DEF TypeOK, NetTypeOK
  <1>2. Pending(c) \in Nat
    BY <1>1 DEF Pending
  <1>3. rd[c] <= Len(out[c]) /\ Len(out[c]) <= rcvd[c] /\ rcvd[c] <= sent[c]
    BY <1>1, <1>2 DEF InStepOf
  <1>4. rd[c] <= sent[c] /\ rd[c] <= MsgLen
    BY <1>1, <1>3
  <1>5. ASSUME NEW i \in 1 .. rd[c]
        PROVE  out[c][i] = Echo!Message(c)[i] /\ out[c][i] \in Byte
    <2>1. i \in 1 .. MsgLen /\ i \in 1 .. Len(out[c])
      BY <1>1, <1>3, <1>4
    <2>2. out[c][i] = <<c, i>>
      BY <2>1 DEF OwnBytes
    <2>3. Echo!Message(c)[i] = <<c, i>> /\ <<c, i>> \in Byte
      BY <2>1 DEF Echo!Message, Byte
    <2> QED  BY <2>2, <2>3
  <1>6. /\ SubSeq(out[c], 1, rd[c]) = SubSeq(Echo!Message(c), 1, rd[c])
        /\ Len(SubSeq(out[c], 1, rd[c])) = rd[c]
    BY <1>1, <1>5, SamePrefix
  <1> QED  BY <1>1, <1>4, <1>6 DEF Got

\* The same, of all clients.
LEMMA GotPrefixes ==
  TypeOK /\ InStep /\ EchoIntegrity =>
    \A c \in Clients :
      /\ rd[c] \in Nat /\ rd[c] <= sent[c] /\ sent[c] \in Nat /\ sent[c] <= MsgLen
      /\ Len(Got(c)) = rd[c]
      /\ Got(c) = SubSeq(Echo!Message(c), 1, rd[c])
  <1> SUFFICES ASSUME TypeOK, InStep, EchoIntegrity, NEW c \in Clients
               PROVE  /\ rd[c] \in Nat /\ rd[c] <= sent[c]
                      /\ sent[c] \in Nat /\ sent[c] <= MsgLen
                      /\ Len(Got(c)) = rd[c]
                      /\ Got(c) = SubSeq(Echo!Message(c), 1, rd[c])
    OBVIOUS
  <1>1. InStepOf(c) /\ OwnBytes(c)
    BY DEF InStep, EchoIntegrity
  <1>2. sent[c] \in Nat /\ sent[c] <= MsgLen
    BY TcpAssumption DEF TypeOK, NetTypeOK
  <1> QED  BY <1>1, <1>2, GotPrefix

\* Only a client's own recv changes how much it has read, and only its own send
\* what it has said.
LEMMA SaidAndRead ==
  ASSUME TypeOK, InStep, [Next]_vars
  PROVE  \/ /\ sent' = sent
            /\ \/ rd' = rd
               \/ \E c \in Clients, n \in Nat \ {0} : rd' = [rd EXCEPT ![c] = @ + n]
         \/ /\ rd' = rd
            /\ \E c \in Clients : sent[c] = 0 /\ sent' = [sent EXCEPT ![c] = MsgLen]
  <1>1. CASE UNCHANGED vars
    BY <1>1 DEF vars, netVars
  <1>2. CASE Main
    BY <1>2 DEF Main, MainSocket, MainBind, MainListen, MainAccept,
      MainAcceptFails, MainRetry, SpawnThread, SpawnThreadThrows, ProcessEnds,
      NetListen, NetAccept, NetServerGone, netVars
  <1>3. ASSUME NEW t \in Clients, Thread(t) PROVE sent' = sent /\ rd' = rd
    BY <1>3 DEF Thread, ThreadRecv, ThreadRecvEof, ThreadRecvError, ThreadSend,
      ThreadSendError, ThreadSigPipe, ThreadClose, CloseSocket, ProcessEnds,
      NetRecv, NetRecvEof, NetRecvError, NetSend, NetSendError,
      NetCloseServerEnd, NetServerGone, netVars
  <1>4. ASSUME NEW c \in Clients, Network(c) PROVE sent' = sent /\ rd' = rd
    BY <1>4 DEF Network, NetRstArrives
  <1>5. CASE ClientMain
    BY <1>5 DEF ClientMain, StartJoin, AllClientsDone, netVars
  <1>6. ASSUME NEW c \in Clients,
               \/ SpawnClient(c) \/ ClientSocket(c) \/ ClientConnect(c)
               \/ ClientConnectFails(c) \/ ClientClose(c) \/ IdleLeaves(c)
        PROVE  sent' = sent /\ rd' = rd
    BY <1>6 DEF SpawnClient, ClientSocket, ClientConnect, ClientConnectFails,
      ClientClose, IdleLeaves, NetConnect, NetConnectError, NetClientClose, netVars
  <1>7. ASSUME NEW c \in Clients, ClientRecv(c)
        PROVE  /\ sent' = sent
               /\ \/ rd' = rd
                  \/ \E n \in Nat \ {0} : rd' = [rd EXCEPT ![c] = @ + n]
    <2>1. CASE NetClientRecvEnd(c)
      BY <2>1 DEF NetClientRecvEnd, netVars
    <2>2. ASSUME NEW n \in 1 .. MsgLen, NetClientRecv(c, n)
          PROVE  sent' = sent /\ n \in Nat \ {0} /\ rd' = [rd EXCEPT ![c] = @ + n]
      BY <2>2, TcpAssumption DEF NetClientRecv
    <2> QED  BY <1>7, <2>1, <2>2 DEF ClientRecv
  <1>8. ASSUME NEW c \in Clients, ClientSend(c)
        PROVE  /\ rd' = rd
               /\ \/ sent' = sent
                  \/ sent[c] = 0 /\ sent' = [sent EXCEPT ![c] = MsgLen]
    <2>1. /\ rd' = rd /\ cpc[c] = "send"
          /\ sent' = [sent EXCEPT ![c] = IF srv[c] = "closed" THEN @ ELSE MsgLen]
      BY <1>8 DEF ClientSend, ClientGoto, NetClientSend
    <2>2. sent[c] = 0 /\ sent \in [Clients -> 0 .. MsgLen]
      BY <2>1 DEF InStep, InStepOf, TypeOK, NetTypeOK
    <2> QED  BY <2>1, <2>2
  <1> QED
    BY <1>1, <1>2, <1>3, <1>4, <1>5, <1>6, <1>7, <1>8
    DEF Next, ClientsNext, ClientThread

\* The threaded server keeps the promise of an echo server: whatever the
\* interleaving of its threads, the segmentation of TCP, the reuse of
\* descriptors and the failures, a client hears a growing beginning of what it
\* has said, and nothing else ("原样回显", server.cpp:37).
THEOREM Refinement == Spec => Echo!Spec
  <1> DEFINE said == {c \in Clients : sent[c] > 0}
  <1> DEFINE heard == [c \in Clients |-> Got(c)]
  <1>1. Init => Echo!Init
    <2> SUFFICES ASSUME Init PROVE Echo!Init
      OBVIOUS
    <2>1. said = {}
      BY DEF Init, NetInit
    <2>2. \A c \in Clients : Got(c) = <<>>
      <3>1. SubSeq(<<>>, 1, 0) = <<>>
        BY SubSeqEmpty
      <3> QED  BY <3>1 DEF Init, NetInit, Got
    <2> QED  BY <2>1, <2>2 DEF Echo!Init
  <1>2. (TypeOK /\ InStep /\ EchoIntegrity =>
          \A c \in Clients :
            /\ rd[c] \in Nat /\ rd[c] <= sent[c] /\ sent[c] \in Nat /\ sent[c] <= MsgLen
            /\ Len(Got(c)) = rd[c]
            /\ Got(c) = SubSeq(Echo!Message(c), 1, rd[c]))'
    BY GotPrefixes, PTL
  <1>3. TypeOK /\ TypeOK' /\ (InStep /\ EchoIntegrity) /\ (InStep /\ EchoIntegrity)'
        /\ [Next]_vars => [Echo!Next]_<<said, heard>>
    <2> SUFFICES ASSUME TypeOK, TypeOK', InStep, InStep', EchoIntegrity,
                        EchoIntegrity', [Next]_vars
                 PROVE  Echo!Next \/ (said' = said /\ heard' = heard)
      OBVIOUS
    <2>1. \A c \in Clients :
            /\ rd[c] \in Nat /\ rd[c] <= sent[c] /\ sent[c] \in Nat
            /\ Len(Got(c)) = rd[c]
            /\ Got(c) = SubSeq(Echo!Message(c), 1, rd[c])
      BY GotPrefixes
    <2>2. \A c \in Clients :
            /\ rd'[c] \in Nat /\ rd'[c] <= sent'[c] /\ sent'[c] \in Nat
            /\ sent'[c] <= MsgLen
            /\ Got(c)' = SubSeq(Echo!Message(c), 1, rd'[c])
      BY <1>2
    <2>3. CASE sent' = sent /\ rd' = rd
      BY <2>1, <2>2, <2>3
    <2>4. ASSUME NEW c \in Clients, NEW n \in Nat \ {0},
                 sent' = sent, rd' = [rd EXCEPT ![c] = @ + n]
          PROVE  Echo!Hear(c)
      <3>1. rd'[c] = rd[c] + n /\ \A d \in Clients \ {c} : rd'[d] = rd[d]
        BY <2>4 DEF TypeOK, NetTypeOK
      <3>2. c \in said /\ said' = said
        BY <2>1, <2>2, <2>4, <3>1
      <3>3. heard' = [heard EXCEPT ![c] = SubSeq(Echo!Message(c), 1, rd'[c])]
        BY <2>1, <2>2, <3>1
      <3>4. rd'[c] \in (Len(heard[c]) + 1) .. MsgLen
        <4>1. /\ rd'[c] \in Nat /\ rd'[c] <= MsgLen /\ Len(heard[c]) = rd[c]
              /\ rd[c] \in Nat
          BY <2>1, <2>2, TcpAssumption
        <4> QED  BY <4>1, <3>1, TcpAssumption
      <3> QED  BY <3>2, <3>3, <3>4 DEF Echo!Hear
    <2>5. ASSUME NEW c \in Clients, rd' = rd,
                 sent[c] = 0, sent' = [sent EXCEPT ![c] = MsgLen]
          PROVE  Echo!Say(c)
      <3>1. sent'[c] > 0 /\ \A d \in Clients \ {c} : sent'[d] = sent[d]
        BY <2>5, TcpAssumption DEF TypeOK, NetTypeOK
      <3>2. c \notin said /\ said' = said \cup {c}
        BY <2>5, <3>1
      <3>3. heard' = heard
        BY <2>1, <2>2, <2>5
      <3> QED  BY <3>2, <3>3 DEF Echo!Say
    <2> QED
      BY <2>3, <2>4, <2>5, SaidAndRead DEF Echo!Next
  <1> QED
    BY <1>1, <1>3, TypeCorrect, InStepCorrect, PTL DEF Spec, Echo!Spec

=============================================================================
