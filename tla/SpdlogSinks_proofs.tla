-------------------------- MODULE SpdlogSinks_proofs --------------------------
(***************************************************************************)
(* What the parts of spdlog that SpdlogParts puts side by side keep, for   *)
(* every value of their constants.  The variables of the parts are         *)
(* declared here under their own names, so that each part is an instance   *)
(* of its module without further ado; N, C, S, G and A are called so in    *)
(* SpdlogParts too.                                                        *)
(***************************************************************************)
EXTENDS Integers, Sequences, TLAPS

CONSTANTS
  NetKinds, Addresses, Bytes, MaxRecs, MaxConns, MaxStarts,   \* NetSinks
  Threads, NoThread, Stream, Coloured, MaxLines,              \* ConsoleSinks
  Processes, Pieces, Capacity, ProcessLines,                  \* SharedLogFile
  Names, Levels, MaxCalls,                                    \* Registry
  ServiceKinds, Records, Retries, WidgetLines, QueueMax       \* SystemSinks

VARIABLES
  pc, kind, rec, thrown, windows, lines, buffer,              \* of several parts
  addr, socket, open, conns, sent, logged, winsock, starts,   \* NetSinks
  mutex, job, todo, screen, colour, saved, doColours,         \* ConsoleSinks
  rest, end, file, drained,                                   \* SharedLogFile
  objs, loggers, default, conf, globalLevel, logLevels, automatic, tp, pools,
  tpMutex, flusherMutex, flusher, workers, seen, calls, kept, released, named,
                                                              \* Registry
  life, fds, handle, tries, line, stored, torn, queue, blocks, returned
                                                              \* SystemSinks

N == INSTANCE NetSinks WITH Kinds <- NetKinds
C == INSTANCE ConsoleSinks
S == INSTANCE SharedLogFile WITH MaxLines <- ProcessLines
G == INSTANCE Registry WITH Users <- Threads, NoUser <- NoThread
A == INSTANCE SystemSinks WITH Kinds <- ServiceKinds, MaxLines <- WidgetLines

-----------------------------------------------------------------------------
(* The network sinks.                                                      *)
(*                                                                         *)
(* NetRecordsWhole is not inductive: what goes out next must fit behind    *)
(* what is there.  NetEnding says what the socket in use ends with,        *)
(* NetOlder that only it can have bytes of the record under way,           *)
(* NetBytesSent that it has all those that send() has gone past, and       *)
(* NetCalls when there is a socket at all.  A step gives bytes to the      *)
(* socket in use, opens one, begins a record or sends nothing (NetSteps);  *)
(* each case is one argument.                                              *)

\* What a call that is under way knows: connect() runs without a socket, send()
\* has one and bytes left, and a datagram is never half sent.
NetCalling == pc \in {"connect", "send"} /\ rec # 0

NetCalls ==
  /\ pc = "connect" => socket = 0 /\ rec \in {0, logged}
  /\ pc = "send" => socket # 0 /\ rec = logged /\ rec # 0 /\ sent < Bytes
  /\ pc = "connect" /\ rec # 0 => sent = 0
  /\ kind.udp => sent = 0

\* The socket in use is the last one made; it ends with the last byte of a
\* record, or with the byte that send() has come to.
NetEnding ==
  socket # 0 =>
    /\ socket = Len(conns)
    /\ pc = "send" /\ sent > 0 =>
         conns[socket] # <<>> /\ conns[socket][Len(conns[socket])] = <<rec, sent>>
    /\ ~(pc = "send" /\ sent > 0) =>
         (conns[socket] # <<>> => conns[socket][Len(conns[socket])][2] = Bytes)

\* Only the socket in use has bytes of the record that is sent.
NetOlder ==
  NetCalling =>
    \A k \in DOMAIN conns : \A n \in DOMAIN conns[k] :
      conns[k][n][1] < rec \/ (pc = "send" /\ sent > 0 /\ k = socket)

\* Every byte before the one send() has come to is on the socket in use.
NetBytesSent ==
  pc = "send" =>
    \A b \in 1 .. sent : \E n \in DOMAIN conns[socket] : conns[socket][n] = <<rec, b>>

NetInv == N!NetRecordsWhole /\ NetCalls /\ NetEnding /\ NetOlder /\ NetBytesSent

NetEntries == (1 .. logged) \X (1 .. Bytes)

NetGiven(n) ==
  conns' = [conns EXCEPT ![socket] = @ \o [k \in 1 .. n |-> <<rec, sent + k>>]]

-----------------------------------------------------------------------------
LEMMA NetTyping ==
  ASSUME N!NetAssumption, N!TypeOK
  PROVE  /\ kind \in [udp : BOOLEAN, windows : BOOLEAN, lazy : BOOLEAN]
         /\ Bytes \in Nat /\ Bytes >= 1
         /\ socket \in Nat /\ socket <= Len(conns) /\ Len(conns) \in Nat
         /\ DOMAIN conns = 1 .. Len(conns)
         /\ rec \in Nat /\ rec <= logged /\ sent \in Nat /\ sent <= Bytes /\ logged \in Nat
         /\ conns \in Seq(Seq(NetEntries))
         /\ open \subseteq Nat /\ 0 \notin open
BY DEF N!NetAssumption, N!TypeOK, NetEntries

LEMMA NetEntriesOf ==
  ASSUME N!NetAssumption, N!TypeOK
  PROVE  \A k \in DOMAIN conns :
           /\ conns[k] \in Seq(NetEntries) /\ Len(conns[k]) \in Nat
           /\ DOMAIN conns[k] = 1 .. Len(conns[k])
           /\ \A n \in DOMAIN conns[k] :
                /\ conns[k][n] = <<conns[k][n][1], conns[k][n][2]>>
                /\ conns[k][n][1] \in 1 .. logged /\ conns[k][n][2] \in 1 .. Bytes
<1> SUFFICES ASSUME NEW k \in DOMAIN conns
             PROVE  /\ conns[k] \in Seq(NetEntries) /\ Len(conns[k]) \in Nat
                    /\ DOMAIN conns[k] = 1 .. Len(conns[k])
                    /\ \A n \in DOMAIN conns[k] :
                         /\ conns[k][n] = <<conns[k][n][1], conns[k][n][2]>>
                         /\ conns[k][n][1] \in 1 .. logged /\ conns[k][n][2] \in 1 .. Bytes
  OBVIOUS
<1>1. conns \in Seq(Seq(NetEntries)) /\ DOMAIN conns = 1 .. Len(conns)
  BY NetTyping
<1>2. conns[k] \in Seq(NetEntries)
  BY <1>1
<1>3. Len(conns[k]) \in Nat /\ DOMAIN conns[k] = 1 .. Len(conns[k])
  BY <1>2
<1>4. ASSUME NEW n \in DOMAIN conns[k] PROVE conns[k][n] \in NetEntries
  BY <1>2, <1>3
<1>5. QED
  BY <1>2, <1>3, <1>4 DEF NetEntries

\* What send() and sendto() add is the next bytes of the record.
LEMMA NetGrown ==
  ASSUME N!NetAssumption, N!TypeOK, NetCalls, NetEnding, pc = "send",
         NEW n \in 1 .. Bytes - sent, NetGiven(n)
  PROVE  /\ socket \in DOMAIN conns
         /\ Len(conns') = Len(conns) /\ DOMAIN conns' = DOMAIN conns
         /\ \A k \in DOMAIN conns : k # socket => conns'[k] = conns[k]
         /\ Len(conns'[socket]) = Len(conns[socket]) + n
         /\ DOMAIN conns'[socket] = 1 .. Len(conns[socket]) + n
         /\ \A m \in 1 .. Len(conns[socket]) : conns'[socket][m] = conns[socket][m]
         /\ \A k \in 1 .. n : conns'[socket][Len(conns[socket]) + k] = <<rec, sent + k>>
         /\ conns' \in Seq(Seq(NetEntries))
<1> DEFINE c == conns[socket]
           d == [k \in 1 .. n |-> <<rec, sent + k>>]
<1>1. socket \in DOMAIN conns
  BY NetTyping DEF NetCalls
<1>2. c \in Seq(NetEntries) /\ Len(c) \in Nat /\ DOMAIN c = 1 .. Len(c)
  BY <1>1, NetEntriesOf
<1>3. n \in Nat /\ n >= 1 /\ sent + n <= Bytes /\ Bytes \in Nat /\ sent \in Nat
  BY NetTyping
<1>4. \A k \in 1 .. n : sent + k \in 1 .. Bytes
  BY <1>3
<1>5. rec \in 1 .. logged
  BY NetTyping DEF NetCalls
<1>6. \A k \in 1 .. n : <<rec, sent + k>> \in NetEntries
  BY <1>4, <1>5 DEF NetEntries
<1>7. d \in Seq(NetEntries) /\ Len(d) = n
  BY <1>3, <1>6
<1>8. \A k \in 1 .. n : d[k] = <<rec, sent + k>>
  OBVIOUS
<1>9. conns \in Seq(Seq(NetEntries)) /\ DOMAIN conns = 1 .. Len(conns) /\ Len(conns) \in Nat
  BY NetTyping
<1>10. conns' = [conns EXCEPT ![socket] = c \o d]
  BY <1>1, <1>9 DEF NetGiven
<1> HIDE DEF c, d
<1>11. c \o d \in Seq(NetEntries) /\ Len(c \o d) = Len(c) + n
  BY <1>2, <1>7
<1>12. \A m \in 1 .. Len(c) : (c \o d)[m] = c[m]
  BY <1>2, <1>3, <1>7
<1>13. \A k \in 1 .. n : (c \o d)[Len(c) + k] = <<rec, sent + k>>
  BY <1>2, <1>3, <1>7, <1>8
<1>14. conns'[socket] = c \o d /\ \A k \in DOMAIN conns : k # socket => conns'[k] = conns[k]
  BY <1>1, <1>9, <1>10
<1>15. conns' \in Seq(Seq(NetEntries)) /\ Len(conns') = Len(conns) /\ DOMAIN conns' = DOMAIN conns
  BY <1>1, <1>9, <1>10, <1>11
<1>16. DOMAIN (c \o d) = 1 .. Len(c) + n
  BY <1>11
<1>17. QED
  BY <1>1, <1>11, <1>12, <1>13, <1>14, <1>15, <1>16 DEF c

\* A new connection has nothing on it yet.
LEMMA NetOpened ==
  ASSUME N!NetAssumption, N!TypeOK, conns' = Append(conns, <<>>)
  PROVE  /\ Len(conns') = Len(conns) + 1 /\ DOMAIN conns' = 1 .. Len(conns) + 1
         /\ \A k \in DOMAIN conns : conns'[k] = conns[k]
         /\ conns'[Len(conns) + 1] = <<>> /\ DOMAIN conns'[Len(conns) + 1] = {}
         /\ conns' \in Seq(Seq(NetEntries))
<1>1. conns \in Seq(Seq(NetEntries)) /\ DOMAIN conns = 1 .. Len(conns) /\ Len(conns) \in Nat
  BY NetTyping
<1>2. <<>> \in Seq(NetEntries) /\ DOMAIN <<>> = {}
  OBVIOUS
<1>3. QED
  BY <1>1, <1>2

LEMMA NetFirstAddress ==
  ASSUME N!NetAssumption
  PROVE  1 \in Addresses
<1>1. PICK n \in Nat \ {0} : Addresses = 1 .. n
  BY DEF N!NetAssumption
<1>2. QED
  BY <1>1

\* A sequence of entries stays one when there are more records.
LEMMA NetMoreRecords ==
  ASSUME N!NetAssumption, N!TypeOK, logged' = logged + 1
  PROVE  conns \in Seq(Seq((1 .. logged') \X (1 .. Bytes)))
<1> DEFINE M == (1 .. logged') \X (1 .. Bytes)
<1>1. conns \in Seq(Seq(NetEntries)) /\ logged \in Nat
  BY NetTyping
<1>2. NetEntries \subseteq M
  BY <1>1 DEF NetEntries
<1> HIDE DEF M
<1>3. \A k \in 1 .. Len(conns) : conns[k] \in Seq(NetEntries)
  BY <1>1
<1>4. \A k \in 1 .. Len(conns) : conns[k] \in Seq(M)
  <2> SUFFICES ASSUME NEW k \in 1 .. Len(conns) PROVE conns[k] \in Seq(M)
    OBVIOUS
  <2>1. conns[k] \in Seq(NetEntries)
    BY <1>3
  <2>2. QED
    BY <2>1, <1>2
<1>5. conns \in Seq(Seq(M))
  BY <1>1, <1>4
<1>6. QED
  BY <1>5 DEF M

-----------------------------------------------------------------------------
(* The parts of the invariant, one action after the other.                 *)

LEMMA NetInitInv ==
  ASSUME N!NetAssumption, N!Init
  PROVE  NetInv
<1>1. N!TypeOK
  <2>1. 1 \in Addresses
    BY NetFirstAddress
  <2>2. conns \in Seq(Seq((1 .. logged) \X (1 .. Bytes)))
    BY DEF N!Init
  <2>3. Len(conns) = 0
    BY DEF N!Init
  <2>4. QED
    BY <2>1, <2>2, <2>3 DEF N!TypeOK, N!Init, N!NetAssumption
<1>2. DOMAIN conns = {}
  BY DEF N!Init
<1>3. N!WholeRecords /\ NetOlder /\ NetBytesSent
  BY <1>2 DEF N!WholeRecords, NetOlder, NetBytesSent, N!Init, NetCalling
<1>4. N!ReturnedWhole /\ N!OneSocket /\ N!WinsockPaired
  BY DEF N!ReturnedWhole, N!OneSocket, N!WinsockPaired, N!Init
<1>5. NetCalls /\ NetEnding
  BY DEF NetCalls, NetEnding, N!Init
<1>6. QED
  BY <1>1, <1>3, <1>4, <1>5 DEF NetInv, N!NetRecordsWhole

LEMMA NetTypeStep ==
  ASSUME N!NetAssumption, NetInv, [N!Next]_N!vars
  PROVE  N!TypeOK'
<1> USE DEF NetInv, N!NetRecordsWhole
<1>1. /\ kind \in [udp : BOOLEAN, windows : BOOLEAN, lazy : BOOLEAN]
      /\ Bytes \in Nat /\ Bytes >= 1 /\ Len(conns) \in Nat
      /\ socket \in Nat /\ socket <= Len(conns) /\ rec \in Nat /\ rec <= logged
      /\ sent \in Nat /\ sent <= Bytes /\ logged \in Nat
  BY NetTyping
<1>2. 1 \in Addresses /\ MaxRecs \in Nat /\ MaxStarts \in Nat
  BY NetFirstAddress DEF N!NetAssumption
<1>3. winsock' \in {0, 1} /\ (pc = "none" /\ N!StartWinsock => winsock' \in {0, 1})
  <2>1. CASE UNCHANGED winsock
    BY <2>1, <1>1 DEF N!TypeOK, N!StartWinsock, N!WinsockPaired
  <2>2. CASE pc = "none" /\ N!StartWinsock
    BY <2>2, <1>1 DEF N!WinsockPaired, N!StartWinsock
  <2>3. CASE pc # "none" /\ N!CleanUp
    BY <2>3, <1>1 DEF N!WinsockPaired, N!CleanUp
  <2>4. QED
    BY <2>1, <2>2, <2>3 DEF N!Next, N!vars, N!TcpStart, N!UdpStart, N!UdpStartWindows, N!Destroy, N!SinkIt,
       N!ResolveFails, N!ConnectSocket, N!ConnectFails, N!Send, N!SendFails, N!SendTo, N!SendToFails,
       N!Throw, N!Return, N!Connected, N!NextAddress
<1>4. pc' \in {"none", "idle", "connect", "send"}
  BY DEF N!Next, N!vars, N!TcpStart, N!UdpStart, N!UdpStartWindows, N!UdpSocket, N!Destroy, N!SinkIt,
       N!ResolveFails, N!ConnectSocket, N!ConnectFails, N!Send, N!SendFails, N!SendTo, N!SendToFails,
       N!Throw, N!Return, N!Connected, N!NextAddress, N!TypeOK
<1>5. thrown' = thrown \/ thrown' = thrown \cup ({rec} \ {0})
  BY DEF N!Next, N!vars, N!TcpStart, N!UdpStart, N!UdpStartWindows, N!Destroy, N!SinkIt, N!callVars,
       N!ResolveFails, N!ConnectSocket, N!ConnectFails, N!Send, N!SendFails, N!SendTo, N!SendToFails,
       N!Throw, N!Return, N!Connected, N!NextAddress
<1>6. addr' \in Addresses
  BY <1>2 DEF N!Next, N!vars, N!TcpStart, N!UdpStart, N!UdpStartWindows, N!Destroy, N!SinkIt,
       N!ResolveFails, N!ConnectSocket, N!ConnectFails, N!Send, N!SendFails, N!SendTo, N!SendToFails,
       N!NextAddress, N!TypeOK
<1>7. kind' \in NetKinds
  BY DEF N!Next, N!vars, N!TcpStart, N!UdpStart, N!UdpStartWindows, N!Destroy, N!SinkIt,
       N!ResolveFails, N!ConnectSocket, N!ConnectFails, N!Send, N!SendFails, N!SendTo, N!SendToFails, N!TypeOK
<1>8. starts' \in 0 .. MaxStarts
  BY <1>2 DEF N!Next, N!vars, N!TcpStart, N!UdpStart, N!UdpStartWindows, N!Destroy, N!SinkIt,
       N!ResolveFails, N!ConnectSocket, N!ConnectFails, N!Send, N!SendFails, N!SendTo, N!SendToFails, N!TypeOK
<1>9. /\ logged' \in 0 .. MaxRecs /\ logged' >= logged
      /\ rec' \in 0 .. logged' /\ sent' \in 0 .. Bytes
  <2>1. logged' \in 0 .. MaxRecs /\ logged' >= logged
    BY <1>1, <1>2 DEF N!Next, N!vars, N!TcpStart, N!UdpStart, N!UdpStartWindows, N!Destroy, N!SinkIt,
         N!ResolveFails, N!ConnectSocket, N!ConnectFails, N!Send, N!SendFails, N!SendTo,
         N!SendToFails, N!TypeOK, N!callVars
  <2>2. rec' \in 0 .. logged'
    BY <1>1, <1>2 DEF N!Next, N!vars, N!TcpStart, N!UdpStart, N!UdpStartWindows, N!Destroy, N!SinkIt,
         N!ResolveFails, N!ConnectSocket, N!ConnectFails, N!Send, N!SendFails, N!SendTo,
         N!SendToFails, N!TypeOK, N!callVars
  <2>3. sent' \in 0 .. Bytes
    BY <1>1, <1>2 DEF N!Next, N!vars, N!TcpStart, N!UdpStart, N!UdpStartWindows, N!Destroy, N!SinkIt,
         N!ResolveFails, N!ConnectSocket, N!ConnectFails, N!Send, N!SendFails, N!SendTo,
         N!SendToFails, N!TypeOK, N!callVars
  <2>4. QED
    BY <2>1, <2>2, <2>3
<1>10. thrown' \subseteq 1 .. logged'
  <2>1. logged' \in Nat /\ thrown \subseteq 1 .. logged
    BY <1>9, <1>2 DEF N!TypeOK
  <2>2. ({rec} \ {0}) \subseteq 1 .. logged' /\ thrown \subseteq 1 .. logged'
    BY <1>1, <1>9, <2>1
  <2>3. QED
    BY <1>5, <2>2
<1>11. /\ conns' \in Seq(Seq((1 .. logged') \X (1 .. Bytes)))
       /\ socket' \in 0 .. Len(conns') /\ open' \subseteq 1 .. Len(conns')
  <2>1. CASE conns' = conns /\ logged' = logged /\ socket' \in {0, socket} /\ open' \subseteq open
    BY <2>1, <1>1 DEF N!TypeOK
  <2>2. CASE conns' = Append(conns, <<>>) /\ logged' = logged /\ socket' = Len(conns')
             /\ open' = open \cup {socket'}
    <3>1. Len(conns') = Len(conns) + 1 /\ conns' \in Seq(Seq(NetEntries))
      BY <2>2, NetOpened
    <3>2. open \subseteq 1 .. Len(conns) + 1
      BY <1>1 DEF N!TypeOK
    <3> DEFINE l == Len(conns)
               m == Len(conns')
    <3> HIDE DEF l, m
    <3>6. m = l + 1 /\ l \in Nat /\ socket' = m /\ open' = open \cup {m} /\ open \subseteq 1 .. l + 1
      BY <1>1, <2>2, <3>1, <3>2 DEF l, m
    <3>7. socket' \in 0 .. m /\ open' \subseteq 1 .. m
      BY <3>6
    <3>3. socket' \in 0 .. Len(conns') /\ open' \subseteq 1 .. Len(conns')
      BY <3>7 DEF m
    <3>4. conns' \in Seq(Seq((1 .. logged') \X (1 .. Bytes)))
      BY <2>2, <3>1 DEF NetEntries
    <3>5. QED
      BY <3>3, <3>4
  <2>3. CASE N!SinkIt
    <3>1. conns \in Seq(Seq((1 .. logged') \X (1 .. Bytes)))
      BY <2>3, NetMoreRecords DEF N!SinkIt
    <3>2. conns' = conns /\ socket' = socket /\ open' = open
      BY <2>3 DEF N!SinkIt, N!sockVars
    <3>3. QED
      BY <3>1, <3>2 DEF N!TypeOK
  <2>4. ASSUME NEW n \in 1 .. Bytes - sent, NetGiven(n), pc = "send", logged' = logged,
               socket' = socket, open' = open
        PROVE  /\ conns' \in Seq(Seq((1 .. logged') \X (1 .. Bytes)))
               /\ socket' \in 0 .. Len(conns') /\ open' \subseteq 1 .. Len(conns')
    <3>1. Len(conns') = Len(conns) /\ conns' \in Seq(Seq(NetEntries))
      BY <2>4, NetGrown
    <3>2. QED
      BY <3>1, <2>4 DEF NetEntries, N!TypeOK
  <2>5. CASE N!Send
    BY <2>4, <2>5 DEF N!Send, NetGiven
  <2>6. CASE N!SendTo
    <3>1. sent = 0 /\ Bytes \in 1 .. Bytes - sent
      BY <2>6, <1>1 DEF N!SendTo, NetCalls
    <3>2. \A k \in 1 .. Bytes : sent + k = k
      BY <3>1
    <3>3. NetGiven(Bytes)
      BY <2>6, <3>2 DEF N!SendTo, NetGiven
    <3>4. QED
      BY <2>4, <2>6, <3>1, <3>3 DEF N!SendTo
  <2>7. QED
    BY <2>1, <2>2, <2>3, <2>5, <2>6 DEF N!Next, N!vars, N!TcpStart, N!UdpStart, N!UdpStartWindows,
       N!UdpSocket, N!Destroy, N!ResolveFails, N!ConnectSocket, N!ConnectFails, N!SendFails,
       N!SendToFails, N!sockVars, N!callVars
<1>12. QED
  BY <1>3, <1>4, <1>6, <1>7, <1>8, <1>9, <1>10, <1>11 DEF N!TypeOK

LEMMA NetCallsStep ==
  ASSUME N!NetAssumption, NetInv, [N!Next]_N!vars
  PROVE  NetCalls'
<1> USE DEF NetInv, N!NetRecordsWhole
<1>1. /\ kind \in [udp : BOOLEAN, windows : BOOLEAN, lazy : BOOLEAN]
      /\ Bytes \in Nat /\ Bytes >= 1 /\ Len(conns) \in Nat
      /\ socket \in Nat /\ socket <= Len(conns) /\ rec \in Nat /\ rec <= logged
      /\ sent \in Nat /\ sent <= Bytes /\ logged \in Nat
  BY NetTyping
<1>2. kind' = kind
  BY DEF N!Next, N!vars, N!TcpStart, N!UdpStart, N!UdpStartWindows, N!Destroy, N!SinkIt,
       N!ResolveFails, N!ConnectSocket, N!ConnectFails, N!Send, N!SendFails, N!SendTo, N!SendToFails
<1>3. kind'.udp => sent' = 0
  BY <1>2 DEF N!Next, N!vars, N!TcpStart, N!UdpStart, N!UdpStartWindows, N!Destroy, N!SinkIt, NetCalls,
       N!ResolveFails, N!ConnectSocket, N!ConnectFails, N!Send, N!SendFails, N!SendTo, N!SendToFails, N!callVars
<1>4. pc' = "connect" =>
         socket' = 0 /\ rec' \in {0, logged'} /\ (rec' # 0 => sent' = 0)
  <2>1. CASE N!TcpStart
    BY <2>1 DEF N!TcpStart, N!OneSocket, N!sockVars
  <2>2. CASE N!SinkIt
    BY <2>2, <1>1 DEF N!SinkIt, N!sockVars
  <2>3. CASE N!ConnectFails \/ N!ResolveFails
    BY <2>3 DEF N!ConnectFails, N!ResolveFails, N!NextAddress, N!Throw, NetCalls, N!sockVars
  <2>4. CASE N!Send
    BY <2>4 DEF N!Send, N!Return
  <2>5. CASE UNCHANGED N!vars
    BY <2>5 DEF N!vars, N!sockVars, N!callVars, NetCalls
  <2>6. CASE N!UdpStart \/ N!UdpStartWindows \/ N!Destroy
    BY <2>6 DEF N!UdpStart, N!UdpStartWindows, N!UdpSocket, N!Destroy
  <2>7. CASE N!ConnectSocket \/ N!SendFails \/ N!SendTo \/ N!SendToFails
    BY <2>7 DEF N!ConnectSocket, N!Connected, N!Return, N!SendFails, N!SendTo, N!SendToFails, N!Throw
  <2>8. QED
    BY <2>1, <2>2, <2>3, <2>4, <2>5, <2>6, <2>7 DEF N!Next
<1>5. pc' = "send" =>
         socket' # 0 /\ rec' = logged' /\ rec' # 0 /\ sent' < Bytes
  <2>1. CASE N!SinkIt
    BY <2>1, <1>1 DEF N!SinkIt, N!sockVars
  <2>2. CASE N!ConnectSocket
    <3>1. conns' = Append(conns, <<>>) /\ socket' = Len(conns')
      BY <2>2 DEF N!ConnectSocket
    <3>2. socket' # 0
      BY <3>1, <1>1, NetOpened
    <3>3. ASSUME pc' = "send" PROVE rec # 0
      BY <2>2, <3>3 DEF N!ConnectSocket, N!Connected, N!Return
    <3>4. QED
      BY <2>2, <3>2, <3>3, <1>1 DEF N!ConnectSocket, NetCalls
  <2>3. CASE N!Send
    <3>1. /\ socket' = socket /\ rec' = rec /\ logged' = logged
          /\ \E n \in 1 .. Bytes - sent :
               sent' = sent + n /\ (sent' = Bytes => pc' = "idle")
      BY <2>3 DEF N!Send, N!Return
    <3>2. QED
      BY <2>3, <3>1, <1>1 DEF N!Send, NetCalls
  <2>4. CASE UNCHANGED N!vars
    BY <2>4 DEF N!vars, N!sockVars, N!callVars, NetCalls
  <2>5. CASE N!TcpStart \/ N!UdpStart \/ N!UdpStartWindows \/ N!Destroy
    BY <2>5 DEF N!TcpStart, N!UdpStart, N!UdpStartWindows, N!UdpSocket, N!Destroy
  <2>6. CASE N!ResolveFails \/ N!ConnectFails \/ N!SendFails \/ N!SendTo \/ N!SendToFails
    BY <2>6 DEF N!ResolveFails, N!ConnectFails, N!NextAddress, N!Return, N!SendFails, N!SendTo, N!SendToFails,
       N!Throw
  <2>7. QED
    BY <2>1, <2>2, <2>3, <2>4, <2>5, <2>6 DEF N!Next
<1>6. QED
  BY <1>3, <1>4, <1>5 DEF NetCalls

LEMMA NetSocketStep ==
  ASSUME N!NetAssumption, NetInv, [N!Next]_N!vars
  PROVE  N!OneSocket' /\ N!WinsockPaired'
<1> USE DEF NetInv, N!NetRecordsWhole
<1>1. /\ kind \in [udp : BOOLEAN, windows : BOOLEAN, lazy : BOOLEAN]
      /\ Len(conns) \in Nat
  BY NetTyping
<1>2. kind' = kind
  BY DEF N!Next, N!vars, N!TcpStart, N!UdpStart, N!UdpStartWindows, N!Destroy, N!SinkIt,
       N!ResolveFails, N!ConnectSocket, N!ConnectFails, N!Send, N!SendFails, N!SendTo, N!SendToFails
<1>3. CASE conns' = Append(conns, <<>>)
    /\ socket' = Len(conns') /\ open' = open \cup {socket'}
    /\ pc' # "none" /\ socket = 0 /\ pc # "none" /\ winsock' = winsock
  <2>1. socket' # 0
    BY <1>3, <1>1, NetOpened
  <2>2. QED
    BY <1>2, <1>3, <2>1 DEF N!OneSocket, N!WinsockPaired
<1>4. CASE N!UdpStart \/ N!UdpStartWindows
  <2>1. CASE N!UdpSocket
    <3>1. socket' # 0 /\ open' = open \cup {socket'} /\ pc' = "idle"
      BY <2>1, <1>1, NetOpened DEF N!UdpSocket
    <3>2. open' = {socket'} \ {0}
      BY <1>4, <3>1 DEF N!UdpStart, N!UdpStartWindows, N!OneSocket
    <3>3. CASE N!UdpStart
      BY <1>1, <1>2, <3>1, <3>2, <3>3 DEF N!UdpStart, N!OneSocket, N!WinsockPaired
    <3>4. CASE N!UdpStartWindows
      BY <1>1, <1>2, <3>1, <3>2, <3>4
         DEF N!UdpStartWindows, N!OneSocket, N!WinsockPaired, N!StartWinsock
    <3>5. QED
      BY <1>4, <3>3, <3>4
  <2>2. CASE UNCHANGED <<N!sockVars, pc, winsock>>
    BY <1>2, <2>2 DEF N!sockVars, N!OneSocket, N!WinsockPaired
  <2>3. QED
    BY <1>4, <2>1, <2>2 DEF N!UdpStart, N!UdpStartWindows
<1>5. CASE N!TcpStart
  BY <1>1, <1>2, <1>5 DEF N!TcpStart, N!sockVars, N!OneSocket, N!WinsockPaired, N!StartWinsock
<1>6. CASE N!Destroy
  BY <1>1, <1>2, <1>6 DEF N!Destroy, N!sockVars, N!OneSocket, N!WinsockPaired, N!CleanUp
<1>7. CASE N!SinkIt
  BY <1>1, <1>2, <1>7 DEF N!SinkIt, N!sockVars, N!OneSocket, N!WinsockPaired
<1>8. CASE N!ResolveFails \/ N!ConnectFails
  BY <1>1, <1>2, <1>8 DEF N!ResolveFails, N!ConnectFails, N!NextAddress, N!Throw, N!CleanUp, N!sockVars,
     N!OneSocket, N!WinsockPaired, NetCalls
<1>9. CASE N!ConnectSocket
  <2>1. pc' # "none" /\ winsock' = winsock
    BY <1>9 DEF N!ConnectSocket, N!Connected, N!Return
  <2>2. QED
    BY <1>3, <1>9, <2>1 DEF N!ConnectSocket, NetCalls
<1>10. CASE N!Send \/ N!SendTo
  BY <1>1, <1>2, <1>10 DEF N!Send, N!SendTo, N!Return, N!OneSocket, N!WinsockPaired
<1>11. CASE N!SendFails \/ N!SendToFails
  BY <1>1, <1>2, <1>11 DEF N!SendFails, N!SendToFails, N!Throw, N!sockVars, N!OneSocket, N!WinsockPaired,
     NetCalls
<1>12. CASE UNCHANGED N!vars
  BY <1>12 DEF N!vars, N!sockVars, N!OneSocket, N!WinsockPaired
<1>13. QED
  BY <1>4, <1>5, <1>6, <1>7, <1>8, <1>9, <1>10, <1>11, <1>12 DEF N!Next

-----------------------------------------------------------------------------
(* The steps by what they do to the connections and to the record sent.    *)

\* n bytes more go out.
NetGives(n) ==
  /\ pc = "send" /\ NetGiven(n) /\ UNCHANGED <<socket, rec, logged, thrown>>
  /\ \/ pc' = "idle" /\ sent + n = Bytes
     \/ pc' = "send" /\ sent + n < Bytes /\ sent' = sent + n

\* A socket is made, by a constructor or for the record that waits.
NetOpens ==
  /\ conns' = Append(conns, <<>>) /\ socket' = Len(conns')
  /\ UNCHANGED <<logged, thrown>>
  /\ \/ pc' = "idle" /\ ~NetCalling
     \/ pc = "connect" /\ pc' = "send" /\ UNCHANGED <<rec, sent>> /\ rec # 0

\* The next record.
NetBegins ==
  /\ pc = "idle" /\ logged' = logged + 1 /\ rec' = logged' /\ sent' = 0
  /\ \/ socket = 0 /\ pc' = "connect"
     \/ socket # 0 /\ pc' = "send"
  /\ UNCHANGED <<conns, socket, thrown>>

\* Nothing is sent, and a record that is given up is one whose call throws.
NetRests ==
  /\ UNCHANGED <<conns, logged>>
  /\ socket' \in {0, socket} /\ thrown \subseteq thrown'
  /\ \/ UNCHANGED <<pc, rec, sent, socket>>
     \/ /\ ~NetCalling' /\ pc' # "send"
        /\ NetCalling => rec \in thrown'
        /\ pc = "send" /\ sent > 0 => socket' = 0

LEMMA NetSteps ==
  ASSUME N!NetAssumption, NetInv, [N!Next]_N!vars
  PROVE  (\E n \in 1 .. Bytes - sent : NetGives(n)) \/ NetOpens \/ NetBegins \/ NetRests
<1> USE DEF NetInv, N!NetRecordsWhole
<1>1. /\ kind \in [udp : BOOLEAN, windows : BOOLEAN, lazy : BOOLEAN]
      /\ Bytes \in Nat /\ Bytes >= 1
      /\ sent \in Nat /\ sent <= Bytes
  BY NetTyping
<1>2. CASE N!TcpStart
  <2>1. ~NetCalling /\ ~NetCalling' /\ pc' # "send"
    BY <1>2 DEF N!TcpStart, NetCalling
  <2>2. QED
    BY <1>2, <2>1 DEF N!TcpStart, NetRests, N!sockVars
<1>3. CASE N!UdpStart \/ N!UdpStartWindows
  <2>1. ~NetCalling /\ rec' = 0 /\ ~NetCalling' /\ UNCHANGED <<logged, thrown>> /\ pc # "send"
    BY <1>3 DEF N!UdpStart, N!UdpStartWindows, NetCalling
  <2>2. CASE N!UdpSocket
    BY <2>1, <2>2 DEF N!UdpSocket, NetOpens
  <2>3. CASE UNCHANGED <<N!sockVars, pc>>
    BY <2>1, <2>3 DEF N!sockVars, NetRests
  <2>4. QED
    BY <1>3, <2>2, <2>3 DEF N!UdpStart, N!UdpStartWindows
<1>4. CASE N!Destroy
  <2>1. ~NetCalling /\ ~NetCalling' /\ pc' # "send"
    BY <1>4 DEF N!Destroy, NetCalling
  <2>2. QED
    BY <1>4, <2>1 DEF N!Destroy, NetRests, N!callVars
<1>5. CASE N!SinkIt
  BY <1>5 DEF N!SinkIt, NetBegins, N!sockVars
<1>6. CASE N!ResolveFails \/ (N!ConnectFails /\ N!Throw)
  <2>1. /\ ~NetCalling' /\ pc' # "send" /\ (NetCalling => rec \in thrown') /\ thrown \subseteq thrown'
        /\ UNCHANGED <<conns, logged, socket>> /\ pc # "send"
    BY <1>6 DEF N!ResolveFails, N!ConnectFails, N!Throw, NetCalling, N!sockVars
  <2>2. QED
    BY <2>1 DEF NetRests
<1>7. CASE N!ConnectFails /\ ~N!Throw
  BY <1>7 DEF N!ConnectFails, N!NextAddress, N!sockVars, NetRests
<1>8. CASE N!ConnectSocket
  BY <1>8 DEF N!ConnectSocket, N!Connected, N!Return, NetOpens, NetCalling
<1>9. CASE N!Send
  <2>1. PICK n \in 1 .. Bytes - sent :
          /\ conns' = [conns EXCEPT ![socket] = @ \o [k \in 1 .. n |-> <<rec, sent + k>>]]
          /\ sent' = sent + n
          /\ IF sent' = Bytes THEN N!Return ELSE UNCHANGED <<pc, thrown, winsock>>
    BY <1>9 DEF N!Send
  <2>2. NetGiven(n)
    BY <2>1 DEF NetGiven
  <2>3. pc = "send" /\ UNCHANGED <<socket, rec, logged, thrown>>
    BY <1>9, <2>1 DEF N!Send, N!Return
  <2>4. n \in Nat /\ sent + n <= Bytes
    BY <1>1
  <2>5. \/ pc' = "idle" /\ sent + n = Bytes
        \/ pc' = "send" /\ sent + n < Bytes /\ sent' = sent + n
    BY <1>1, <2>1, <2>3, <2>4 DEF N!Return
  <2>6. QED
    BY <2>2, <2>3, <2>5 DEF NetGives
<1>10. CASE N!SendTo
  <2>1. sent = 0 /\ Bytes \in 1 .. Bytes - sent
    BY <1>10, <1>1 DEF N!SendTo, NetCalls
  <2>2. \A k \in 1 .. Bytes : sent + k = k
    BY <2>1
  <2>3. NetGiven(Bytes)
    BY <1>10, <2>2 DEF N!SendTo, NetGiven
  <2>4. NetGives(Bytes)
    BY <1>1, <1>10, <2>1, <2>3 DEF N!SendTo, NetGives, N!Return
  <2>5. QED
    BY <2>1, <2>4
<1>11. CASE N!SendFails \/ N!SendToFails
  <2>1. /\ pc = "send" /\ rec # 0 /\ ~NetCalling' /\ pc' # "send" /\ rec \in thrown'
        /\ thrown \subseteq thrown' /\ UNCHANGED <<conns, logged>>
    BY <1>11 DEF N!SendFails, N!SendToFails, N!Throw, NetCalling, NetCalls, N!sockVars
  <2>2. socket' \in {0, socket} /\ (sent > 0 => socket' = 0)
    BY <1>11 DEF N!SendFails, N!SendToFails, NetCalls, N!sockVars
  <2>3. QED
    BY <2>1, <2>2 DEF NetRests
<1>12. CASE UNCHANGED N!vars
  BY <1>12 DEF N!vars, N!sockVars, N!callVars, NetRests
<1>13. QED
  BY <1>2, <1>3, <1>4, <1>5, <1>6, <1>7, <1>8, <1>9, <1>10, <1>11, <1>12 DEF N!Next

LEMMA NetEndingStep ==
  ASSUME N!NetAssumption, NetInv, [N!Next]_N!vars
  PROVE  NetEnding'
<1> USE DEF NetInv, N!NetRecordsWhole
<1>1. /\ Bytes \in Nat /\ Bytes >= 1 /\ Len(conns) \in Nat
      /\ socket \in Nat /\ sent \in Nat /\ sent <= Bytes
  BY NetTyping
<1>2. ASSUME NEW n \in 1 .. Bytes - sent, NetGives(n) PROVE NetEnding'
  <2> DEFINE l == Len(conns[socket])
  <2>1. /\ socket \in DOMAIN conns /\ Len(conns') = Len(conns)
        /\ Len(conns'[socket]) = l + n /\ DOMAIN conns'[socket] = 1 .. l + n
        /\ \A k \in 1 .. n : conns'[socket][l + k] = <<rec, sent + k>>
    BY <1>2, NetGrown DEF NetGives
  <2>2. l \in Nat
    BY <2>1, NetEntriesOf
  <2> HIDE DEF l
  <2>3. n \in Nat /\ n >= 1
    BY <1>1
  <2>4. conns'[socket][l + n] = <<rec, sent + n>>
    BY <2>1, <2>3
  <2>5. conns'[socket] # <<>>
    BY <2>1, <2>2, <2>3
  <2>6. socket' = socket /\ socket = Len(conns') /\ rec' = rec
    BY <1>2, <2>1 DEF NetGives, NetEnding, NetCalls
  <2>7. CASE pc' = "idle" /\ sent + n = Bytes
    BY <2>1, <2>4, <2>5, <2>6, <2>7 DEF NetEnding
  <2>8. CASE pc' = "send" /\ sent + n < Bytes /\ sent' = sent + n
    <3>1. sent' > 0
      BY <1>1, <2>3, <2>8
    <3>2. QED
      BY <2>1, <2>4, <2>5, <2>6, <2>8, <3>1 DEF NetEnding
  <2>9. QED
    BY <1>2, <2>7, <2>8 DEF NetGives
<1>3. CASE NetOpens
  <2>1. socket' = Len(conns') /\ conns'[socket'] = <<>>
    BY <1>3, NetOpened DEF NetOpens
  <2>2. pc' = "send" => sent' = 0
    BY <1>3 DEF NetOpens, NetCalls
  <2>3. ~(pc' = "send" /\ sent' > 0)
    BY <2>2
  <2>4. QED
    BY <2>1, <2>3 DEF NetEnding
<1>4. CASE NetBegins
  <2>1. ~(pc = "send" /\ sent > 0) /\ ~(pc' = "send" /\ sent' > 0)
    BY <1>4 DEF NetBegins
  <2>2. QED
    BY <1>4, <2>1 DEF NetBegins, NetEnding
<1>5. CASE NetRests
  <2>1. CASE UNCHANGED <<pc, rec, sent, socket>>
    BY <1>5, <2>1 DEF NetRests, NetEnding
  <2>2. CASE pc' # "send" /\ (pc = "send" /\ sent > 0 => socket' = 0)
    BY <1>5, <2>2 DEF NetRests, NetEnding
  <2>3. QED
    BY <1>5, <2>1, <2>2 DEF NetRests
<1>6. QED
  BY <1>2, <1>3, <1>4, <1>5, NetSteps

LEMMA NetOlderStep ==
  ASSUME N!NetAssumption, NetInv, [N!Next]_N!vars
  PROVE  NetOlder'
<1> USE DEF NetInv, N!NetRecordsWhole
<1>1. /\ Bytes \in Nat /\ Len(conns) \in Nat /\ DOMAIN conns = 1 .. Len(conns)
      /\ sent \in Nat /\ rec \in Nat /\ logged \in Nat
  BY NetTyping
<1>2. ASSUME NEW n \in 1 .. Bytes - sent, NetGives(n) PROVE NetOlder'
  <2> SUFFICES ASSUME NetCalling', NEW k \in DOMAIN conns', NEW m \in DOMAIN conns'[k]
               PROVE  (conns'[k][m][1] < rec' \/ (pc' = "send" /\ sent' > 0 /\ k = socket'))
    BY DEF NetOlder
  <2>1. pc' = "send" /\ sent' = sent + n /\ socket' = socket /\ rec' = rec /\ NetCalling
    BY <1>2 DEF NetGives, NetCalling, NetCalls
  <2>2. sent' > 0
    BY <1>1, <2>1
  <2>3. CASE k # socket
    <3>1. k \in DOMAIN conns /\ conns'[k] = conns[k]
      BY <1>2, <2>3, NetGrown DEF NetGives
    <3>2. QED
      BY <2>1, <2>3, <3>1 DEF NetOlder
  <2>4. QED
    BY <2>1, <2>2, <2>3
<1>3. CASE NetOpens
  <2> SUFFICES ASSUME NetCalling', NEW k \in DOMAIN conns', NEW m \in DOMAIN conns'[k]
               PROVE  conns'[k][m][1] < rec'
    BY DEF NetOlder
  <2>1. pc = "connect" /\ NetCalling /\ rec' = rec
    BY <1>3 DEF NetOpens, NetCalling
  <2>2. k \in DOMAIN conns /\ conns'[k] = conns[k]
    BY <1>1, <1>3, NetOpened DEF NetOpens
  <2>3. QED
    BY <2>1, <2>2 DEF NetOlder
<1>4. CASE NetBegins
  <2> SUFFICES ASSUME NEW k \in DOMAIN conns, NEW m \in DOMAIN conns[k]
               PROVE  conns[k][m][1] < rec'
    BY <1>4 DEF NetOlder, NetBegins
  <2>1. conns[k][m][1] \in 1 .. logged
    BY NetEntriesOf
  <2>2. rec' = logged + 1
    BY <1>4 DEF NetBegins
  <2>3. QED
    BY <1>1, <2>1, <2>2
<1>5. CASE NetRests
  <2>1. CASE UNCHANGED <<pc, rec, sent, socket>>
    BY <1>5, <2>1 DEF NetRests, NetOlder, NetCalling
  <2>2. CASE ~NetCalling'
    BY <2>2 DEF NetOlder
  <2>3. QED
    BY <1>5, <2>1, <2>2 DEF NetRests
<1>6. QED
  BY <1>2, <1>3, <1>4, <1>5, NetSteps

\* After a step of send() the bytes it has come to are all there.
LEMMA NetAllBytes ==
  ASSUME N!NetAssumption, NetInv, NEW n \in 1 .. Bytes - sent, NetGives(n)
  PROVE  \A b \in 1 .. sent + n :
           \E m \in DOMAIN conns'[socket] : conns'[socket][m] = <<rec, b>>
<1> USE DEF NetInv, N!NetRecordsWhole
<1>1. Bytes \in Nat /\ sent \in Nat
  BY NetTyping
<1>2. NetGives(n)
  OBVIOUS
<1> DEFINE l == Len(conns[socket])
<1>3. /\ socket \in DOMAIN conns /\ DOMAIN conns'[socket] = 1 .. l + n
      /\ \A m \in 1 .. l : conns'[socket][m] = conns[socket][m]
      /\ \A k \in 1 .. n : conns'[socket][l + k] = <<rec, sent + k>>
  BY <1>2, NetGrown DEF NetGives
<1>4. l \in Nat /\ DOMAIN conns[socket] = 1 .. l
  BY <1>3, NetEntriesOf
<1> HIDE DEF l
<1> SUFFICES ASSUME NEW b \in 1 .. sent + n
             PROVE  \E m \in DOMAIN conns'[socket] : conns'[socket][m] = <<rec, b>>
  OBVIOUS
<1>5. CASE b <= sent
  <2>0. b \in 1 .. sent
    BY <1>1, <1>5
  <2>1. PICK m \in DOMAIN conns[socket] : conns[socket][m] = <<rec, b>>
    BY <2>0, <1>2 DEF NetBytesSent, NetGives
  <2>2. m \in 1 .. l + n /\ m \in 1 .. l
    BY <1>1, <1>4
  <2>3. QED
    BY <1>3, <2>1, <2>2
<1>6. CASE b > sent
  <2> DEFINE k == b - sent
  <2>1. k \in 1 .. n /\ sent + k = b
    BY <1>1, <1>6
  <2> HIDE DEF k
  <2>2. l + k \in 1 .. l + n
    BY <1>1, <1>4, <2>1
  <2>3. conns'[socket][l + k] = <<rec, b>>
    BY <1>3, <2>1
  <2>4. QED
    BY <1>3, <2>2, <2>3
<1>7. QED
  BY <1>1, <1>5, <1>6

LEMMA NetBytesSentStep ==
  ASSUME N!NetAssumption, NetInv, [N!Next]_N!vars
  PROVE  NetBytesSent'
<1> USE DEF NetInv, N!NetRecordsWhole
<1>1. Bytes \in Nat /\ sent \in Nat
  BY NetTyping
<1>3. ASSUME NEW n \in 1 .. Bytes - sent, NetGives(n) PROVE NetBytesSent'
  <2>1. CASE pc' = "idle"
    BY <2>1 DEF NetBytesSent
  <2>2. CASE pc' = "send" /\ sent' = sent + n
    BY NetAllBytes, <1>3, <2>2 DEF NetBytesSent, NetGives
  <2>3. QED
    BY <1>3, <2>1, <2>2 DEF NetGives
<1>4. CASE NetOpens \/ NetBegins
  <2>1. pc' = "send" => sent' = 0
    BY <1>4 DEF NetOpens, NetBegins, NetCalls
  <2>2. QED
    BY <2>1 DEF NetBytesSent
<1>5. CASE NetRests
  BY <1>5 DEF NetRests, NetBytesSent
<1>6. QED
  BY <1>3, <1>4, <1>5, NetSteps

\* A socket that gets bytes gets the ones that follow: the next of the record it
\* is in, or the first of a later record.
LEMMA NetWholeStep ==
  ASSUME N!NetAssumption, NetInv, [N!Next]_N!vars
  PROVE  N!WholeRecords'
<1> USE DEF NetInv, N!NetRecordsWhole
<1>1. /\ Bytes \in Nat /\ Bytes >= 1 /\ Len(conns) \in Nat /\ DOMAIN conns = 1 .. Len(conns)
      /\ socket \in Nat /\ sent \in Nat /\ sent <= Bytes
      /\ rec \in Nat /\ rec <= logged /\ logged \in Nat
  BY NetTyping
<1>2. ASSUME NEW n \in 1 .. Bytes - sent, NetGives(n) PROVE N!WholeRecords'
  <2> DEFINE c == conns[socket]
             d == conns'[socket]
             l == Len(c)
  <2>1. /\ socket \in DOMAIN conns /\ DOMAIN conns' = DOMAIN conns
        /\ \A k \in DOMAIN conns : k # socket => conns'[k] = conns[k]
        /\ Len(d) = l + n /\ DOMAIN d = 1 .. l + n
        /\ \A m \in 1 .. l : d[m] = c[m]
        /\ \A k \in 1 .. n : d[l + k] = <<rec, sent + k>>
    BY <1>2, NetGrown DEF NetGives
  <2>2. l \in Nat /\ DOMAIN c = 1 .. l /\ (c # <<>> <=> l > 0)
    BY <2>1, NetEntriesOf
  <2>3. n \in Nat /\ n >= 1
    BY <1>1
  <2>4. pc = "send" /\ rec # 0 /\ socket = Len(conns) /\ NetCalling /\ socket # 0
    BY <1>2 DEF NetGives, NetCalls, NetEnding, NetCalling
  <2>5. \A m \in 1 .. l : c[m][1] < rec \/ sent > 0
    BY <2>1, <2>2, <2>4 DEF NetOlder
  <2>6. sent > 0 => l > 0 /\ c[l] = <<rec, sent>>
    BY <2>2, <2>4 DEF NetEnding
  <2>7. sent = 0 /\ l > 0 => c[l][2] = Bytes /\ c[l][1] < rec
    BY <1>1, <2>2, <2>4, <2>5 DEF NetEnding
  <2>8. c # <<>> => c[1][2] = 1
    BY <2>1 DEF N!WholeRecords
  <2>9. \A m \in 1 .. l - 1 : N!Follows(c[m], c[m + 1])
    BY <2>1 DEF N!WholeRecords
  <2>10. \A m \in 1 .. l : d[m] = c[m]
    BY <2>1
  <2>11. \A j \in DOMAIN conns : j < socket =>
           \A m \in DOMAIN conns[j] : conns[j][m][1] < rec
    BY <1>1, <2>4 DEF NetOlder
  <2>12. \A j, k \in DOMAIN conns : j < k =>
           \A m \in DOMAIN conns[j], i \in DOMAIN conns[k] : conns[j][m][1] < conns[k][i][1]
    BY DEF N!WholeRecords
  <2>13. \A j \in DOMAIN conns : j <= socket
    BY <1>1, <2>4
  <2>14. \A k \in 1 .. n : d[l + k] = <<rec, sent + k>>
    BY <2>1
  <2> HIDE DEF c, d, l
  <2>15. d[1][2] = 1
    <3>1. CASE l > 0
      BY <2>2, <2>8, <2>10, <3>1
    <3>2. CASE l = 0
      <4>1. sent = 0
        BY <1>1, <2>6, <3>2
      <4>2. 1 \in 1 .. n /\ l + 1 = 1 /\ sent + 1 = 1
        BY <2>3, <3>2, <4>1
      <4>3. d[l + 1] = <<rec, sent + 1>>
        BY <2>14, <4>2
      <4>4. d[1] = <<rec, 1>>
        BY <4>2, <4>3
      <4>5. QED
        BY <4>4
    <3>3. QED
      BY <2>2, <3>1, <3>2
  <2>16. ASSUME NEW m \in 1 .. (l + n) - 1 PROVE N!Follows(d[m], d[m + 1])
    <3>1. CASE m < l
      <4>1. m \in 1 .. l - 1 /\ m \in 1 .. l /\ m + 1 \in 1 .. l
        BY <2>2, <2>3, <3>1
      <4>2. d[m] = c[m] /\ d[m + 1] = c[m + 1]
        BY <2>10, <4>1
      <4>3. QED
        BY <2>9, <4>1, <4>2
    <3>2. CASE m = l
      <4>1. m \in 1 .. l /\ 1 \in 1 .. n /\ l > 0
        BY <2>2, <2>3, <3>2
      <4>2. d[m] = c[l] /\ d[m + 1] = <<rec, sent + 1>>
        BY <2>10, <2>14, <3>2, <4>1
      <4>3. CASE sent > 0
        BY <2>6, <4>2, <4>3 DEF N!Follows
      <4>4. CASE sent = 0
        <5>1. c[l][2] = Bytes /\ c[l][1] < rec
          BY <2>7, <4>1, <4>4
        <5>2. d[m + 1] = <<rec, 1>>
          BY <4>2, <4>4
        <5>3. rec > c[l][1]
          BY <5>1
        <5>4. QED
          BY <4>2, <5>1, <5>2, <5>3 DEF N!Follows
      <4>5. QED
        BY <1>1, <4>3, <4>4
    <3>3. CASE m > l
      <4> DEFINE k == m - l
      <4>1. k \in 1 .. n /\ l + k = m /\ k \in Nat
        BY <2>2, <2>3, <3>3
      <4> DEFINE i == k + 1
      <4>2. i \in 1 .. n /\ l + i = m + 1
        BY <2>2, <2>3, <3>3
      <4> HIDE DEF k, i
      <4>3. d[m] = <<rec, sent + k>>
        BY <2>14, <4>1
      <4>4. d[m + 1] = <<rec, sent + i>>
        BY <2>14, <4>2
      <4>5. sent + i = (sent + k) + 1
        BY <1>1, <4>1 DEF i
      <4>6. QED
        BY <4>3, <4>4, <4>5 DEF N!Follows
    <3>4. QED
      BY <2>2, <2>3, <3>1, <3>2, <3>3
  <2>17. ASSUME NEW k \in DOMAIN conns'
         PROVE  /\ conns'[k] # <<>> => conns'[k][1][2] = 1
                /\ \A m \in 1 .. Len(conns'[k]) - 1 : N!Follows(conns'[k][m], conns'[k][m + 1])
    <3>1. CASE k = socket
      BY <2>1, <2>15, <2>16, <3>1 DEF d
    <3>2. CASE k # socket
      BY <2>1, <3>2 DEF N!WholeRecords
    <3>3. QED
      BY <3>1, <3>2
  <2>18. ASSUME NEW j \in DOMAIN conns', NEW k \in DOMAIN conns', j < k,
                NEW m \in DOMAIN conns'[j], NEW i \in DOMAIN conns'[k]
         PROVE  conns'[j][m][1] < conns'[k][i][1]
    <3>1. j \in DOMAIN conns /\ k \in DOMAIN conns /\ j # socket /\ conns'[j] = conns[j]
      BY <1>1, <2>1, <2>13, <2>18
    <3>2. CASE k # socket
      BY <2>1, <2>12, <2>18, <3>1, <3>2
    <3>3. CASE k = socket
      <4>1. i \in 1 .. l + n
        BY <2>1, <3>3 DEF d
      <4>2. CASE i \in 1 .. l
        <5>1. conns'[k][i] = c[i] /\ i \in DOMAIN conns[k]
          BY <2>1, <2>2, <2>10, <3>3, <4>2 DEF d, c
        <5>2. QED
          BY <2>12, <2>18, <3>1, <3>3, <5>1 DEF c
      <4>3. CASE i \notin 1 .. l
        <5> DEFINE b == i - l
        <5>1. b \in 1 .. n /\ l + b = i
          BY <2>2, <2>3, <4>1, <4>3
        <5> HIDE DEF b
        <5>2. d[i] = <<rec, sent + b>>
          BY <2>14, <5>1
        <5>3. conns'[k][i][1] = rec
          BY <3>3, <5>2 DEF d
        <5>4. conns[j][m][1] < rec
          BY <2>11, <2>18, <3>1, <3>3
        <5>5. QED
          BY <3>1, <5>3, <5>4
      <4>4. QED
        BY <4>2, <4>3
    <3>4. QED
      BY <3>2, <3>3
  <2>19. QED
    BY <2>17, <2>18 DEF N!WholeRecords
<1>3. CASE NetOpens
  <2>1. /\ DOMAIN conns' = 1 .. Len(conns) + 1
        /\ \A k \in DOMAIN conns : conns'[k] = conns[k]
        /\ conns'[Len(conns) + 1] = <<>> /\ DOMAIN conns'[Len(conns) + 1] = {}
    BY <1>3, NetOpened DEF NetOpens
  <2>2. \A k \in DOMAIN conns' : k \in DOMAIN conns \/ k = Len(conns) + 1
    BY <1>1, <2>1
  <2>3. ASSUME NEW k \in DOMAIN conns'
        PROVE  /\ conns'[k] # <<>> => conns'[k][1][2] = 1
               /\ \A m \in 1 .. Len(conns'[k]) - 1 : N!Follows(conns'[k][m], conns'[k][m + 1])
    <3>1. CASE k \in DOMAIN conns
      BY <2>1, <3>1 DEF N!WholeRecords
    <3>2. CASE k = Len(conns) + 1
      BY <2>1, <3>2
    <3>3. QED
      BY <2>2, <3>1, <3>2
  <2>4. ASSUME NEW j \in DOMAIN conns', NEW k \in DOMAIN conns', j < k,
               NEW m \in DOMAIN conns'[j], NEW i \in DOMAIN conns'[k]
        PROVE  conns'[j][m][1] < conns'[k][i][1]
    <3>1. j \in DOMAIN conns /\ k \in DOMAIN conns
      BY <2>1, <2>2, <2>4
    <3>2. QED
      BY <2>1, <2>4, <3>1 DEF N!WholeRecords
  <2>5. QED
    BY <2>3, <2>4 DEF N!WholeRecords
<1>4. CASE NetBegins \/ NetRests
  BY <1>4 DEF NetBegins, NetRests, N!WholeRecords
<1>5. QED
  BY <1>2, <1>3, <1>4, NetSteps

\* The last byte of a record comes after all its others, on the same socket.
LEMMA NetReturnedStep ==
  ASSUME N!NetAssumption, NetInv, [N!Next]_N!vars
  PROVE  N!ReturnedWhole'
<1> DEFINE On(r, cs) ==
             \E k \in DOMAIN cs : \A b \in 1 .. Bytes : \E m \in DOMAIN cs[k] : cs[k][m] = <<r, b>>
<1> USE DEF NetInv, N!NetRecordsWhole
<1>1. Bytes \in Nat /\ sent \in Nat /\ logged \in Nat /\ rec \in Nat
  BY NetTyping
<1>2. \A r \in 1 .. logged : r \in thrown \/ (r = rec /\ NetCalling) \/ On(r, conns)
  BY DEF N!ReturnedWhole, NetCalling
<1>3. SUFFICES \A r \in 1 .. logged' :
                 r \in thrown' \/ (r = rec' /\ NetCalling') \/ On(r, conns')
  BY DEF N!ReturnedWhole, NetCalling
<1>4. ASSUME NEW n \in 1 .. Bytes - sent, NetGives(n), NEW r \in 1 .. logged
      PROVE  r \in thrown' \/ (r = rec' /\ NetCalling') \/ On(r, conns')
  <2>1. /\ socket \in DOMAIN conns /\ DOMAIN conns' = DOMAIN conns
        /\ \A k \in DOMAIN conns : k # socket => conns'[k] = conns[k]
        /\ DOMAIN conns'[socket] = 1 .. Len(conns[socket]) + n
        /\ \A m \in 1 .. Len(conns[socket]) : conns'[socket][m] = conns[socket][m]
    BY <1>4, NetGrown DEF NetGives
  <2>2. Len(conns[socket]) \in Nat /\ DOMAIN conns[socket] = 1 .. Len(conns[socket])
    BY <2>1, NetEntriesOf
  <2>3. ASSUME NEW k \in DOMAIN conns, NEW m \in DOMAIN conns[k]
        PROVE  m \in DOMAIN conns'[k] /\ conns'[k][m] = conns[k][m]
    <3>1. CASE k = socket
      BY <2>1, <2>2, <2>3, <3>1
    <3>2. CASE k # socket
      BY <2>1, <2>3, <3>2
    <3>3. QED
      BY <3>1, <3>2
  <2>4. CASE On(r, conns)
    <3>1. PICK k \in DOMAIN conns :
            \A b \in 1 .. Bytes : \E m \in DOMAIN conns[k] : conns[k][m] = <<r, b>>
      BY <2>4
    <3>2. \A b \in 1 .. Bytes : \E m \in DOMAIN conns'[k] : conns'[k][m] = <<r, b>>
      BY <2>3, <3>1
    <3>3. QED
      BY <2>1, <3>2
  <2>5. CASE r \in thrown
    BY <1>4, <2>5 DEF NetGives
  <2>6. CASE r = rec /\ NetCalling
    <3>1. CASE pc' = "send"
      BY <1>4, <2>6, <3>1 DEF NetGives, NetCalling
    <3>2. CASE pc' = "idle" /\ sent + n = Bytes
      <4>1. \A b \in 1 .. Bytes : \E m \in DOMAIN conns'[socket] : conns'[socket][m] = <<rec, b>>
        BY <1>4, <3>2, NetAllBytes DEF NetGives
      <4>2. QED
        BY <2>1, <2>6, <4>1
    <3>3. QED
      BY <1>4, <3>1, <3>2 DEF NetGives
  <2>7. QED
    BY <1>2, <2>4, <2>5, <2>6
<1>5. ASSUME NetOpens, NEW r \in 1 .. logged
      PROVE  r \in thrown' \/ (r = rec' /\ NetCalling') \/ On(r, conns')
  <2>1. /\ DOMAIN conns' = 1 .. Len(conns) + 1 /\ DOMAIN conns = 1 .. Len(conns)
        /\ Len(conns) \in Nat
        /\ \A k \in DOMAIN conns : conns'[k] = conns[k]
    BY <1>5, NetOpened, NetTyping DEF NetOpens
  <2>2. CASE On(r, conns)
    <3>1. PICK k \in DOMAIN conns :
            \A b \in 1 .. Bytes : \E m \in DOMAIN conns[k] : conns[k][m] = <<r, b>>
      BY <2>2
    <3>2. k \in DOMAIN conns' /\ conns'[k] = conns[k]
      BY <2>1
    <3>3. QED
      BY <3>1, <3>2
  <2>3. CASE r \in thrown \/ (r = rec /\ NetCalling)
    BY <1>5, <2>3 DEF NetOpens, NetCalling
  <2>4. QED
    BY <1>2, <2>2, <2>3
<1>6. ASSUME NetBegins, NEW r \in 1 .. logged'
      PROVE  r \in thrown' \/ (r = rec' /\ NetCalling') \/ On(r, conns')
  <2>1. logged' = logged + 1 /\ rec' = logged' /\ thrown' = thrown /\ conns' = conns
        /\ pc = "idle" /\ pc' \in {"connect", "send"}
    BY <1>6 DEF NetBegins
  <2>2. CASE r = logged'
    BY <1>1, <2>1, <2>2 DEF NetCalling
  <2>3. CASE r \in 1 .. logged
    BY <1>2, <2>1, <2>3 DEF NetCalling
  <2>4. QED
    BY <1>1, <2>1, <2>2, <2>3
<1>7. ASSUME NetRests, NEW r \in 1 .. logged
      PROVE  r \in thrown' \/ (r = rec' /\ NetCalling') \/ On(r, conns')
  <2>1. conns' = conns /\ thrown \subseteq thrown'
    BY <1>7 DEF NetRests
  <2>2. CASE UNCHANGED <<pc, rec, sent, socket>>
    BY <1>2, <2>1, <2>2 DEF NetCalling
  <2>3. CASE NetCalling => rec \in thrown'
    BY <1>2, <2>1, <2>3
  <2>4. QED
    BY <1>7, <2>2, <2>3 DEF NetRests
<1>8. CASE NetBegins
  BY <1>6, <1>8
<1>9. CASE ~NetBegins
  <2>1. logged' = logged
    BY <1>9, NetSteps DEF NetGives, NetOpens, NetRests
  <2>2. QED
    BY <1>4, <1>5, <1>7, <1>9, <2>1, NetSteps
<1>10. QED
  BY <1>8, <1>9

-----------------------------------------------------------------------------

LEMMA NetStep ==
  ASSUME N!NetAssumption, NetInv, [N!Next]_N!vars
  PROVE  NetInv'
<1>1. N!TypeOK' /\ N!WholeRecords' /\ N!ReturnedWhole'
  BY NetTypeStep, NetWholeStep, NetReturnedStep
<1>2. N!OneSocket' /\ N!WinsockPaired' /\ NetCalls'
  BY NetSocketStep, NetCallsStep
<1>3. NetEnding' /\ NetOlder' /\ NetBytesSent'
  BY NetEndingStep, NetOlderStep, NetBytesSentStep
<1>4. QED
  BY <1>1, <1>2, <1>3 DEF NetInv, N!NetRecordsWhole

\* Whatever the network does to the connections of a tcp_sink or a udp_sink,
\* with any number of addresses, sockets, records and bytes in each: what a
\* connection carries is whole records in order, of which only the last may be
\* cut short, a call that returned gave its record to one connection, no open
\* socket is lost, and WSAStartup and WSACleanup come in pairs.
THEOREM NetKeepsRecordsWhole == N!NetAssumption => (N!Spec => []N!NetRecordsWhole)
<1> SUFFICES ASSUME N!NetAssumption PROVE N!Spec => []N!NetRecordsWhole
  OBVIOUS
<1>1. N!Init => NetInv
  BY NetInitInv
<1>2. NetInv /\ [N!Next]_N!vars => NetInv'
  BY NetStep
<1>3. NetInv => N!NetRecordsWhole
  BY DEF NetInv
<1>4. QED
  BY <1>1, <1>2, <1>3, PTL DEF N!Spec

-----------------------------------------------------------------------------
(* The console sinks.                                                      *)
(*                                                                         *)
(* A line under way is three parts of one row of pieces: what the terminal *)
(* has, what is in the stream's buffer and what is still to write.         *)
(* ConsoleAt says where they meet, and that the terminal is in the colour  *)
(* of the level between the one change and the other; ConsoleHeld that     *)
(* the thread with the mutex is there, ConsoleFree that nobody else has    *)
(* anything to write.                                                      *)

ConsolePiece == [n : Nat, part : {"before", "within", "after", "level", "reset"}]

ConsoleText ==
  [n : Nat, part : {"before", "within", "after"}, colour : {"plain", "level"}]

ConsoleRow(n, full) ==
  IF full
  THEN <<C!Text(n, "before"), C!Change(n, "level"), C!Text(n, "within"),
         C!Change(n, "reset"), C!Text(n, "after")>>
  ELSE <<C!Text(n, "before")>>
ConsoleLength(full) == IF full THEN 5 ELSE 1
ConsoleColour(full, a) == IF full /\ a \in {2, 3} THEN "level" ELSE "plain"

\* The terminal has the first a pieces of the line, and the buffer those up to b.
ConsoleAt(t, full, a, b) ==
  /\ a <= b /\ b <= ConsoleLength(full)
  /\ Len(buffer[Stream[job[t].sink]]) = b - a
  /\ \A k \in 1 .. b - a : buffer[Stream[job[t].sink]][k] = ConsoleRow(lines, full)[a + k]
  /\ Len(todo[t]) = ConsoleLength(full) - b
  /\ \A k \in 1 .. ConsoleLength(full) - b : todo[t][k] = ConsoleRow(lines, full)[b + k]
  /\ colour = ConsoleColour(full, a)

ConsoleTyped ==
  /\ windows \in BOOLEAN /\ mutex \in Threads \cup {NoThread}
  /\ todo \in [Threads -> Seq(ConsolePiece)] /\ buffer \in [C!Streams -> Seq(ConsolePiece)]
  /\ DOMAIN job = Threads /\ doColours \in [C!Sinks -> BOOLEAN]
  /\ screen \in Seq(ConsoleText)
  /\ lines \in Nat /\ saved = "plain"

ConsoleHeld ==
  mutex # NoThread =>
    /\ job[mutex].sink \in C!Sinks
    /\ \E full \in BOOLEAN : \E a, b \in Nat : ConsoleAt(mutex, full, a, b)

ConsoleFree ==
  /\ \A t \in Threads : t # mutex => todo[t] = <<>>
  /\ \A f \in C!Streams :
       mutex = NoThread \/ f # Stream[job[mutex].sink] \/ windows => buffer[f] = <<>>
  /\ mutex = NoThread => colour = "plain"

ConsoleShown ==
  /\ C!LinesWhole
  /\ \A k \in DOMAIN screen :
       screen[k].n <= lines /\ (screen[k].part = "within" <=> screen[k].colour = "level")

ConsoleInv == ConsoleTyped /\ ConsoleHeld /\ ConsoleFree /\ ConsoleShown

\* The pieces of a line, one by one.
LEMMA ConsoleRowIs ==
  ASSUME NEW n \in Nat, NEW full \in BOOLEAN
  PROVE  /\ ConsoleRow(n, full) \in Seq(ConsolePiece)
         /\ Len(ConsoleRow(n, full)) = ConsoleLength(full)
         /\ DOMAIN ConsoleRow(n, full) = 1 .. ConsoleLength(full)
<1>1. CASE full
  <2> DEFINE row == <<C!Text(n, "before"), C!Change(n, "level"), C!Text(n, "within"),
                      C!Change(n, "reset"), C!Text(n, "after")>>
  <2>1. row \in Seq(ConsolePiece) /\ Len(row) = 5
    BY DEF C!Text, C!Change, ConsolePiece
  <2>2. DOMAIN row = 1 .. 5
    OBVIOUS
  <2>3. QED
    BY <1>1, <2>1, <2>2 DEF ConsoleRow, ConsoleLength
<1>2. CASE ~full
  BY <1>2 DEF ConsoleRow, ConsoleLength, C!Text, ConsolePiece
<1>3. QED
  BY <1>1, <1>2

\* The terminal gets the next piece of the line.
LEMMA ConsoleShows ==
  ASSUME ConsoleTyped, ConsoleShown,
         NEW full \in BOOLEAN, NEW a \in Nat, a < ConsoleLength(full),
         colour = ConsoleColour(full, a),
         C!ToTerminal(ConsoleRow(lines, full)[a + 1]), lines' = lines
  PROVE  /\ saved' = "plain" /\ colour' = ConsoleColour(full, a + 1)
         /\ screen' \in Seq(ConsoleText)
         /\ ConsoleShown'
<1> DEFINE x == ConsoleRow(lines, full)[a + 1]
<1>1. \/ x = C!Text(lines, "before") /\ a = 0
      \/ x = C!Change(lines, "level") /\ a = 1 /\ full
      \/ x = C!Text(lines, "within") /\ a = 2 /\ full
      \/ x = C!Change(lines, "reset") /\ a = 3 /\ full
      \/ x = C!Text(lines, "after") /\ a = 4 /\ full
  <2>1. CASE full
    <3>1. a \in 0 .. 4
      BY <2>1 DEF ConsoleLength
    <3>2. CASE a = 0
      BY <2>1, <3>2 DEF ConsoleRow
    <3>3. CASE a = 1
      BY <2>1, <3>3 DEF ConsoleRow
    <3>4. CASE a = 2
      BY <2>1, <3>4 DEF ConsoleRow
    <3>5. CASE a = 3
      BY <2>1, <3>5 DEF ConsoleRow
    <3>6. CASE a = 4
      BY <2>1, <3>6 DEF ConsoleRow
    <3>7. QED
      BY <3>1, <3>2, <3>3, <3>4, <3>5, <3>6
  <2>2. CASE ~full
    <3>1. a = 0
      BY <2>2 DEF ConsoleLength
    <3>2. QED
      BY <2>2, <3>1 DEF ConsoleRow
  <2>3. QED
    BY <2>1, <2>2
<1>2. C!ToTerminal(x)
  OBVIOUS
<1> HIDE DEF x
<1>3. CASE x.part \in {"level", "reset"}
  <2>1. \/ x.part = "level" /\ a = 1 /\ full
        \/ x.part = "reset" /\ a = 3 /\ full
    BY <1>1, <1>3 DEF C!Text, C!Change
  <2>2. ~C!IsText(x)
    BY <1>3 DEF C!IsText
  <2>3. screen' = screen
    BY <1>2, <2>2 DEF C!ToTerminal
  <2>4. ConsoleShown'
    BY <2>3 DEF ConsoleShown, C!LinesWhole
  <2>5. CASE x.part = "level" /\ a = 1 /\ full
    <3>1. saved' = colour /\ colour' = "level"
      BY <1>2, <2>2, <2>5 DEF C!ToTerminal
    <3>2. QED
      BY <2>3, <2>4, <2>5, <3>1 DEF ConsoleColour, ConsoleTyped
  <2>6. CASE x.part = "reset" /\ a = 3 /\ full
    <3>1. saved' = saved /\ colour' = IF windows THEN saved ELSE "plain"
      BY <1>2, <2>2, <2>6 DEF C!ToTerminal
    <3>2. QED
      BY <2>3, <2>4, <2>6, <3>1 DEF ConsoleColour, ConsoleTyped
  <2>7. QED
    BY <2>1, <2>5, <2>6
<1>4. CASE x.part \in {"before", "within", "after"}
  <2>1. /\ \/ x.part = "before" /\ a = 0
           \/ x.part = "within" /\ a = 2 /\ full
           \/ x.part = "after" /\ a = 4 /\ full
        /\ x.n = lines
    BY <1>1, <1>4 DEF C!Text, C!Change
  <2> DEFINE new == [n |-> x.n, part |-> x.part, colour |-> colour]
  <2>2. screen' = Append(screen, new) /\ colour' = colour /\ saved' = saved
    BY <1>2, <1>4 DEF C!ToTerminal, C!IsText
  <2>3. ConsoleColour(full, a + 1) = ConsoleColour(full, a) /\ colour \in {"plain", "level"}
    BY <2>1 DEF ConsoleColour
  <2>4. new.part = "within" <=> new.colour = "level"
    BY <2>1 DEF ConsoleColour
  <2>5. new \in ConsoleText /\ new.n = lines
    BY <1>4, <2>1, <2>3 DEF ConsoleTyped, ConsoleText
  <2> HIDE DEF new
  <2>6. screen' \in Seq(ConsoleText)
    BY <2>2, <2>5 DEF ConsoleTyped
  <2>7. /\ Len(screen) \in Nat /\ Len(screen') = Len(screen) + 1 /\ screen'[Len(screen) + 1] = new
        /\ \A k \in 1 .. Len(screen) : screen'[k] = screen[k]
        /\ DOMAIN screen = 1 .. Len(screen) /\ DOMAIN screen' = 1 .. Len(screen) + 1
    BY <2>2, <2>5, <2>6 DEF ConsoleTyped
  <2>8. \A k \in DOMAIN screen' : k \in DOMAIN screen \/ k = Len(screen) + 1
    BY <2>7
  <2>9. \A k \in DOMAIN screen' :
          screen'[k].n <= lines' /\ (screen'[k].part = "within" <=> screen'[k].colour = "level")
    BY <2>4, <2>5, <2>7, <2>8 DEF ConsoleShown, ConsoleTyped
  <2>10. ASSUME NEW k \in 1 .. Len(screen') - 1 PROVE screen'[k].n <= screen'[k + 1].n
    <3>1. k \in DOMAIN screen /\ screen'[k] = screen[k]
      BY <2>7
    <3>2. CASE k + 1 \in DOMAIN screen
      BY <2>7, <3>1, <3>2 DEF ConsoleShown, C!LinesWhole
    <3>3. CASE k + 1 = Len(screen) + 1
      BY <2>5, <2>7, <3>1, <3>3 DEF ConsoleShown
    <3>4. QED
      BY <2>7, <3>2, <3>3
  <2>11. QED
    BY <2>2, <2>3, <2>6, <2>9, <2>10 DEF ConsoleShown, C!LinesWhole, ConsoleTyped
<1>5. QED
  BY <1>1, <1>3, <1>4 DEF C!Text, C!Change

LEMMA ConsoleInitInv ==
  ASSUME C!ConsoleAssumption, C!Init
  PROVE  ConsoleInv
<1>1. ConsoleTyped
  BY DEF C!Init, ConsoleTyped
<1>2. ConsoleHeld /\ ConsoleFree
  BY DEF C!Init, ConsoleHeld, ConsoleFree
<1>3. ConsoleShown
  BY DEF C!Init, ConsoleShown, C!LinesWhole
<1>4. QED
  BY <1>1, <1>2, <1>3 DEF ConsoleInv

LEMMA ConsoleLog ==
  ASSUME C!ConsoleAssumption, ConsoleInv,
         NEW t \in Threads, NEW s \in C!Sinks, NEW range \in BOOLEAN, C!Log(t, s, range)
  PROVE  ConsoleInv'
<1> USE DEF ConsoleInv
<1>1. /\ todo[t] = <<>> /\ mutex = NoThread /\ mutex' = t /\ lines' = lines + 1
      /\ job' = [job EXCEPT ![t] = [n |-> lines', sink |-> s]]
      /\ todo' = [todo EXCEPT ![t] = C!Pieces(lines', s, range)]
      /\ UNCHANGED <<windows, buffer, screen, colour, saved, doColours>>
  BY DEF C!Log
<1>2. lines \in Nat /\ lines' \in Nat
  BY <1>1 DEF ConsoleTyped
<1> PICK full \in BOOLEAN : full = (doColours[s] /\ range)
  OBVIOUS
<1>3. C!Pieces(lines', s, range) = ConsoleRow(lines', full)
  BY <1>1, <1>2 DEF C!Pieces, ConsoleRow
<1>5. /\ ConsoleRow(lines', full) \in Seq(ConsolePiece) /\ Len(ConsoleRow(lines', full)) = ConsoleLength(full)
  BY <1>2, ConsoleRowIs
<1>6. todo' \in [Threads -> Seq(ConsolePiece)] /\ todo'[t] = ConsoleRow(lines', full)
  BY <1>1, <1>3, <1>5 DEF ConsoleTyped
<1>7. ConsoleTyped'
  BY <1>1, <1>2, <1>6 DEF ConsoleTyped, C!Sinks
<1>8. job'[t].sink = s /\ Stream[s] \in C!Streams /\ buffer[Stream[s]] = <<>>
  BY <1>1 DEF ConsoleTyped, ConsoleFree, C!Streams
<1>9. ConsoleHeld'
  <2>1. ConsoleAt(t, full, 0, 0)'
    <3>1. colour' = "plain" /\ ConsoleColour(full, 0) = "plain"
      BY <1>1 DEF ConsoleFree, ConsoleColour
    <3>2. ConsoleLength(full) \in Nat
      BY DEF ConsoleLength
    <3>3. buffer'[Stream[job'[t].sink]] = <<>> /\ todo'[t] = ConsoleRow(lines', full)
      BY <1>1, <1>6, <1>8
    <3>4. QED
      BY <1>5, <3>1, <3>2, <3>3 DEF ConsoleAt
  <2>2. QED
    BY <1>1, <1>2, <1>8, <2>1 DEF ConsoleHeld
<1>10. ConsoleFree'
  BY <1>1, <1>8 DEF ConsoleFree, ConsoleTyped, C!ConsoleAssumption
<1>11. ConsoleShown'
  <2>1. \A k \in DOMAIN screen : screen[k].n \in Nat
    <3>1. \A k \in DOMAIN screen : screen[k] \in ConsoleText
      BY DEF ConsoleTyped
    <3>2. QED
      BY <3>1 DEF ConsoleText
  <2>2. \A k \in DOMAIN screen : screen[k].n <= lines'
    BY <1>1, <1>2, <2>1 DEF ConsoleShown
  <2>3. QED
    BY <1>1, <2>2 DEF ConsoleShown, C!LinesWhole
<1>12. QED
  BY <1>7, <1>9, <1>10, <1>11

\* What a thread has still to write is in the hands of the one with the mutex.
LEMMA ConsoleWriter ==
  ASSUME C!ConsoleAssumption, ConsoleInv, NEW t \in Threads, mutex = t
  PROVE  /\ job[t].sink \in C!Sinks /\ Stream[job[t].sink] \in C!Streams
         /\ \E full \in BOOLEAN : \E a, b \in Nat : ConsoleAt(t, full, a, b)
         /\ todo[t] \in Seq(ConsolePiece) /\ Len(todo[t]) \in Nat
         /\ buffer[Stream[job[t].sink]] \in Seq(ConsolePiece)
         /\ Len(buffer[Stream[job[t].sink]]) \in Nat
<1>1. t # NoThread
  BY DEF C!ConsoleAssumption
<1>2. /\ job[t].sink \in C!Sinks
      /\ \E full \in BOOLEAN : \E a, b \in Nat : ConsoleAt(t, full, a, b)
  BY <1>1 DEF ConsoleInv, ConsoleHeld
<1>3. Stream[job[t].sink] \in C!Streams
  BY <1>2 DEF C!Streams
<1>4. todo[t] \in Seq(ConsolePiece) /\ buffer[Stream[job[t].sink]] \in Seq(ConsolePiece)
  BY <1>3 DEF ConsoleInv, ConsoleTyped
<1>5. QED
  BY <1>2, <1>3, <1>4

LEMMA ConsolePrintRange ==
  ASSUME C!ConsoleAssumption, ConsoleInv, NEW t \in Threads, C!PrintRange(t)
  PROVE  ConsoleInv'
<1> DEFINE f == Stream[job[t].sink]
<1>1. /\ ~windows /\ todo[t] # <<>>
      /\ buffer' = [buffer EXCEPT ![f] = Append(@, Head(todo[t]))]
      /\ todo' = [todo EXCEPT ![t] = Tail(@)]
      /\ UNCHANGED <<windows, mutex, job, screen, colour, saved, doColours, lines>>
  BY DEF C!PrintRange
<1>2. mutex = t
  BY <1>1 DEF ConsoleInv, ConsoleFree
<1>3. /\ f \in C!Streams /\ buffer[f] \in Seq(ConsolePiece) /\ todo[t] \in Seq(ConsolePiece)
      /\ Len(todo[t]) \in Nat /\ Len(buffer[f]) \in Nat
  BY <1>2, ConsoleWriter
<1>4. PICK full \in BOOLEAN, a \in Nat, b \in Nat : ConsoleAt(t, full, a, b)
  BY <1>2, ConsoleWriter
<1> DEFINE L == ConsoleLength(full)
           Row(k) == ConsoleRow(lines, full)[k]
<1>5. L \in Nat
  BY DEF ConsoleLength
<1>6. /\ a <= b /\ b <= L /\ Len(buffer[f]) = b - a
      /\ \A k \in 1 .. b - a : buffer[f][k] = Row(a + k)
      /\ Len(todo[t]) = L - b
      /\ \A k \in 1 .. L - b : todo[t][k] = Row(b + k)
      /\ colour = ConsoleColour(full, a)
  BY <1>4 DEF ConsoleAt
<1>7. t \in DOMAIN todo /\ f \in DOMAIN buffer
  BY <1>3 DEF ConsoleInv, ConsoleTyped
<1> DEFINE p == Head(todo[t])
<1>8. p \in ConsolePiece /\ p = todo[t][1] /\ Len(todo[t]) >= 1
  BY <1>1, <1>3
<1>9. buffer'[f] = Append(buffer[f], p) /\ todo'[t] = Tail(todo[t])
  BY <1>1, <1>7
<1>10. UNCHANGED f
  BY <1>1
<1> HIDE DEF L, Row, f, p
<1>11. b < L /\ p = Row(b + 1)
  <2>1. b < L /\ 1 \in 1 .. L - b
    BY <1>5, <1>6, <1>8
  <2>2. QED
    BY <1>6, <1>8, <2>1
<1>12. /\ Append(buffer[f], p) \in Seq(ConsolePiece) /\ Tail(todo[t]) \in Seq(ConsolePiece)
       /\ Len(Append(buffer[f], p)) = Len(buffer[f]) + 1 /\ Len(Tail(todo[t])) = Len(todo[t]) - 1
       /\ \A k \in 1 .. Len(buffer[f]) : Append(buffer[f], p)[k] = buffer[f][k]
       /\ Append(buffer[f], p)[Len(buffer[f]) + 1] = p
       /\ \A k \in 1 .. Len(todo[t]) - 1 : Tail(todo[t])[k] = todo[t][k + 1]
  BY <1>3, <1>8
<1>13. ASSUME NEW k \in 1 .. (b + 1) - a PROVE buffer'[f][k] = Row(a + k)
  <2>1. CASE k \in 1 .. b - a
    BY <1>6, <1>9, <1>12, <2>1
  <2>2. CASE k = b + 1 - a
    BY <1>6, <1>9, <1>11, <1>12, <2>2
  <2>3. QED
    BY <1>6, <2>1, <2>2
<1>14. ASSUME NEW k \in 1 .. L - (b + 1) PROVE todo'[t][k] = Row(b + 1 + k)
  <2>1. k \in 1 .. Len(todo[t]) - 1 /\ k + 1 \in 1 .. L - b
    BY <1>5, <1>6
  <2>2. todo'[t][k] = todo[t][k + 1]
    BY <1>9, <1>12, <2>1
  <2>3. todo[t][k + 1] = Row(b + (k + 1))
    BY <1>6, <2>1
  <2>4. QED
    BY <2>2, <2>3
<1>15. ConsoleAt(t, full, a, b + 1)'
  <2>1. a <= b + 1 /\ b + 1 <= L /\ Len(buffer'[f]) = b + 1 - a /\ Len(todo'[t]) = L - (b + 1)
    <3>1. a <= b + 1 /\ b + 1 <= L /\ (b - a) + 1 = b + 1 - a /\ (L - b) - 1 = L - (b + 1)
      BY <1>5, <1>6, <1>11
    <3>2. Len(buffer[f]) = b - a /\ Len(todo[t]) = L - b
      BY <1>6
    <3>3. Len(buffer'[f]) = (b - a) + 1
      BY <3>2, <1>9, <1>12
    <3>4. Len(todo'[t]) = (L - b) - 1
      BY <3>2, <1>9, <1>12
    <3>5. QED
      BY <3>1, <3>3, <3>4
  <2>2. /\ Stream[job'[t].sink] = f /\ lines' = lines
        /\ colour' = ConsoleColour(full, a)
    BY <1>1, <1>6 DEF f
  <2>3. QED
    BY <1>13, <1>14, <2>1, <2>2 DEF ConsoleAt, L, Row
<1>16. ConsoleTyped'
  <2>1. buffer' = [buffer EXCEPT ![f] = Append(buffer[f], p)] /\ todo' = [todo EXCEPT ![t] = Tail(todo[t])]
    BY <1>1 DEF f, p
  <2>2. QED
    BY <1>1, <1>3, <1>12, <2>1 DEF ConsoleInv, ConsoleTyped
<1>17. ConsoleHeld'
  BY <1>1, <1>2, <1>15 DEF ConsoleHeld, ConsoleInv
<1>18. ConsoleFree'
  BY <1>1, <1>2, <1>7 DEF ConsoleFree, ConsoleInv, ConsoleTyped, C!ConsoleAssumption, f
<1>19. ConsoleShown'
  BY <1>1 DEF ConsoleShown, C!LinesWhole, ConsoleInv
<1>20. QED
  BY <1>16, <1>17, <1>18, <1>19 DEF ConsoleInv

LEMMA ConsolePrintConsole ==
  ASSUME C!ConsoleAssumption, ConsoleInv, NEW t \in Threads, C!PrintConsole(t)
  PROVE  ConsoleInv'
<1> DEFINE f == Stream[job[t].sink]
<1>1. /\ windows /\ todo[t] # <<>>
      /\ C!ToTerminal(Head(todo[t]))
      /\ todo' = [todo EXCEPT ![t] = Tail(@)]
      /\ UNCHANGED <<windows, mutex, job, buffer, doColours, lines>>
  BY DEF C!PrintConsole
<1>2. mutex = t
  BY <1>1 DEF ConsoleInv, ConsoleFree
<1>3. /\ f \in C!Streams /\ todo[t] \in Seq(ConsolePiece) /\ Len(todo[t]) \in Nat
      /\ Len(buffer[f]) \in Nat
  BY <1>2, ConsoleWriter
<1>4. PICK full \in BOOLEAN, a \in Nat, b \in Nat : ConsoleAt(t, full, a, b)
  BY <1>2, ConsoleWriter
<1>5. buffer[f] = <<>>
  BY <1>1, <1>3 DEF ConsoleInv, ConsoleFree
<1> DEFINE L == ConsoleLength(full)
           Row(k) == ConsoleRow(lines, full)[k]
<1>6. L \in Nat
  BY DEF ConsoleLength
<1>7. /\ a <= b /\ b <= L /\ Len(buffer[f]) = b - a
      /\ Len(todo[t]) = L - b
      /\ \A k \in 1 .. L - b : todo[t][k] = Row(b + k)
      /\ colour = ConsoleColour(full, a)
  BY <1>4 DEF ConsoleAt
<1>8. a = b
  BY <1>5, <1>7
<1>9. Head(todo[t]) = todo[t][1] /\ Len(todo[t]) >= 1
  BY <1>1, <1>3
<1>10. /\ Tail(todo[t]) \in Seq(ConsolePiece) /\ Len(Tail(todo[t])) = Len(todo[t]) - 1
       /\ \A k \in 1 .. Len(todo[t]) - 1 : Tail(todo[t])[k] = todo[t][k + 1]
  BY <1>1, <1>3
<1>11. todo'[t] = Tail(todo[t])
  BY <1>1 DEF ConsoleInv, ConsoleTyped
<1> HIDE DEF L, Row, f
<1>12. a < L /\ Head(todo[t]) = Row(a + 1)
  <2>1. a < L /\ 1 \in 1 .. L - b
    BY <1>6, <1>7, <1>8, <1>9
  <2>2. QED
    BY <1>7, <1>8, <1>9, <2>1
<1>13. /\ saved' = "plain" /\ colour' = ConsoleColour(full, a + 1)
       /\ screen' \in Seq(ConsoleText) /\ ConsoleShown'
  BY <1>1, <1>7, <1>12, ConsoleShows DEF L, Row, ConsoleInv
<1>14. ASSUME NEW k \in 1 .. L - (a + 1) PROVE todo'[t][k] = Row(a + 1 + k)
  <2>1. k \in 1 .. Len(todo[t]) - 1 /\ k + 1 \in 1 .. L - b
    BY <1>6, <1>7, <1>8
  <2>2. todo'[t][k] = todo[t][k + 1]
    BY <1>10, <1>11, <2>1
  <2>3. todo[t][k + 1] = Row(b + (k + 1))
    BY <1>7, <2>1
  <2>4. QED
    BY <1>8, <2>2, <2>3
<1>15. ConsoleAt(t, full, a + 1, a + 1)'
  <2>1. a + 1 <= L /\ Len(buffer[f]) = (a + 1) - (a + 1) /\ Len(todo'[t]) = L - (a + 1)
    BY <1>6, <1>7, <1>8, <1>10, <1>11, <1>12
  <2>2. Stream[job'[t].sink] = f /\ lines' = lines /\ buffer' = buffer
    BY <1>1 DEF f
  <2>3. QED
    BY <1>13, <1>14, <2>1, <2>2 DEF ConsoleAt, L, Row
<1>16. ConsoleTyped'
  <2>1. todo' = [todo EXCEPT ![t] = Tail(todo[t])]
    BY <1>1
  <2>2. QED
    BY <1>1, <1>10, <1>13, <2>1 DEF ConsoleInv, ConsoleTyped
<1>17. ConsoleHeld'
  BY <1>1, <1>2, <1>15 DEF ConsoleHeld, ConsoleInv
<1>18. ConsoleFree'
  BY <1>1, <1>2, <1>3 DEF ConsoleFree, ConsoleInv, ConsoleTyped, C!ConsoleAssumption
<1>19. QED
  BY <1>13, <1>16, <1>17, <1>18 DEF ConsoleInv

LEMMA ConsoleSpill ==
  ASSUME C!ConsoleAssumption, ConsoleInv, NEW f \in C!Streams, C!Spill(f)
  PROVE  ConsoleInv'
<1>1. /\ buffer[f] # <<>>
      /\ C!ToTerminal(Head(buffer[f]))
      /\ buffer' = [buffer EXCEPT ![f] = Tail(@)]
      /\ UNCHANGED <<windows, mutex, job, todo, doColours, lines>>
  BY DEF C!Spill
<1>2. mutex \in Threads /\ mutex # NoThread /\ f = Stream[job[mutex].sink] /\ ~windows
  BY <1>1 DEF ConsoleInv, ConsoleFree, ConsoleTyped
<1> PICK t \in Threads : t = mutex
  BY <1>2
<1>3. f = Stream[job[t].sink] /\ buffer[f] \in Seq(ConsolePiece) /\ Len(buffer[f]) \in Nat
  BY <1>2, ConsoleWriter
<1>4. PICK full \in BOOLEAN, a \in Nat, b \in Nat : ConsoleAt(t, full, a, b)
  BY <1>2, ConsoleWriter
<1> DEFINE L == ConsoleLength(full)
           Row(k) == ConsoleRow(lines, full)[k]
<1>5. L \in Nat
  BY DEF ConsoleLength
<1>6. /\ a <= b /\ b <= L /\ Len(buffer[f]) = b - a
      /\ \A k \in 1 .. b - a : buffer[f][k] = Row(a + k)
      /\ Len(todo[t]) = L - b
      /\ \A k \in 1 .. L - b : todo[t][k] = Row(b + k)
      /\ colour = ConsoleColour(full, a)
  BY <1>3, <1>4 DEF ConsoleAt
<1>7. Head(buffer[f]) = buffer[f][1] /\ Len(buffer[f]) >= 1
  BY <1>1, <1>3
<1>8. /\ Tail(buffer[f]) \in Seq(ConsolePiece) /\ Len(Tail(buffer[f])) = Len(buffer[f]) - 1
      /\ \A k \in 1 .. Len(buffer[f]) - 1 : Tail(buffer[f])[k] = buffer[f][k + 1]
  BY <1>1, <1>3
<1>9. buffer'[f] = Tail(buffer[f]) /\ \A g \in C!Streams : g # f => buffer'[g] = buffer[g]
  BY <1>1 DEF ConsoleInv, ConsoleTyped
<1> HIDE DEF L, Row
<1>10. a < b /\ a < L /\ Head(buffer[f]) = Row(a + 1)
  <2>1. a < b /\ a < L /\ 1 \in 1 .. b - a
    BY <1>5, <1>6, <1>7
  <2>2. QED
    BY <1>6, <1>7, <2>1
<1>11. /\ saved' = "plain" /\ colour' = ConsoleColour(full, a + 1)
       /\ screen' \in Seq(ConsoleText) /\ ConsoleShown'
  BY <1>1, <1>6, <1>10, ConsoleShows DEF L, Row, ConsoleInv
<1>12. ASSUME NEW k \in 1 .. b - (a + 1) PROVE buffer'[f][k] = Row(a + 1 + k)
  <2>1. k \in 1 .. Len(buffer[f]) - 1 /\ k + 1 \in 1 .. b - a
    BY <1>6
  <2>2. buffer'[f][k] = buffer[f][k + 1]
    BY <1>8, <1>9, <2>1
  <2>3. buffer[f][k + 1] = Row(a + (k + 1))
    BY <1>6, <2>1
  <2>4. QED
    BY <2>2, <2>3
<1>13. ConsoleAt(t, full, a + 1, b)'
  <2>1. a + 1 <= b /\ Len(buffer'[f]) = b - (a + 1)
    BY <1>6, <1>8, <1>9, <1>10
  <2>2. Stream[job'[t].sink] = f /\ lines' = lines /\ todo' = todo
    BY <1>1, <1>3
  <2>3. QED
    BY <1>6, <1>11, <1>12, <2>1, <2>2 DEF ConsoleAt, L, Row
<1>14. ConsoleTyped'
  <2>1. buffer' = [buffer EXCEPT ![f] = Tail(buffer[f])]
    BY <1>1
  <2>2. QED
    BY <1>1, <1>8, <1>11, <2>1 DEF ConsoleInv, ConsoleTyped
<1>15. ConsoleHeld'
  BY <1>1, <1>13 DEF ConsoleHeld, ConsoleInv
<1>16. ConsoleFree'
  BY <1>1, <1>2, <1>9 DEF ConsoleFree, ConsoleInv
<1>17. QED
  BY <1>11, <1>14, <1>15, <1>16 DEF ConsoleInv

LEMMA ConsoleFlush ==
  ASSUME C!ConsoleAssumption, ConsoleInv, NEW t \in Threads, C!Flush(t)
  PROVE  ConsoleInv'
<1> DEFINE f == Stream[job[t].sink]
<1>1. /\ mutex = t /\ todo[t] = <<>> /\ buffer[f] = <<>> /\ mutex' = NoThread
      /\ UNCHANGED <<windows, job, todo, buffer, screen, colour, saved, doColours, lines>>
  BY DEF C!Flush
<1>2. PICK full \in BOOLEAN, a \in Nat, b \in Nat : ConsoleAt(t, full, a, b)
  BY <1>1, ConsoleWriter
<1>3. /\ a <= b /\ b <= ConsoleLength(full) /\ 0 = b - a /\ 0 = ConsoleLength(full) - b
      /\ colour = ConsoleColour(full, a)
  BY <1>1, <1>2 DEF ConsoleAt
<1>4. a = ConsoleLength(full)
  BY <1>3 DEF ConsoleLength
<1>5. colour = "plain"
  BY <1>3, <1>4 DEF ConsoleLength, ConsoleColour
<1>6. ConsoleTyped' /\ ConsoleHeld' /\ ConsoleShown'
  BY <1>1 DEF ConsoleInv, ConsoleTyped, ConsoleHeld, ConsoleShown, C!LinesWhole
<1>7. ConsoleFree'
  <2>1. \A g \in C!Streams : buffer[g] = <<>>
    BY <1>1 DEF ConsoleInv, ConsoleFree
  <2>2. \A u \in Threads : todo[u] = <<>>
    BY <1>1 DEF ConsoleInv, ConsoleFree
  <2>3. QED
    BY <1>1, <1>5, <2>1, <2>2 DEF ConsoleFree
<1>8. QED
  BY <1>6, <1>7 DEF ConsoleInv

LEMMA ConsoleStep ==
  ASSUME C!ConsoleAssumption, ConsoleInv, [C!Next]_C!vars
  PROVE  ConsoleInv'
<1>1. ASSUME UNCHANGED <<windows, mutex, job, todo, buffer, screen, colour, saved, lines>>,
             doColours' \in [C!Sinks -> BOOLEAN]
      PROVE  ConsoleInv'
  <2>1. ConsoleTyped'
    BY <1>1 DEF ConsoleInv, ConsoleTyped
  <2>2. ConsoleHeld' /\ ConsoleFree' /\ ConsoleShown'
    BY <1>1 DEF ConsoleInv, ConsoleHeld, ConsoleAt, ConsoleFree, ConsoleShown, C!LinesWhole
  <2>3. QED
    BY <2>1, <2>2 DEF ConsoleInv
<1>2. CASE UNCHANGED C!vars
  BY <1>1, <1>2 DEF C!vars, ConsoleInv, ConsoleTyped
<1>3. ASSUME NEW s \in C!Sinks, C!SetColourMode(s) PROVE ConsoleInv'
  <2>1. doColours' = [doColours EXCEPT ![s] = ~doColours[s]] /\ doColours \in [C!Sinks -> BOOLEAN]
    BY <1>3 DEF C!SetColourMode, ConsoleInv, ConsoleTyped
  <2>2. QED
    BY <1>1, <1>3, <2>1 DEF C!SetColourMode
<1>4. CASE C!Next
  BY <1>3, <1>4, ConsoleLog, ConsolePrintRange, ConsolePrintConsole, ConsoleSpill, ConsoleFlush
     DEF C!Next
<1>5. QED
  BY <1>2, <1>4

LEMMA ConsoleGives == ConsoleInv => C!LinesWhole /\ C!OnlyRangeColoured
BY DEF ConsoleInv, ConsoleShown, ConsoleFree, C!OnlyRangeColoured

\* Through any number of sinks and streams, with the buffers of stdio spilled
\* when it likes or the console written to piece by piece, lines do not mix, only
\* the range the pattern names is in the colour of the level, and the terminal is
\* left as it was (ansicolor_sink-inl.h:46-72, wincolor_sink-inl.h:60-79).
THEOREM ConsoleKeepsLines ==
  C!ConsoleAssumption => (C!Spec => [](C!LinesWhole /\ C!OnlyRangeColoured))
<1> SUFFICES ASSUME C!ConsoleAssumption
             PROVE  C!Spec => [](C!LinesWhole /\ C!OnlyRangeColoured)
  OBVIOUS
<1>1. C!Init => ConsoleInv
  BY ConsoleInitInv
<1>2. ConsoleInv /\ [C!Next]_C!vars => ConsoleInv'
  BY ConsoleStep
<1>3. ConsoleInv => C!LinesWhole /\ C!OnlyRangeColoured
  BY ConsoleGives
<1>4. QED
  BY <1>1, <1>2, <1>3, PTL DEF C!Spec

-----------------------------------------------------------------------------
(* The file that processes share.                                          *)
(*                                                                         *)
(* What a process has written out, what is in its buffer and what is left  *)
(* of its line follow one another (SharedRow); it has come to the end of a *)
(* full buffer, or of all it logs (SharedAt).  Where the file ends or goes *)
(* on with another process, one of the two was so (SharedEnds).            *)

SharedPieces == Processes \X Nat

SharedTyped ==
  /\ windows \in BOOLEAN
  /\ pc \in [Processes -> {"open", "log", "write", "closed"}]
  /\ lines \in [Processes -> Nat] /\ drained \in [Processes -> Nat]
  /\ rest \in [Processes -> Seq(SharedPieces)] /\ buffer \in [Processes -> Seq(SharedPieces)]
  /\ ~windows => file \in Seq(SharedPieces)

SharedRow(p) ==
  /\ drained[p] + Len(buffer[p]) + Len(rest[p]) = lines[p] * Pieces
  /\ \A k \in 1 .. Len(buffer[p]) : buffer[p][k] = <<p, drained[p] + k>>
  /\ \A k \in 1 .. Len(rest[p]) : rest[p][k] = <<p, drained[p] + Len(buffer[p]) + k>>

SharedAt(p) ==
  /\ drained[p] % Capacity = 0 \/ (S!LastWritten(p) /\ buffer[p] = <<>>)
  /\ pc[p] = "write" => buffer[p] # <<>> /\ (Len(buffer[p]) = Capacity \/ S!LastWritten(p))

SharedEnds ==
  \A k \in 1 .. Len(file) :
    k = Len(file) \/ file[k + 1][1] # file[k][1] =>
      file[k][2] % Capacity = 0 \/ file[k][2] = ProcessLines * Pieces

SharedInv ==
  /\ SharedTyped
  /\ \A p \in Processes : pc[p] # "closed" => SharedRow(p) /\ SharedAt(p)
  /\ S!NothingOverwritten
  /\ ~windows => SharedEnds

LEMMA SharedNumbers ==
  ASSUME S!SharedFileAssumption
  PROVE  /\ Pieces \in Nat /\ Pieces >= 1 /\ Capacity \in Nat /\ Capacity >= 1
         /\ ProcessLines \in Nat /\ ProcessLines >= 1
         /\ \A n \in Nat : n * Pieces \in Nat /\ (n + 1) * Pieces = n * Pieces + Pieces
         /\ \A n \in Nat : n % Capacity = 0 => (n + Capacity) % Capacity = 0
         /\ 0 % Capacity = 0 /\ 0 * Pieces = 0
<1>1. /\ Pieces \in Nat /\ Pieces >= 1 /\ Capacity \in Nat /\ Capacity >= 1
      /\ ProcessLines \in Nat /\ ProcessLines >= 1
  BY DEF S!SharedFileAssumption
<1>2. ASSUME NEW n \in Nat
      PROVE  n * Pieces \in Nat /\ (n + 1) * Pieces = n * Pieces + Pieces
  BY <1>1, <1>2
<1>3. ASSUME NEW n \in Nat, n % Capacity = 0 PROVE (n + Capacity) % Capacity = 0
  <2> DEFINE q == n \div Capacity
  <2>1. q \in Nat /\ n = q * Capacity + (n % Capacity)
    BY <1>1
  <2>2. n + Capacity = (q + 1) * Capacity /\ q + 1 \in Nat
    BY <2>1, <1>1, <1>3
  <2>3. ((q + 1) * Capacity) % Capacity = 0
    BY <1>1, <2>2
  <2>4. QED
    BY <2>2, <2>3
<1>4. 0 % Capacity = 0 /\ 0 * Pieces = 0
  BY <1>1
<1>5. QED
  BY <1>1, <1>2, <1>3, <1>4

LEMMA SharedInitInv == S!SharedFileAssumption /\ S!Init => SharedInv
<1> SUFFICES ASSUME S!SharedFileAssumption, S!Init PROVE SharedInv
  OBVIOUS
<1> USE DEF S!Init
<1>1. SharedTyped
  BY DEF SharedTyped
<1>2. ASSUME NEW p \in Processes PROVE SharedRow(p) /\ SharedAt(p)
  BY SharedNumbers DEF SharedRow, SharedAt
<1>3. S!NothingOverwritten /\ SharedEnds
  BY DEF S!NothingOverwritten, SharedEnds
<1>4. QED
  BY <1>1, <1>2, <1>3 DEF SharedInv

\* A process that goes on keeps its row, when only it changes and the file does
\* not.
LEMMA SharedAlone ==
  ASSUME SharedInv, NEW p \in Processes,
         SharedTyped', file' = file, drained' = drained, windows' = windows,
         pc'[p] # "closed" => SharedRow(p)' /\ SharedAt(p)',
         \A q \in Processes : q # p => 
            /\ pc'[q] = pc[q] /\ lines'[q] = lines[q]
            /\ rest'[q] = rest[q] /\ buffer'[q] = buffer[q]
  PROVE  SharedInv'
<1>1. ASSUME NEW q \in Processes, pc'[q] # "closed" PROVE SharedRow(q)' /\ SharedAt(q)'
  <2>1. CASE q = p
    BY <2>1, <1>1
  <2>2. CASE q # p
    BY <2>2, <1>1 DEF SharedInv, SharedRow, SharedAt, S!LastWritten
  <2>3. QED
    BY <2>1, <2>2
<1>2. S!NothingOverwritten' /\ (~windows => SharedEnds)'
  BY DEF SharedInv, S!NothingOverwritten, SharedEnds
<1>3. QED
  BY <1>1, <1>2 DEF SharedInv

LEMMA SharedOpen ==
  ASSUME S!SharedFileAssumption, SharedInv, NEW p \in Processes, S!Open(p)
  PROVE  SharedInv'
<1> USE DEF S!Open
<1>1. SharedTyped'
  BY DEF SharedInv, SharedTyped
<1>2. SharedRow(p)' /\ SharedAt(p)'
  BY DEF SharedInv, SharedTyped, SharedRow, SharedAt, S!LastWritten
<1>3. QED
  BY <1>1, <1>2, SharedAlone DEF SharedInv, SharedTyped

LEMMA SharedWrite ==
  ASSUME S!SharedFileAssumption, SharedInv, NEW p \in Processes, S!Write(p)
  PROVE  SharedInv'
<1> USE DEF S!Write
<1>0. /\ Pieces \in Nat /\ lines[p] \in Nat /\ lines[p] * Pieces \in Nat
      /\ (lines[p] + 1) * Pieces = lines[p] * Pieces + Pieces
  BY SharedNumbers DEF SharedInv, SharedTyped
<1>1. /\ rest'[p] = [k \in 1 .. Pieces |-> <<p, lines[p] * Pieces + k>>]
      /\ lines'[p] = lines[p] + 1
  BY DEF SharedInv, SharedTyped
<1>2. rest'[p] \in Seq(SharedPieces) /\ Len(rest'[p]) = Pieces
  <2>1. ASSUME NEW k \in 1 .. Pieces PROVE <<p, lines[p] * Pieces + k>> \in SharedPieces
    BY <1>0 DEF SharedPieces
  <2>2. QED
    BY <2>1, <1>0, <1>1
<1>3. SharedTyped'
  BY <1>0, <1>1, <1>2 DEF SharedInv, SharedTyped
<1>4. drained[p] \in Nat /\ Len(buffer[p]) \in Nat /\ rest[p] = <<>>
  BY DEF SharedInv, SharedTyped
<1>5. drained[p] + Len(buffer[p]) = lines[p] * Pieces
  BY <1>0, <1>4 DEF SharedInv, SharedRow
<1>6. SharedRow(p)'
  BY <1>0, <1>1, <1>2, <1>4, <1>5 DEF SharedInv, SharedRow
<1>7. SharedAt(p)'
  <2>1. lines[p] # ProcessLines
    BY <1>0, SharedNumbers
  <2>2. drained[p] % Capacity = 0
    BY <2>1 DEF SharedInv, SharedAt, S!LastWritten
  <2>3. drained'[p] = drained[p] /\ pc'[p] = "log"
    OBVIOUS
  <2>4. QED
    BY <2>2, <2>3 DEF SharedAt
<1>8. QED
  BY <1>3, <1>6, <1>7, SharedAlone DEF SharedInv, SharedTyped

LEMMA SharedFill ==
  ASSUME S!SharedFileAssumption, SharedInv, NEW p \in Processes, S!Fill(p)
  PROVE  SharedInv'
<1> USE DEF S!Fill
<1>1. PICK b, r, d, m, n :
        b = buffer[p] /\ r = rest[p] /\ d = drained[p] /\ m = Len(buffer[p]) /\ n = Len(rest[p])
  OBVIOUS
<1>2. b \in Seq(SharedPieces) /\ r \in Seq(SharedPieces) /\ r # <<>> /\ d \in Nat
  BY <1>1 DEF SharedInv, SharedTyped
<1>3. buffer'[p] = Append(b, Head(r)) /\ rest'[p] = Tail(r)
  BY <1>1 DEF SharedInv, SharedTyped
<1>4. /\ m = Len(b) /\ n = Len(r) /\ m \in Nat /\ n \in Nat /\ n >= 1
      /\ Len(Append(b, Head(r))) = m + 1 /\ Len(Tail(r)) = n - 1
      /\ \A k \in 1 .. m : Append(b, Head(r))[k] = b[k]
      /\ Append(b, Head(r))[m + 1] = r[1]
      /\ \A k \in 1 .. n - 1 : Tail(r)[k] = r[k + 1]
      /\ Append(b, Head(r)) \in Seq(SharedPieces) /\ Tail(r) \in Seq(SharedPieces)
  BY <1>1, <1>2
<1>5. SharedTyped'
  BY <1>2, <1>3, <1>4 DEF SharedInv, SharedTyped
<1>6. SharedRow(p)'
  <2>1. /\ d + m + n = lines[p] * Pieces
        /\ \A k \in 1 .. m : b[k] = <<p, d + k>>
        /\ \A k \in 1 .. n : r[k] = <<p, d + m + k>>
    BY <1>1 DEF SharedInv, SharedRow
  <2>2. drained'[p] + Len(buffer'[p]) + Len(rest'[p]) = lines'[p] * Pieces
    <3>1. lines'[p] = lines[p] /\ drained'[p] = d
      BY <1>1
    <3>2. Len(buffer'[p]) = m + 1 /\ Len(rest'[p]) = n - 1
      BY <1>3, <1>4
    <3>3. d + (m + 1) + (n - 1) = d + m + n
      BY <1>2, <1>4
    <3>4. QED
      BY <2>1, <3>1, <3>2, <3>3
  <2>3. ASSUME NEW k \in 1 .. Len(buffer'[p]) PROVE buffer'[p][k] = <<p, drained'[p] + k>>
    <3>1. CASE k \in 1 .. m
      BY <3>1, <2>1, <1>1, <1>2, <1>3, <1>4
    <3>2. CASE k = m + 1
      <4>1. 1 \in 1 .. n /\ r[1] = <<p, d + m + 1>>
        BY <2>1, <1>4
      <4>2. buffer'[p][m + 1] = r[1] /\ drained'[p] = d
        BY <1>1, <1>3, <1>4
      <4>3. d + m + 1 = d + k
        BY <3>2, <1>2, <1>4
      <4>4. QED
        BY <4>1, <4>2, <4>3, <3>2
    <3>3. QED
      BY <3>1, <3>2, <1>3, <1>4
  <2>4. ASSUME NEW k \in 1 .. Len(rest'[p])
        PROVE  rest'[p][k] = <<p, drained'[p] + Len(buffer'[p]) + k>>
    <3>1. k \in 1 .. n - 1 /\ k + 1 \in 1 .. n
      BY <1>3, <1>4
    <3>2. rest'[p][k] = <<p, d + m + (k + 1)>>
      BY <3>1, <2>1, <1>3, <1>4
    <3>3. d + m + (k + 1) = d + (m + 1) + k
      BY <3>1, <1>2, <1>4
    <3>4. Len(buffer'[p]) = m + 1 /\ drained'[p] = d
      BY <1>1, <1>3, <1>4
    <3>5. QED
      BY <3>2, <3>3, <3>4
  <2>5. QED
    BY <2>2, <2>3, <2>4 DEF SharedRow
<1>7. SharedAt(p)'
  BY DEF SharedInv, SharedTyped, SharedAt, S!LastWritten
<1>8. QED
  BY <1>5, <1>6, <1>7, SharedAlone DEF SharedInv, SharedTyped

LEMMA SharedWriteOut ==
  ASSUME S!SharedFileAssumption, SharedInv, NEW p \in Processes, S!WriteOut(p)
  PROVE  SharedInv'
<1> USE DEF S!WriteOut
<1>0. pc' = [pc EXCEPT ![p] = "write"] /\ UNCHANGED <<windows, lines, rest, buffer, file, drained>>
  OBVIOUS
<1>1. SharedTyped'
  <2> HIDE DEF S!WriteOut
  <2>1. QED
    BY <1>0 DEF SharedInv, SharedTyped
<1>2. SharedRow(p)' /\ SharedAt(p)'
  BY DEF SharedInv, SharedTyped, SharedRow, SharedAt, S!LastWritten
<1>3. QED
  BY <1>1, <1>2, SharedAlone DEF SharedInv, SharedTyped

LEMMA SharedGone ==
  ASSUME S!SharedFileAssumption, SharedInv, NEW p \in Processes, S!Close(p) \/ S!Kill(p)
  PROVE  SharedInv'
<1>1. /\ pc' = [pc EXCEPT ![p] = "closed"] /\ UNCHANGED <<windows, lines, file, drained>>
      /\ buffer' = buffer \/ buffer' = [buffer EXCEPT ![p] = <<>>]
      /\ rest' = rest \/ rest' = [rest EXCEPT ![p] = <<>>]
  BY DEF S!Close, S!Kill
<1>2. SharedTyped' /\ pc'[p] = "closed"
  <2>1. SharedTyped /\ <<>> \in Seq(SharedPieces)
    BY DEF SharedInv
  <2>2. rest' \in [Processes -> Seq(SharedPieces)]
    BY <1>1, <2>1 DEF SharedTyped
  <2>3. buffer' \in [Processes -> Seq(SharedPieces)]
    BY <1>1, <2>1 DEF SharedTyped
  <2>4. pc' \in [Processes -> {"open", "log", "write", "closed"}] /\ pc'[p] = "closed"
    BY <1>1, <2>1 DEF SharedTyped
  <2>5. QED
    BY <1>1, <2>1, <2>2, <2>3, <2>4 DEF SharedTyped
<1>3. QED
  BY <1>1, <1>2, SharedAlone DEF SharedInv, SharedTyped

\* The buffer goes behind what the file has.
LEMMA SharedAppended ==
  ASSUME SharedInv, NEW p \in Processes, S!Drain(p), ~windows, SharedRow(p)
  PROVE  /\ Len(file) \in Nat /\ DOMAIN file = 1 .. Len(file)
         /\ file' \in Seq(SharedPieces) /\ Len(file') = Len(file) + Len(buffer[p])
         /\ DOMAIN file' = 1 .. Len(file) + Len(buffer[p])
         /\ \A k \in 1 .. Len(file) : file'[k] = file[k]
         /\ \A k \in Len(file) + 1 .. Len(file) + Len(buffer[p]) :
              file'[k] = <<p, drained[p] + (k - Len(file))>>
<1>1. PICK f, b, d, m, n :
        f = file /\ b = buffer[p] /\ d = drained[p] /\ m = Len(buffer[p]) /\ n = Len(file)
  OBVIOUS
<1>2. f \in Seq(SharedPieces) /\ b \in Seq(SharedPieces) /\ d \in Nat
  BY <1>1 DEF SharedInv, SharedTyped
<1>3. n \in Nat /\ m \in Nat /\ DOMAIN f = 1 .. n /\ DOMAIN b = 1 .. m
  BY <1>1, <1>2
<1>4. \A k \in 1 .. m : b[k] = <<p, d + k>>
  BY <1>1 DEF SharedRow
<1>5. file' = [k \in (1 .. n) \cup (n + 1 .. n + m) |-> IF k \in n + 1 .. n + m THEN b[k - n] ELSE f[k]]
  BY <1>1, <1>3 DEF S!Drain, S!PutAt
<1>6. (1 .. n) \cup (n + 1 .. n + m) = 1 .. n + m
  BY <1>3
<1>7. ASSUME NEW k \in 1 .. n PROVE file'[k] = f[k] /\ f[k] \in SharedPieces
  BY <1>2, <1>3, <1>5
<1>8. ASSUME NEW k \in n + 1 .. n + m PROVE file'[k] = <<p, d + (k - n)>> /\ d + (k - n) \in Nat
  <2>1. k - n \in 1 .. m
    BY <1>3
  <2>2. QED
    BY <2>1, <1>2, <1>3, <1>4, <1>5
<1>9. file' \in [1 .. n + m -> SharedPieces]
  <2>1. ASSUME NEW k \in 1 .. n + m PROVE file'[k] \in SharedPieces
    <3>1. k \in 1 .. n \/ k \in n + 1 .. n + m
      BY <1>6
    <3>2. CASE k \in 1 .. n
      BY <3>2, <1>7
    <3>3. CASE k \in n + 1 .. n + m
      <4>1. PICK x \in Nat : file'[k] = <<p, x>>
        BY <3>3, <1>8
      <4>2. QED
        BY <4>1 DEF SharedPieces
    <3>4. QED
      BY <3>1, <3>2, <3>3
  <2>2. QED
    BY <2>1, <1>5, <1>6
<1>10. file' \in Seq(SharedPieces) /\ Len(file') = n + m /\ DOMAIN file' = 1 .. n + m
  BY <1>9, <1>3
<1>11. QED
  BY <1>1, <1>3, <1>7, <1>8, <1>10

\* What has come to the end of a full buffer, or of all lines, is written.
LEMMA SharedOut ==
  ASSUME S!SharedFileAssumption, SharedInv, NEW p \in Processes, S!Drain(p)
  PROVE  /\ drained[p] \in Nat /\ Len(buffer[p]) \in Nat /\ Len(buffer[p]) >= 1
         /\ \/ (drained[p] + Len(buffer[p])) % Capacity = 0
            \/ /\ S!LastWritten(p)
               /\ drained[p] + Len(buffer[p]) = ProcessLines * Pieces
<1>1. SharedRow(p) /\ SharedAt(p) /\ pc[p] = "write"
  BY DEF SharedInv, S!Drain
<1>2. /\ drained[p] \in Nat /\ buffer[p] \in Seq(SharedPieces) /\ rest[p] \in Seq(SharedPieces)
      /\ lines[p] \in Nat
  BY DEF SharedInv, SharedTyped
<1>3. Len(buffer[p]) \in Nat /\ Len(buffer[p]) >= 1 /\ Len(rest[p]) \in Nat
  BY <1>1, <1>2 DEF SharedAt
<1>4. drained[p] % Capacity = 0
  BY <1>1 DEF SharedAt
<1>5. CASE Len(buffer[p]) = Capacity
  BY <1>2, <1>3, <1>4, <1>5, SharedNumbers
<1>6. CASE S!LastWritten(p)
  <2>1. lines[p] = ProcessLines /\ Len(rest[p]) = 0
    BY <1>6 DEF S!LastWritten
  <2>2. drained[p] + Len(buffer[p]) + Len(rest[p]) = lines[p] * Pieces
    BY <1>1 DEF SharedRow
  <2>3. QED
    BY <2>1, <2>2, <1>2, <1>3, <1>6
<1>7. QED
  BY <1>1, <1>5, <1>6 DEF SharedAt

LEMMA SharedDrain ==
  ASSUME S!SharedFileAssumption, SharedInv, NEW p \in Processes, S!Drain(p)
  PROVE  SharedInv'
<1>1. SharedRow(p) /\ SharedAt(p) /\ pc[p] = "write"
  BY DEF SharedInv, S!Drain
<1>2. PICK f, b, d, m, n :
        f = file /\ b = buffer[p] /\ d = drained[p] /\ m = Len(buffer[p]) /\ n = Len(file)
  OBVIOUS
<1>3. /\ d \in Nat /\ m \in Nat /\ m >= 1
      /\ (d + m) % Capacity = 0 \/ (S!LastWritten(p) /\ d + m = ProcessLines * Pieces)
  BY <1>2, SharedOut
<1>4. /\ drained' = [drained EXCEPT ![p] = d + m] /\ buffer' = [buffer EXCEPT ![p] = <<>>]
      /\ pc' = [pc EXCEPT ![p] = "log"] /\ UNCHANGED <<windows, lines, rest>>
  BY <1>2 DEF S!Drain
<1>5. /\ drained'[p] = d + m /\ buffer'[p] = <<>> /\ pc'[p] = "log"
      /\ \A q \in Processes : q # p => drained'[q] = drained[q] /\ buffer'[q] = buffer[q] /\ pc'[q] = pc[q]
      /\ \A q \in Processes : drained[q] \in Nat /\ drained'[q] \in Nat /\ drained[q] <= drained'[q]
  BY <1>2, <1>3, <1>4 DEF SharedInv, SharedTyped
<1>6. SharedTyped'
  <2>1. ~windows => file' \in Seq(SharedPieces)
    BY <1>1, SharedAppended
  <2>2. d + m \in Nat
    BY <1>3
  <2>3. QED
    BY <2>1, <2>2, <1>4 DEF SharedInv, SharedTyped
<1>7. ASSUME NEW q \in Processes, pc'[q] # "closed" PROVE SharedRow(q)' /\ SharedAt(q)'
  <2>1. CASE q # p
    <3>1. SharedRow(q) /\ SharedAt(q)
      BY <2>1, <1>5, <1>7 DEF SharedInv
    <3>2. /\ drained'[q] = drained[q] /\ buffer'[q] = buffer[q] /\ pc'[q] = pc[q]
          /\ lines'[q] = lines[q] /\ rest'[q] = rest[q]
      BY <2>1, <1>4, <1>5
    <3>3. QED
      BY <3>1, <3>2 DEF SharedRow, SharedAt, S!LastWritten
  <2>2. CASE q = p
    <3>1. /\ d + m + Len(rest[p]) = lines[p] * Pieces
          /\ \A k \in 1 .. Len(rest[p]) : rest[p][k] = <<p, d + m + k>>
      BY <1>1, <1>2 DEF SharedRow
    <3>2. Len(rest[p]) \in Nat
      BY DEF SharedInv, SharedTyped
    <3>3. lines'[p] = lines[p] /\ rest'[p] = rest[p] /\ Len(buffer'[p]) = 0
      BY <1>4, <1>5
    <3>4. d + m + 0 + Len(rest[p]) = d + m + Len(rest[p])
          /\ \A k \in 1 .. Len(rest[p]) : d + m + 0 + k = d + m + k
      BY <1>3, <3>2
    <3>5. SharedRow(p)'
      BY <3>1, <3>3, <3>4, <1>5 DEF SharedRow
    <3>6. SharedAt(p)'
      BY <1>3, <1>5, <3>3 DEF SharedAt, S!LastWritten
    <3>7. QED
      BY <2>2, <3>5, <3>6
  <2>3. QED
    BY <2>1, <2>2
<1>8. ASSUME ~windows PROVE S!NothingOverwritten' /\ SharedEnds'
  <2>1. /\ n \in Nat /\ DOMAIN f = 1 .. n /\ f \in Seq(SharedPieces)
        /\ Len(file') = n + m /\ DOMAIN file' = 1 .. n + m
        /\ \A k \in 1 .. n : file'[k] = f[k]
        /\ \A k \in n + 1 .. n + m : file'[k] = <<p, d + (k - n)>>
    BY <1>1, <1>2, <1>8, SharedAppended DEF SharedInv, SharedTyped
  <2>2. /\ \A q \in Processes : \A x \in 1 .. drained[q] : \E k \in 1 .. n : f[k] = <<q, x>>
        /\ \A k \in 1 .. n : f[k][2] \in 1 .. drained[f[k][1]]
        /\ \A j, k \in 1 .. n : j < k /\ f[j][1] = f[k][1] => f[j][2] < f[k][2]
    BY <2>1, <1>2, <1>8 DEF SharedInv, S!NothingOverwritten
  <2>3. \A k \in 1 .. n :
          k = n \/ f[k + 1][1] # f[k][1] => f[k][2] % Capacity = 0 \/ f[k][2] = ProcessLines * Pieces
    BY <1>2, <1>8 DEF SharedInv, SharedEnds
  <2>4. \A k \in 1 .. n : f[k][1] \in Processes /\ f[k][2] \in Nat
    BY <2>1 DEF SharedPieces
  <2>5. \A k \in 1 .. n + m : k \in 1 .. n \/ k \in n + 1 .. n + m
    BY <2>1, <1>3
  <2>6. ASSUME NEW q \in Processes, NEW x \in 1 .. drained'[q]
        PROVE  \E k \in 1 .. n + m : file'[k] = <<q, x>>
    <3>1. CASE x \in 1 .. drained[q]
      <4>1. PICK k \in 1 .. n : f[k] = <<q, x>>
        BY <3>1, <2>2
      <4>2. k \in 1 .. n + m
        BY <2>1, <1>3
      <4>3. QED
        BY <4>1, <4>2, <2>1
    <3>2. CASE q = p /\ x > d
      <4>1. x \in Nat /\ x <= d + m
        BY <3>2, <1>3, <1>5
      <4>2. n + (x - d) \in n + 1 .. n + m /\ n + (x - d) \in 1 .. n + m
        BY <4>1, <3>2, <1>3, <2>1
      <4>3. d + ((n + (x - d)) - n) = x
        BY <4>1, <1>3, <2>1
      <4>4. QED
        BY <4>2, <4>3, <3>2, <2>1
    <3>3. QED
      BY <3>1, <3>2, <1>2, <1>5
  <2>7. ASSUME NEW k \in 1 .. n + m PROVE file'[k][2] \in 1 .. drained'[file'[k][1]]
    <3>1. CASE k \in 1 .. n
      <4>1. f[k][2] \in Nat /\ f[k][2] >= 1 /\ f[k][2] <= drained[f[k][1]] /\ f[k][1] \in Processes
        BY <3>1, <2>2, <2>4, <1>5
      <4>2. QED
        BY <4>1, <3>1, <2>1, <1>5
    <3>2. CASE k \in n + 1 .. n + m
      <4>1. d + (k - n) \in 1 .. d + m
        BY <3>2, <2>1, <1>3
      <4>2. QED
        BY <4>1, <3>2, <2>1, <1>5
    <3>3. QED
      BY <3>1, <3>2, <2>5
  <2>8. ASSUME NEW j \in 1 .. n + m, NEW k \in 1 .. n + m, j < k, file'[j][1] = file'[k][1]
        PROVE  file'[j][2] < file'[k][2]
    <3>1. CASE k \in 1 .. n
      <4>1. j \in 1 .. n
        BY <3>1, <2>8, <2>1
      <4>2. QED
        BY <4>1, <3>1, <2>8, <2>1, <2>2
    <3>2. CASE j \in 1 .. n /\ k \in n + 1 .. n + m
      <4>1. f[j][1] = p /\ f[j][2] \in 1 .. d
        BY <3>2, <2>8, <2>1, <2>2, <1>2
      <4>2. d < d + (k - n) /\ f[j][2] < d + (k - n)
        BY <4>1, <3>2, <2>1, <1>3
      <4>3. QED
        BY <4>2, <3>2, <2>1
    <3>3. CASE j \in n + 1 .. n + m /\ k \in n + 1 .. n + m
      <4>1. d + (j - n) < d + (k - n)
        BY <3>3, <2>8, <2>1, <1>3
      <4>2. QED
        BY <4>1, <3>3, <2>1
    <3>4. QED
      BY <3>1, <3>2, <3>3, <2>5
  <2>9. ASSUME NEW k \in 1 .. n + m, k = n + m \/ file'[k + 1][1] # file'[k][1]
        PROVE  file'[k][2] % Capacity = 0 \/ file'[k][2] = ProcessLines * Pieces
    <3>1. CASE k \in 1 .. n
      <4>1. k = n \/ (k + 1 \in 1 .. n /\ k # n + m)
        BY <3>1, <2>1, <1>3
      <4>2. k = n \/ f[k + 1][1] # f[k][1]
        BY <4>1, <3>1, <2>1, <2>9
      <4>3. QED
        BY <4>2, <3>1, <2>1, <2>3
    <3>2. CASE k \in n + 1 .. n + m /\ k # n + m
      <4>1. k + 1 \in n + 1 .. n + m
        BY <3>2, <2>1, <1>3
      <4>2. QED
        BY <4>1, <3>2, <2>1, <2>9
    <3>3. CASE k = n + m
      <4>1. k \in n + 1 .. n + m /\ d + (k - n) = d + m
        BY <3>3, <2>1, <1>3
      <4>2. file'[k][2] = d + m
        BY <4>1, <2>1
      <4>3. QED
        BY <4>2, <1>3
    <3>4. QED
      BY <3>1, <3>2, <3>3, <2>5
  <2>10. S!NothingOverwritten'
    BY <2>1, <2>6, <2>7, <2>8 DEF S!NothingOverwritten
  <2>11. SharedEnds'
    BY <2>1, <2>9 DEF SharedEnds
  <2>12. QED
    BY <2>10, <2>11
<1>9. QED
  BY <1>4, <1>6, <1>7, <1>8 DEF SharedInv, S!NothingOverwritten

LEMMA SharedStep ==
  ASSUME S!SharedFileAssumption, SharedInv, [S!Next]_S!vars
  PROVE  SharedInv'
<1>1. CASE UNCHANGED S!vars
  BY <1>1 DEF S!vars, SharedInv, SharedTyped, SharedRow, SharedAt, SharedEnds,
    S!NothingOverwritten, S!LastWritten
<1>2. CASE S!Next
  <2>1. PICK p \in Processes :
          \/ S!Open(p) \/ S!Write(p) \/ S!Fill(p) \/ S!WriteOut(p) \/ S!Drain(p)
          \/ S!Close(p) \/ S!Kill(p)
    BY <1>2 DEF S!Next
  <2>2. QED
    BY <2>1, SharedOpen, SharedWrite, SharedFill, SharedWriteOut, SharedDrain, SharedGone
<1>3. QED
  BY <1>1, <1>2

LEMMA SharedCuts == SharedInv => S!NothingOverwritten /\ S!CutAtBufferEnds
<1> SUFFICES ASSUME SharedInv, ~windows, NEW k \in 1 .. Len(file) - 1,
                    file[k + 1][1] # file[k][1]
             PROVE  file[k][2] % Capacity = 0 \/ file[k][2] = ProcessLines * Pieces
  BY DEF SharedInv, S!CutAtBufferEnds
<1>1. k \in 1 .. Len(file)
  BY DEF SharedInv, SharedTyped
<1>2. QED
  BY <1>1 DEF SharedInv, SharedEnds

\* Whatever buffers and whenever processes are killed, on POSIX nothing of the
\* shared file is overwritten, and lines are cut where full buffers end only
\* (Logging.cpp:58, file_helper-inl.h:26-106).
THEOREM SharedFileKept ==
  S!SharedFileAssumption => (S!Spec => [](S!NothingOverwritten /\ S!CutAtBufferEnds))
<1> SUFFICES ASSUME S!SharedFileAssumption
             PROVE  S!Spec => [](S!NothingOverwritten /\ S!CutAtBufferEnds)
  OBVIOUS
<1>1. S!Init => SharedInv
  BY SharedInitInv
<1>2. SharedInv /\ [S!Next]_S!vars => SharedInv'
  BY SharedStep
<1>3. SharedInv => S!NothingOverwritten /\ S!CutAtBufferEnds
  BY SharedCuts
<1>4. QED
  BY <1>1, <1>2, <1>3, PTL DEF S!Spec

-----------------------------------------------------------------------------
(* The sinks of system services.                                           *)
(*                                                                         *)
(* What a service has is in the order of the records and their lines, and  *)
(* before what is in hand (ServiceStored); what is on its way, in Kafka's  *)
(* producer or Qt's events, is behind what Kafka has and not yet in the    *)
(* document (ServiceQueued, ServiceShown).  The sinks that ask a service   *)
(* and hear what it says are one case (ServiceAnswered).                   *)

ServiceTyped ==
  /\ rec \in 0 .. Len(Records) /\ line \in Nat \ {0} /\ tries \in 0 .. Retries + 1
  /\ stored \in Seq(Nat \X Nat) /\ torn \in BOOLEAN
  /\ queue \in Seq(1 .. Len(Records)) /\ blocks \in Seq(Nat \X Nat)
  /\ returned \subseteq 1 .. rec /\ thrown \subseteq 1 .. rec

ServiceCall ==
  /\ pc \in {"idle", "send", "prefix", "text", "newline"}
  /\ pc # "idle" => rec # 0 /\ rec \notin returned /\ rec \notin thrown
  /\ pc = "send" => kind # "namespace" /\ tries <= Retries
  /\ pc \in {"prefix", "text", "newline"} => kind = "namespace" /\ line <= Records[rec].lines
  /\ pc = "newline" => line = Records[rec].lines
  /\ life \in {"new", "failed", "gone"} => fds = 0

ServiceStored ==
  /\ \A j, k \in DOMAIN stored : j < k => A!Before(stored[j], stored[k])
  /\ \A k \in DOMAIN stored : stored[k][1] <= rec
  /\ pc = "send" => \A k \in DOMAIN stored : stored[k][1] < rec
  /\ pc # "idle" => \A k \in DOMAIN stored : A!Before(stored[k], <<rec, line>>)

ServiceQueued ==
  /\ \A m \in DOMAIN queue : queue[m] <= rec /\ (pc = "send" => queue[m] < rec)
  /\ \A l, m \in DOMAIN queue : l < m => queue[l] < queue[m]
  /\ kind = "kafka" =>
       \A k \in DOMAIN stored : \A m \in DOMAIN queue : stored[k][1] < queue[m]

ServiceShown ==
  kind = "qtcolor" =>
    /\ \A k \in DOMAIN blocks : blocks[k][1] <= rec /\ (pc = "send" => blocks[k][1] < rec)
    /\ \A k \in DOMAIN blocks : \A m \in DOMAIN queue : blocks[k][1] # queue[m]
    /\ A!LastLinesShown

ServiceKept ==
  /\ kind \in {"systemd", "eventlog", "loki", "mongo"} =>
       \A r \in returned : A!Contains(stored, <<r, 0>>)
  /\ kind \in {"systemd", "eventlog", "android"} =>
       \A r \in thrown : ~A!Contains(stored, <<r, 0>>)

ServiceInv ==
  /\ ServiceTyped /\ ServiceCall /\ ServiceStored /\ ServiceQueued /\ ServiceShown
  /\ ServiceKept /\ A!EachLineOnce

\* An answer was heard: the call returned, threw, or tries again.
ServiceAnswered ==
  /\ pc = "send" /\ kind \in {"android", "systemd", "syslog", "loki", "mongo", "eventlog"}
  /\ UNCHANGED <<kind, life, fds, rec, line, torn, queue, blocks>>
  /\ tries' \in 0 .. Retries + 1
  /\ \/ A!Return /\ (A!Store \/ (stored' = stored /\ kind \in {"android", "syslog"}))
     \/ A!Throw /\ (stored' = stored \/ (A!Store /\ kind \in {"loki", "mongo"}))
     \/ UNCHANGED <<pc, stored, returned, thrown>> /\ tries' <= Retries

LEMMA ServiceConstants ==
  ASSUME A!SystemSinksAssumption
  PROVE  /\ Retries \in Nat /\ WidgetLines \in Nat /\ WidgetLines >= 1 /\ Len(Records) \in Nat
         /\ \A r \in 1 .. Len(Records) : Records[r].lines \in Nat /\ Records[r].lines >= 1
<1>1. /\ Records \in Seq([lines : Nat \ {0}, newline : BOOLEAN])
      /\ Retries \in Nat /\ WidgetLines \in Nat \ {0}
  BY DEF A!SystemSinksAssumption
<1> DEFINE Texts == [lines : Nat \ {0}, newline : BOOLEAN]
<1>2. Len(Records) \in Nat /\ \A r \in 1 .. Len(Records) : Records[r] \in Texts
  <2>1. Records \in Seq(Texts)
    BY <1>1
  <2> HIDE DEF Texts
  <2>2. QED
    BY <2>1
<1>3. ASSUME NEW r \in 1 .. Len(Records)
      PROVE  Records[r].lines \in Nat /\ Records[r].lines >= 1
  <2>1. Records[r] \in Texts
    BY <1>2
  <2>2. Records[r].lines \in Nat \ {0}
    BY <2>1
  <2>3. QED
    BY <2>2
<1>4. QED
  BY <1>1, <1>2, <1>3

LEMMA ServiceTypes ==
  ASSUME A!SystemSinksAssumption, ServiceTyped
  PROVE  /\ rec \in Nat /\ line \in Nat /\ Len(stored) \in Nat /\ DOMAIN stored = 1 .. Len(stored)
         /\ Len(queue) \in Nat /\ DOMAIN queue = 1 .. Len(queue)
         /\ Len(blocks) \in Nat /\ DOMAIN blocks = 1 .. Len(blocks)
         /\ \A k \in DOMAIN stored : stored[k] \in Nat \X Nat /\ stored[k][1] \in Nat /\ stored[k][2] \in Nat
         /\ \A k \in DOMAIN blocks : blocks[k] \in Nat \X Nat /\ blocks[k][1] \in Nat /\ blocks[k][2] \in Nat
         /\ \A m \in DOMAIN queue : queue[m] \in Nat /\ queue[m] \in 1 .. Len(Records)
<1>1. Len(Records) \in Nat
  BY ServiceConstants
<1>2. /\ stored \in Seq(Nat \X Nat) /\ blocks \in Seq(Nat \X Nat)
      /\ queue \in Seq(1 .. Len(Records)) /\ rec \in Nat /\ line \in Nat
  BY <1>1 DEF ServiceTyped
<1>3. \A k \in DOMAIN stored : stored[k] \in Nat \X Nat
  BY <1>2
<1>4. \A k \in DOMAIN blocks : blocks[k] \in Nat \X Nat
  BY <1>2
<1>5. \A m \in DOMAIN queue : queue[m] \in 1 .. Len(Records)
  BY <1>2
<1>6. QED
  BY <1>1, <1>2, <1>3, <1>4, <1>5

LEMMA ServiceInitInv == A!SystemSinksAssumption /\ A!Init => ServiceInv
<1> SUFFICES ASSUME A!SystemSinksAssumption, A!Init PROVE ServiceInv
  OBVIOUS
<1>0. Len(Records) \in Nat /\ Retries \in Nat
  BY ServiceConstants
<1> USE DEF A!Init
<1>1. ServiceTyped
  <2>1. /\ <<>> \in Seq(Nat \X Nat) /\ <<>> \in Seq(1 .. Len(Records))
        /\ 0 \in 0 .. Len(Records) /\ 0 \in 0 .. Retries + 1 /\ 1 \in Nat \ {0}
    BY <1>0
  <2>2. QED
    BY <2>1 DEF ServiceTyped
<1>2. ServiceCall /\ ServiceStored /\ ServiceQueued /\ ServiceKept
  BY DEF ServiceCall, ServiceStored, ServiceQueued, ServiceKept
<1>3. ServiceShown /\ A!EachLineOnce
  BY DEF ServiceShown, A!LastLinesShown, A!EachLineOnce, A!Begun
<1>4. QED
  BY <1>1, <1>2, <1>3 DEF ServiceInv

\* A service that gets one thing more keeps its order.
LEMMA ServiceAppended ==
  ASSUME A!SystemSinksAssumption, ServiceTyped, NEW x \in Nat \X Nat,
         stored' = Append(stored, x),
         \A j, k \in DOMAIN stored : j < k => A!Before(stored[j], stored[k]),
         \A k \in DOMAIN stored : A!Before(stored[k], x)
  PROVE  /\ stored' \in Seq(Nat \X Nat) /\ Len(stored') = Len(stored) + 1
         /\ DOMAIN stored' = 1 .. Len(stored) + 1
         /\ \A k \in DOMAIN stored : stored'[k] = stored[k] /\ k \in DOMAIN stored'
         /\ \A k \in DOMAIN stored' : k \in DOMAIN stored \/ stored'[k] = x
         /\ stored'[Len(stored) + 1] = x
         /\ \A j, k \in DOMAIN stored' : j < k => A!Before(stored'[j], stored'[k])
         /\ \A y : A!Contains(stored', y) <=> A!Contains(stored, y) \/ y = x
<1>1. stored \in Seq(Nat \X Nat) /\ Len(stored) \in Nat /\ DOMAIN stored = 1 .. Len(stored)
  BY ServiceTypes DEF ServiceTyped
<1>2. /\ stored' \in Seq(Nat \X Nat) /\ Len(stored') = Len(stored) + 1
      /\ DOMAIN stored' = 1 .. Len(stored) + 1
      /\ \A k \in DOMAIN stored : stored'[k] = stored[k] /\ k \in DOMAIN stored'
      /\ stored'[Len(stored) + 1] = x
  BY <1>1
<1>3. \A k \in DOMAIN stored' : k \in DOMAIN stored \/ k = Len(stored) + 1
  BY <1>1, <1>2
<1>4. ASSUME NEW j \in DOMAIN stored', NEW k \in DOMAIN stored', j < k
      PROVE  A!Before(stored'[j], stored'[k])
  <2>1. j \in DOMAIN stored
    BY <1>1, <1>2, <1>4
  <2>2. CASE k \in DOMAIN stored
    BY <1>2, <1>4, <2>1, <2>2
  <2>3. CASE k = Len(stored) + 1
    BY <1>2, <2>1, <2>3
  <2>4. QED
    BY <1>3, <2>2, <2>3
<1>5. ASSUME NEW y PROVE A!Contains(stored', y) <=> A!Contains(stored, y) \/ y = x
  <2>1. A!Contains(stored', y) <=> \E k \in DOMAIN stored' : stored'[k] = y
    BY <1>2 DEF A!Contains
  <2>2. A!Contains(stored, y) <=> \E k \in DOMAIN stored : stored[k] = y
    BY <1>1 DEF A!Contains
  <2>3. Len(stored) + 1 \in DOMAIN stored'
    BY <1>1, <1>2
  <2>4. QED
    BY <2>1, <2>2, <2>3, <1>2, <1>3
<1>6. QED
  BY <1>2, <1>3, <1>4, <1>5

\* Sinks without lines, a queue or a document have nothing but what is stored.
LEMMA ServiceAnswer ==
  ASSUME A!SystemSinksAssumption, ServiceInv, ServiceAnswered
  PROVE  ServiceInv'
<1>1. /\ kind' = kind /\ life' = life /\ fds' = fds /\ rec' = rec /\ line' = line
      /\ torn' = torn /\ queue' = queue /\ blocks' = blocks
      /\ pc = "send" /\ kind \in {"android", "systemd", "syslog", "loki", "mongo", "eventlog"}
  BY DEF ServiceAnswered
<1>2. rec \in Nat /\ rec >= 1 /\ line \in Nat /\ rec \notin returned /\ rec \notin thrown
  BY <1>1, ServiceTypes DEF ServiceInv, ServiceTyped, ServiceCall
<1>3. /\ \A j, k \in DOMAIN stored : j < k => A!Before(stored[j], stored[k])
      /\ \A k \in DOMAIN stored : stored[k][1] < rec
  BY <1>1 DEF ServiceInv, ServiceStored
<1>4. /\ stored' = stored \/ A!Store
      /\ pc' \in {"idle", "send"}
      /\ pc' = "send" => stored' = stored /\ returned' = returned /\ thrown' = thrown /\ tries' <= Retries
      /\ returned' = returned \/ returned' = returned \cup {rec}
      /\ thrown' = thrown \/ thrown' = thrown \cup {rec}
  BY <1>1 DEF ServiceAnswered, A!Return, A!Throw
<1>5. /\ stored' \in Seq(Nat \X Nat)
      /\ \A j, k \in DOMAIN stored' : j < k => A!Before(stored'[j], stored'[k])
      /\ \A k \in DOMAIN stored' : stored'[k][1] <= rec
      /\ \A y : A!Contains(stored', y) <=> A!Contains(stored, y) \/ (y = <<rec, 0>> /\ A!Store)
  <2>1. CASE A!Store
    <3>1. <<rec, 0>> \in Nat \X Nat /\ stored' = Append(stored, <<rec, 0>>)
      BY <2>1, <1>2 DEF A!Store
    <3>2. \A k \in DOMAIN stored : A!Before(stored[k], <<rec, 0>>)
      BY <1>3 DEF A!Before
    <3>3. /\ stored' \in Seq(Nat \X Nat)
          /\ \A k \in DOMAIN stored : stored'[k] = stored[k]
          /\ \A k \in DOMAIN stored' : k \in DOMAIN stored \/ stored'[k] = <<rec, 0>>
          /\ \A j, k \in DOMAIN stored' : j < k => A!Before(stored'[j], stored'[k])
          /\ \A y : A!Contains(stored', y) <=> A!Contains(stored, y) \/ y = <<rec, 0>>
      BY <3>1, <3>2, <1>3, ServiceAppended DEF ServiceInv
    <3>4. ASSUME NEW k \in DOMAIN stored' PROVE stored'[k][1] <= rec
      BY <3>3, <1>2, <1>3, ServiceTypes DEF ServiceInv
    <3>5. QED
      BY <3>3, <3>4, <2>1
  <2>2. CASE stored' = stored /\ ~A!Store
    BY <2>2, <1>2, <1>3, ServiceTypes DEF ServiceInv, ServiceTyped
  <2>3. QED
    BY <2>1, <2>2, <1>4
<1>6. ServiceTyped'
  <2>1. ServiceTyped
    BY DEF ServiceInv
  <2>2. rec \in 1 .. rec
    BY <1>2
  <2>3. returned' \subseteq 1 .. rec /\ thrown' \subseteq 1 .. rec
    BY <2>1, <2>2, <1>4 DEF ServiceTyped
  <2>4. tries' \in 0 .. Retries + 1
    BY DEF ServiceAnswered
  <2>5. QED
    BY <2>1, <2>3, <2>4, <1>1, <1>5 DEF ServiceTyped
<1>7. ServiceCall'
  BY <1>1, <1>4 DEF ServiceInv, ServiceCall
<1>8. ServiceStored'
  <2>1. CASE pc' = "idle"
    BY <2>1, <1>1, <1>5 DEF ServiceStored
  <2>2. CASE pc' = "send"
    BY <2>2, <1>1, <1>4 DEF ServiceInv, ServiceStored
  <2>3. QED
    BY <2>1, <2>2, <1>4
<1>9. ServiceQueued' /\ ServiceShown' /\ A!EachLineOnce'
  BY <1>1, <1>4 DEF ServiceInv, ServiceQueued, ServiceShown, A!EachLineOnce
<1>10. ServiceKept'
  <2>1. \A r \in thrown : A!Store => r # rec
    BY <1>2
  <2>2. ~A!Contains(stored, <<rec, 0>>)
    BY <1>2, <1>3, ServiceTypes DEF ServiceInv, A!Contains
  <2>3. \A r : <<r, 0>> = <<rec, 0>> <=> r = rec
    OBVIOUS
  <2>4. CASE A!Return /\ (A!Store \/ (stored' = stored /\ kind \in {"android", "syslog"}))
    BY <2>1, <2>3, <2>4, <1>1, <1>5 DEF ServiceInv, ServiceKept, A!Return
  <2>5. CASE A!Throw /\ (stored' = stored \/ (A!Store /\ kind \in {"loki", "mongo"}))
    BY <2>1, <2>2, <2>3, <2>5, <1>1, <1>5 DEF ServiceInv, ServiceKept, A!Throw
  <2>6. CASE UNCHANGED <<stored, returned, thrown>>
    BY <2>6, <1>1 DEF ServiceInv, ServiceKept
  <2>7. QED
    BY <2>4, <2>5, <2>6 DEF ServiceAnswered
<1>11. QED
  BY <1>6, <1>7, <1>8, <1>9, <1>10 DEF ServiceInv

LEMMA ServiceAnswers ==
  ASSUME A!SystemSinksAssumption, ServiceInv,
         \/ \E ret \in {"ok", "EPERM", "EAGAIN", "error"} : A!AndroidLog(ret)
         \/ A!JournalSend \/ A!Syslog \/ A!Request \/ A!ReportEvent
  PROVE  ServiceInv'
<1>0. Retries \in Nat /\ tries \in 0 .. Retries + 1 /\ (pc = "send" => tries <= Retries)
  BY ServiceConstants DEF ServiceInv, ServiceTyped, ServiceCall
<1>1. CASE \E ret \in {"ok", "EPERM", "EAGAIN", "error"} : A!AndroidLog(ret)
  <2>1. PICK ret \in {"ok", "EPERM", "EAGAIN", "error"} : A!AndroidLog(ret)
    BY <1>1
  <2>2. /\ pc = "send" /\ kind = "android" /\ UNCHANGED <<kind, life, fds, torn, queue, blocks>>
        /\ tries' = tries + 1
    BY <2>1 DEF A!AndroidLog, A!lifeVars
  <2>3. tries' \in 0 .. Retries + 1
    BY <1>0, <2>2
  <2>4. ASSUME ret = "ok" PROVE ServiceAnswered
    BY <2>1, <2>2, <2>3, <2>4 DEF A!AndroidLog, ServiceAnswered, A!Return
  <2>5. ASSUME ret = "EPERM" /\ tries = 0 PROVE ServiceAnswered
    BY <2>1, <2>2, <2>3, <2>5 DEF A!AndroidLog, ServiceAnswered, A!Return
  <2>6. ASSUME ret = "EAGAIN" /\ tries < Retries PROVE ServiceAnswered
    <3>1. tries' <= Retries
      BY <1>0, <2>2, <2>6
    <3>2. UNCHANGED <<rec, pc, line, returned, thrown, stored>>
      BY <2>1, <2>6 DEF A!AndroidLog
    <3>3. QED
      BY <3>1, <3>2, <2>2, <2>3 DEF ServiceAnswered
  <2>7. ASSUME ret # "ok", ~(ret = "EPERM" /\ tries = 0), ~(ret = "EAGAIN" /\ tries < Retries)
        PROVE  ServiceAnswered
    BY <2>1, <2>2, <2>3, <2>7 DEF A!AndroidLog, ServiceAnswered, A!Throw
  <2>8. ServiceAnswered
    BY <2>4, <2>5, <2>6, <2>7
  <2>9. QED
    BY <2>8, ServiceAnswer
<1>2. CASE A!JournalSend
  <2>1. ServiceAnswered
    BY <1>0, <1>2 DEF A!JournalSend, ServiceAnswered, A!lifeVars, A!Return, A!Throw
  <2>2. QED
    BY <2>1, ServiceAnswer
<1>3. CASE A!Syslog
  <2>1. ServiceAnswered
    BY <1>0, <1>3 DEF A!Syslog, ServiceAnswered, A!lifeVars, A!Return, A!Throw
  <2>2. QED
    BY <2>1, ServiceAnswer
<1>4. CASE A!Request
  <2>1. ServiceAnswered
    BY <1>0, <1>4 DEF A!Request, ServiceAnswered, A!lifeVars, A!Return, A!Throw
  <2>2. QED
    BY <2>1, ServiceAnswer
<1>5. CASE A!ReportEvent
  <2>1. ServiceAnswered
    BY <1>0, <1>5 DEF A!ReportEvent, ServiceAnswered, A!lifeVars, A!Return, A!Throw
  <2>2. QED
    BY <2>1, ServiceAnswer
<1>6. QED
  BY <1>1, <1>2, <1>3, <1>4, <1>5

LEMMA ServiceLife ==
  ASSUME A!SystemSinksAssumption, ServiceInv, A!Construct \/ A!ConstructFails \/ A!Destroy
  PROVE  ServiceInv'
<1>1. /\ UNCHANGED <<kind, rec, pc, tries, line, stored, torn, blocks, returned, thrown>>
      /\ queue' = queue \/ queue' = <<>>
      /\ life' \in {"new", "failed", "gone"} => fds' = 0
  BY DEF A!Construct, A!ConstructFails, A!Destroy, A!callVars, A!storeVars, ServiceInv, ServiceCall
<1>2. ServiceTyped'
  <2>1. ServiceTyped /\ <<>> \in Seq(1 .. Len(Records))
    BY DEF ServiceInv
  <2>2. QED
    BY <2>1, <1>1 DEF ServiceTyped
<1>3. ServiceCall' /\ ServiceStored' /\ ServiceKept' /\ A!EachLineOnce'
  BY <1>1 DEF ServiceInv, ServiceCall, ServiceStored, ServiceKept, A!EachLineOnce, A!Begun, A!Written
<1>4. ServiceQueued' /\ ServiceShown'
  <2>1. CASE queue' = queue
    BY <2>1, <1>1 DEF ServiceInv, ServiceQueued, ServiceShown, A!LastLinesShown
  <2>2. CASE queue' = <<>>
    <3>1. DOMAIN queue' = {}
      BY <2>2
    <3>2. QED
      BY <3>1, <1>1 DEF ServiceInv, ServiceQueued, ServiceShown, A!LastLinesShown
  <2>3. QED
    BY <1>1, <2>1, <2>2
<1>5. QED
  BY <1>2, <1>3, <1>4 DEF ServiceInv

LEMMA ServiceLog ==
  ASSUME A!SystemSinksAssumption, ServiceInv, A!Log
  PROVE  ServiceInv'
<1>1. /\ rec' = rec + 1 /\ line' = 1 /\ tries' = 0 /\ pc = "idle" /\ rec < Len(Records)
      /\ pc' = IF kind = "namespace" THEN "prefix" ELSE "send"
      /\ UNCHANGED <<kind, life, fds, stored, torn, queue, blocks, returned, thrown>>
  BY DEF A!Log, A!lifeVars, A!storeVars
<1>2. /\ rec \in Nat /\ Len(Records) \in Nat /\ Retries \in Nat /\ rec + 1 \in 1 .. Len(Records)
      /\ returned \subseteq 1 .. rec /\ thrown \subseteq 1 .. rec
  BY <1>1, ServiceConstants DEF ServiceInv, ServiceTyped
<1>3. /\ \A k \in DOMAIN stored : stored[k][1] < rec + 1
      /\ \A m \in DOMAIN queue : queue[m] < rec + 1
  BY <1>2, ServiceTypes DEF ServiceInv, ServiceStored, ServiceQueued
<1>4. rec + 1 \notin returned /\ rec + 1 \notin thrown
  BY <1>2
<1>5. ServiceTyped'
  <2>1. returned \subseteq 1 .. rec + 1 /\ thrown \subseteq 1 .. rec + 1
    BY <1>2
  <2>2. 0 \in 0 .. Retries + 1 /\ rec + 1 \in 0 .. Len(Records) /\ 1 \in Nat \ {0}
    BY <1>2
  <2>3. QED
    BY <2>1, <2>2, <1>1 DEF ServiceInv, ServiceTyped
<1>6. ServiceCall'
  <2>1. kind = "namespace" => 1 <= Records[rec + 1].lines
    BY <1>2, ServiceConstants
  <2>2. 0 <= Retries /\ rec + 1 # 0
    BY <1>2
  <2>3. QED
    BY <2>1, <2>2, <1>1, <1>4 DEF ServiceInv, ServiceCall
<1>7. ServiceStored'
  <2>1. \A k \in DOMAIN stored : stored[k][1] <= rec + 1 /\ A!Before(stored[k], <<rec + 1, 1>>)
    BY <1>2, <1>3, ServiceTypes DEF ServiceInv, A!Before
  <2>2. QED
    BY <2>1, <1>1, <1>3 DEF ServiceInv, ServiceStored
<1>8. ServiceQueued'
  BY <1>1, <1>2, <1>3, ServiceTypes DEF ServiceInv, ServiceQueued
<1>9. ServiceShown'
  <2>1. kind = "qtcolor" => \A k \in DOMAIN blocks : blocks[k][1] <= rec + 1 /\ blocks[k][1] < rec + 1
    BY <1>2, ServiceTypes DEF ServiceInv, ServiceShown
  <2>2. QED
    BY <2>1, <1>1 DEF ServiceInv, ServiceShown, A!LastLinesShown
<1>10. ServiceKept'
  BY <1>1 DEF ServiceInv, ServiceKept
<1>11. A!EachLineOnce'
  <2> SUFFICES ASSUME kind = "namespace", ~torn PROVE A!EachLineOnce'
    BY <1>1 DEF A!EachLineOnce
  <2>0. PICK n : n = rec + 1
    OBVIOUS
  <2>1. A!Begun = returned /\ A!Begun' = returned \cup {n}
    BY <2>0, <1>1 DEF A!Begun
  <2>2. \A r \in returned : A!Written(r)' = A!Written(r)
    BY <1>1 DEF A!Written
  <2>3. A!Written(n)' = 0
    BY <2>0, <1>1, <1>4 DEF A!Written
  <2>4. ASSUME NEW r \in A!Begun', NEW k \in 1 .. A!Written(r)' PROVE A!Contains(stored, <<r, k>>)
    <3>1. r # n
      BY <2>3
    <3>2. r \in returned
      BY <3>1, <2>1
    <3>3. QED
      BY <3>2, <2>1, <2>2 DEF ServiceInv, A!EachLineOnce
  <2>5. ASSUME NEW k \in DOMAIN stored
        PROVE  \E r \in A!Begun' : r = stored[k][1] /\ stored[k][2] \in 1 .. A!Written(r)'
    <3>1. PICK r : r = stored[k][1]
      OBVIOUS
    <3>2. r \in returned /\ stored[k][2] \in 1 .. A!Written(r)
      BY <3>1, <2>1 DEF ServiceInv, A!EachLineOnce
    <3>3. QED
      BY <3>1, <3>2, <2>1, <2>2
  <2>6. stored' = stored
    BY <1>1
  <2>7. QED
    BY <2>4, <2>5, <2>6 DEF ServiceInv, A!EachLineOnce
<1>12. QED
  BY <1>5, <1>6, <1>7, <1>8, <1>9, <1>10, <1>11 DEF ServiceInv

\* The call returns with the record on its way, or at once.
LEMMA ServiceEnqueue ==
  ASSUME A!SystemSinksAssumption, ServiceInv, pc = "send",
         UNCHANGED <<kind, life, fds, rec, line, tries, stored, torn, blocks>>, A!Return,
         kind \in {"kafka", "qt", "qtcolor"},
         queue' = queue \/ queue' = Append(queue, rec)
  PROVE  ServiceInv'
<1>1. /\ rec \in Nat /\ rec \in 1 .. Len(Records) /\ queue \in Seq(1 .. Len(Records))
      /\ rec \in 1 .. rec /\ Len(queue) \in Nat /\ DOMAIN queue = 1 .. Len(queue)
      /\ Len(Records) \in Nat
  BY ServiceTypes, ServiceConstants DEF ServiceInv, ServiceTyped, ServiceCall
<1>2. pc' = "idle" /\ returned' = returned \cup {rec} /\ thrown' = thrown
  BY DEF A!Return
<1>3. /\ queue' \in Seq(1 .. Len(Records))
      /\ \A m \in DOMAIN queue' : (m \in DOMAIN queue /\ queue'[m] = queue[m])
                                  \/ (m = Len(queue) + 1 /\ queue'[m] = rec)
  <2>1. CASE queue' = queue
    BY <1>1, <2>1
  <2>2. CASE queue' = Append(queue, rec)
    BY <1>1, <2>2
  <2>3. QED
    BY <2>1, <2>2
<1>4. ServiceTyped'
  BY <1>1, <1>2, <1>3 DEF ServiceInv, ServiceTyped
<1>5. ServiceCall' /\ ServiceStored'
  BY <1>2 DEF ServiceInv, ServiceCall, ServiceStored
<1>6. ServiceKept' /\ A!EachLineOnce'
  BY DEF ServiceInv, ServiceKept, A!EachLineOnce
<1>7. \A m \in DOMAIN queue : queue[m] < rec /\ queue[m] \in Nat
  BY ServiceTypes DEF ServiceInv, ServiceQueued
<1>8. ServiceQueued'
  <2>1. \A m \in DOMAIN queue' : queue'[m] <= rec
    BY <1>1, <1>3, <1>7
  <2>2. ASSUME NEW l \in DOMAIN queue', NEW m \in DOMAIN queue', l < m
        PROVE  queue'[l] < queue'[m]
    <3>0. Len(queue) \in Nat /\ DOMAIN queue = 1 .. Len(queue)
      BY <1>1
    <3>a. m \in Nat /\ m <= Len(queue) + 1
      BY <3>0, <1>3
    <3>b. l # Len(queue) + 1
      BY <3>0, <3>a, <2>2
    <3>1. l \in DOMAIN queue /\ queue'[l] = queue[l]
      BY <3>b, <1>3
    <3>2. QED
      BY <3>1, <1>3, <1>7, <2>2 DEF ServiceInv, ServiceQueued
  <2>3. ASSUME kind = "kafka", NEW k \in DOMAIN stored, NEW m \in DOMAIN queue'
        PROVE  stored[k][1] < queue'[m]
    BY <1>3, <2>3 DEF ServiceInv, ServiceQueued, ServiceStored
  <2>4. QED
    BY <1>2, <2>1, <2>2, <2>3 DEF ServiceQueued
<1>9. ServiceShown'
  <2>1. ASSUME kind = "qtcolor", NEW k \in DOMAIN blocks
        PROVE  blocks[k][1] <= rec /\ \A m \in DOMAIN queue' : blocks[k][1] # queue'[m]
    <3>1. blocks[k][1] < rec /\ blocks[k][1] \in Nat
      BY <2>1, ServiceTypes DEF ServiceInv, ServiceShown
    <3>2. \A m \in DOMAIN queue : blocks[k][1] # queue[m]
      BY <2>1 DEF ServiceInv, ServiceShown
    <3>3. blocks[k][1] # rec /\ blocks[k][1] <= rec
      BY <3>1, <1>1
    <3>4. QED
      BY <3>2, <3>3, <1>3
  <2>2. QED
    BY <1>2, <2>1 DEF ServiceInv, ServiceShown, A!LastLinesShown
<1>10. QED
  BY <1>4, <1>5, <1>6, <1>8, <1>9 DEF ServiceInv

LEMMA ServiceDeliver ==
  ASSUME A!SystemSinksAssumption, ServiceInv, A!Deliver
  PROVE  ServiceInv'
<1>1. /\ kind = "kafka" /\ queue # <<>> /\ stored' = Append(stored, <<Head(queue), 0>>)
      /\ queue' = Tail(queue)
      /\ UNCHANGED <<kind, life, fds, rec, pc, tries, line, torn, blocks, returned, thrown>>
  BY DEF A!Deliver, A!lifeVars, A!callVars
<1>2. PICK r : r = Head(queue)
  OBVIOUS
<1>3. /\ queue \in Seq(1 .. Len(Records)) /\ Len(queue) \in Nat /\ Len(queue) >= 1
      /\ DOMAIN queue = 1 .. Len(queue) /\ r = queue[1] /\ r \in Nat /\ 1 \in DOMAIN queue
      /\ Tail(queue) \in Seq(1 .. Len(Records)) /\ Len(Tail(queue)) = Len(queue) - 1
      /\ DOMAIN Tail(queue) = 1 .. Len(queue) - 1
      /\ \A m \in DOMAIN Tail(queue) : Tail(queue)[m] = queue[m + 1] /\ m + 1 \in DOMAIN queue
  <2>1. queue \in Seq(1 .. Len(Records)) /\ queue # <<>>
    BY <1>1 DEF ServiceInv, ServiceTyped
  <2>2. Len(queue) \in Nat /\ Len(queue) >= 1 /\ DOMAIN queue = 1 .. Len(queue) /\ r = queue[1]
    BY <1>2, <2>1
  <2>3. r \in Nat
    BY <2>2, ServiceTypes DEF ServiceInv
  <2>4. QED
    BY <2>1, <2>2, <2>3
<1>4. /\ r <= rec /\ (pc = "send" => r < rec)
      /\ \A k \in DOMAIN stored : A!Before(stored[k], <<r, 0>>) /\ stored[k][1] < r
  BY <1>1, <1>3 DEF ServiceInv, ServiceQueued, A!Before
<1>5. /\ stored' \in Seq(Nat \X Nat)
      /\ \A k \in DOMAIN stored' : (k \in DOMAIN stored /\ stored'[k] = stored[k]) \/ stored'[k] = <<r, 0>>
      /\ \A j, k \in DOMAIN stored' : j < k => A!Before(stored'[j], stored'[k])
  <2>1. <<r, 0>> \in Nat \X Nat /\ stored' = Append(stored, <<r, 0>>)
    BY <1>1, <1>2, <1>3
  <2>2. \A j, k \in DOMAIN stored : j < k => A!Before(stored[j], stored[k])
    BY DEF ServiceInv, ServiceStored
  <2>3. QED
    BY <2>1, <2>2, <1>4, ServiceAppended DEF ServiceInv
<1>6. rec \in Nat /\ \A k \in DOMAIN stored : stored[k][1] \in Nat
  BY ServiceTypes DEF ServiceInv
<1>7. ServiceTyped'
  BY <1>1, <1>3, <1>5 DEF ServiceInv, ServiceTyped
<1>8. ServiceCall' /\ ServiceKept' /\ A!EachLineOnce' /\ ServiceShown'
  BY <1>1 DEF ServiceInv, ServiceCall, ServiceKept, A!EachLineOnce, ServiceShown
<1>9. ServiceStored'
  <2>1. pc # "idle" => pc = "send"
    BY <1>1 DEF ServiceInv, ServiceCall
  <2>2. \A k \in DOMAIN stored' : stored'[k][1] <= rec /\ (pc = "send" => stored'[k][1] < rec)
    BY <1>4, <1>5 DEF ServiceInv, ServiceStored
  <2>3. pc # "idle" => \A k \in DOMAIN stored' : A!Before(stored'[k], <<rec, line>>)
    BY <2>1, <2>2 DEF A!Before
  <2>4. QED
    BY <2>2, <2>3, <1>1, <1>5 DEF ServiceStored
<1>10. ServiceQueued'
  <2>1. \A m \in DOMAIN queue' : queue'[m] <= rec /\ (pc = "send" => queue'[m] < rec)
    BY <1>1, <1>3 DEF ServiceInv, ServiceQueued
  <2>2. ASSUME NEW l \in DOMAIN queue', NEW m \in DOMAIN queue', l < m
        PROVE  queue'[l] < queue'[m]
    <3>1. l + 1 < m + 1 /\ l + 1 \in DOMAIN queue /\ m + 1 \in DOMAIN queue
      BY <1>1, <1>3, <2>2
    <3>2. QED
      BY <3>1, <1>1, <1>3 DEF ServiceInv, ServiceQueued
  <2>3. ASSUME NEW k \in DOMAIN stored', NEW m \in DOMAIN queue' PROVE stored'[k][1] < queue'[m]
    <3>1. 1 < m + 1 /\ m + 1 \in DOMAIN queue /\ queue'[m] = queue[m + 1]
      BY <1>1, <1>3
    <3>2. r < queue'[m]
      BY <3>1, <1>3 DEF ServiceInv, ServiceQueued
    <3>3. CASE k \in DOMAIN stored /\ stored'[k] = stored[k]
      BY <3>1, <3>3, <1>1 DEF ServiceInv, ServiceQueued
    <3>4. QED
      BY <3>2, <3>3, <1>5
  <2>4. QED
    BY <2>1, <2>2, <2>3, <1>1 DEF ServiceQueued
<1>11. QED
  BY <1>7, <1>8, <1>9, <1>10 DEF ServiceInv

LEMMA ServiceWriteFails ==
  ASSUME A!SystemSinksAssumption, ServiceInv, A!WriteFails \/ A!WritePrefix
  PROVE  ServiceInv'
<1>1. /\ kind = "namespace" /\ pc # "idle"
      /\ UNCHANGED <<kind, life, fds, rec, line, tries, stored, queue, blocks, returned>>
      /\ \/ torn' = TRUE /\ pc' = "idle" /\ thrown' = thrown \cup {rec}
         \/ pc' = "text" /\ pc = "prefix" /\ UNCHANGED <<torn, thrown>>
  BY DEF A!WriteFails, A!WritePrefix, A!Throw, A!lifeVars, A!storeVars
<1>2. ServiceTyped'
  <2>1. ServiceTyped /\ rec \in 1 .. rec
    BY <1>1, ServiceTypes DEF ServiceInv, ServiceCall
  <2>2. torn' \in BOOLEAN /\ thrown' \subseteq 1 .. rec
    BY <2>1, <1>1 DEF ServiceTyped
  <2>3. QED
    BY <2>1, <2>2, <1>1 DEF ServiceTyped
<1>3. ServiceCall' /\ ServiceStored'
  BY <1>1 DEF ServiceInv, ServiceCall, ServiceStored
<1>4. ServiceQueued' /\ ServiceShown' /\ ServiceKept'
  BY <1>1 DEF ServiceInv, ServiceQueued, ServiceShown, ServiceKept
<1>5. A!EachLineOnce'
  BY <1>1 DEF ServiceInv, A!EachLineOnce, A!Begun, A!Written
<1>6. QED
  BY <1>2, <1>3, <1>4, <1>5 DEF ServiceInv

\* A line of a record is written to its end.
LEMMA ServiceEndLine ==
  ASSUME A!SystemSinksAssumption, ServiceInv, kind = "namespace", pc \in {"text", "newline"},
         A!EndLine, UNCHANGED <<kind, life, fds, tries, torn, queue, blocks>>
  PROVE  ServiceInv'
<1>1. /\ rec \in Nat /\ rec \in 1 .. rec /\ rec \in 1 .. Len(Records) /\ rec \notin returned
      /\ line \in Nat \ {0} /\ line \in Nat /\ line <= Records[rec].lines
      /\ Records[rec].lines \in Nat /\ returned \subseteq 1 .. rec
  <2>1. rec \in Nat /\ line \in Nat /\ Len(Records) \in Nat /\ rec # 0
    BY ServiceTypes, ServiceConstants DEF ServiceInv, ServiceCall
  <2>2. rec \in 1 .. rec /\ rec \in 1 .. Len(Records)
    BY <2>1 DEF ServiceInv, ServiceTyped
  <2>3. QED
    BY <2>1, <2>2, ServiceConstants DEF ServiceInv, ServiceTyped, ServiceCall
<1>2. /\ rec' = rec /\ thrown' = thrown /\ stored' = Append(stored, <<rec, line>>)
      /\ \/ /\ line = Records[rec].lines /\ pc' = "idle" /\ line' = line
            /\ returned' = returned \cup {rec}
         \/ /\ line # Records[rec].lines /\ pc' = "prefix" /\ line' = line + 1
            /\ returned' = returned
  BY DEF A!EndLine, A!LastLine, A!Lines, A!Return
<1>3. /\ stored' \in Seq(Nat \X Nat)
      /\ \A k \in DOMAIN stored' : (k \in DOMAIN stored /\ stored'[k] = stored[k])
                                   \/ stored'[k] = <<rec, line>>
      /\ \A j, k \in DOMAIN stored' : j < k => A!Before(stored'[j], stored'[k])
      /\ \A y : A!Contains(stored', y) <=> A!Contains(stored, y) \/ y = <<rec, line>>
  <2>1. <<rec, line>> \in Nat \X Nat
    BY <1>1
  <2>2. /\ \A j, k \in DOMAIN stored : j < k => A!Before(stored[j], stored[k])
        /\ \A k \in DOMAIN stored : A!Before(stored[k], <<rec, line>>)
    BY DEF ServiceInv, ServiceStored
  <2>3. QED
    BY <2>1, <2>2, <1>2, ServiceAppended DEF ServiceInv
<1>4. line' \in Nat \ {0} /\ (pc' = "prefix" => line' <= Records[rec].lines)
  BY <1>1, <1>2
<1>5. ServiceTyped'
  <2>1. returned' \subseteq 1 .. rec
    BY <1>1, <1>2
  <2>2. QED
    BY <2>1, <1>2, <1>3, <1>4 DEF ServiceInv, ServiceTyped
<1>6. ServiceCall'
  BY <1>1, <1>2, <1>4 DEF ServiceInv, ServiceCall
<1>7. ServiceStored'
  <2>1. \A k \in DOMAIN stored' : stored'[k][1] <= rec
    <3>1. \A k \in DOMAIN stored : stored[k][1] <= rec
      BY DEF ServiceInv, ServiceStored
    <3>2. rec <= rec
      BY <1>1
    <3>3. QED
      BY <3>1, <3>2, <1>3
  <2>2. ASSUME pc' = "prefix", NEW k \in DOMAIN stored'
        PROVE  A!Before(stored'[k], <<rec, line + 1>>)
    <3>1. CASE stored'[k] = <<rec, line>>
      BY <3>1, <1>1 DEF A!Before
    <3>2. CASE k \in DOMAIN stored /\ stored'[k] = stored[k]
      BY <3>2, <1>1, ServiceTypes DEF ServiceInv, ServiceStored, A!Before
    <3>3. QED
      BY <3>1, <3>2, <1>3
  <2>3. QED
    BY <2>1, <2>2, <1>2, <1>3 DEF ServiceStored
<1>8. ServiceQueued' /\ ServiceShown' /\ ServiceKept'
  <2>1. \A m \in DOMAIN queue : queue[m] <= rec
    BY DEF ServiceInv, ServiceQueued
  <2>2. QED
    BY <2>1, <1>2 DEF ServiceInv, ServiceQueued, ServiceShown, ServiceKept
<1>9. A!EachLineOnce'
  <2> SUFFICES ASSUME ~torn PROVE A!EachLineOnce'
    BY DEF A!EachLineOnce
  <2>0. PICK n : n = rec
    OBVIOUS
  <2>1. A!Begun = returned \cup {n} /\ A!Begun' = A!Begun
    BY <2>0, <1>2 DEF A!Begun
  <2>2. \A r \in returned : A!Written(r)' = A!Written(r)
    BY <1>2 DEF A!Written
  <2>3. A!Written(n) = line - 1 /\ A!Written(n)' = line
    BY <2>0, <1>1, <1>2 DEF A!Written
  <2>4. ASSUME NEW r \in A!Begun', NEW k \in 1 .. A!Written(r)' PROVE A!Contains(stored', <<r, k>>)
    <3>1. CASE r = n /\ k = line
      BY <3>1, <2>0, <1>3
    <3>2. CASE r = n /\ k # line
      <4>1. k \in 1 .. line - 1
        BY <3>2, <2>3, <1>1
      <4>2. QED
        BY <4>1, <3>2, <2>1, <2>3, <1>3 DEF ServiceInv, A!EachLineOnce
    <3>3. CASE r # n
      BY <3>3, <2>1, <2>2, <1>3 DEF ServiceInv, A!EachLineOnce
    <3>4. QED
      BY <3>1, <3>2, <3>3
  <2>5. ASSUME NEW k \in DOMAIN stored'
        PROVE  \E r \in A!Begun' : r = stored'[k][1] /\ stored'[k][2] \in 1 .. A!Written(r)'
    <3>1. CASE stored'[k] = <<rec, line>>
      <4>1. line \in 1 .. line
        BY <1>1
      <4>2. QED
        BY <4>1, <3>1, <2>0, <2>1, <2>3
    <3>2. CASE k \in DOMAIN stored /\ stored'[k] = stored[k]
      <4>1. PICK r : r = stored[k][1]
        OBVIOUS
      <4>2. r \in A!Begun /\ stored[k][2] \in 1 .. A!Written(r)
        BY <4>1, <3>2 DEF ServiceInv, A!EachLineOnce
      <4>3. stored[k][2] \in 1 .. A!Written(r)'
        <5>1. CASE r = n
          BY <5>1, <4>2, <2>3, <1>1
        <5>2. CASE r # n
          BY <5>2, <4>2, <2>1, <2>2
        <5>3. QED
          BY <5>1, <5>2
      <4>4. QED
        BY <4>1, <4>2, <4>3, <3>2, <2>1
    <3>3. QED
      BY <3>1, <3>2, <1>3
  <2>6. QED
    BY <2>4, <2>5, <1>3 DEF A!EachLineOnce
<1>10. QED
  BY <1>5, <1>6, <1>7, <1>8, <1>9 DEF ServiceInv

LEMMA ServiceWrite ==
  ASSUME A!SystemSinksAssumption, ServiceInv, A!WriteText \/ A!WriteNewline
  PROVE  ServiceInv'
<1>1. /\ kind = "namespace" /\ UNCHANGED <<kind, life, fds, tries, torn, queue, blocks>>
      /\ \/ pc \in {"text", "newline"} /\ A!EndLine
         \/ /\ pc = "text" /\ line = Records[rec].lines /\ pc' = "newline"
            /\ UNCHANGED <<rec, line, stored, returned, thrown>>
  BY DEF A!WriteText, A!WriteNewline, A!LastLine, A!Lines, A!lifeVars
<1>2. CASE A!EndLine
  BY <1>1, <1>2, ServiceEndLine
<1>3. CASE /\ pc = "text" /\ line = Records[rec].lines /\ pc' = "newline"
           /\ UNCHANGED <<rec, line, stored, returned, thrown>>
  <2>1. ServiceTyped' /\ ServiceCall' /\ ServiceStored'
    BY <1>1, <1>3 DEF ServiceInv, ServiceTyped, ServiceCall, ServiceStored
  <2>2. ServiceQueued' /\ ServiceShown' /\ ServiceKept'
    BY <1>1, <1>3 DEF ServiceInv, ServiceQueued, ServiceShown, ServiceKept
  <2>3. A!EachLineOnce'
    BY <1>1, <1>3 DEF ServiceInv, A!EachLineOnce, A!Begun, A!Written
  <2>4. QED
    BY <2>1, <2>2, <2>3 DEF ServiceInv
<1>4. QED
  BY <1>1, <1>2, <1>3

\* The document shows a text more: its lines, behind the last ones there were.
LEMMA ServiceBehind ==
  ASSUME NEW set, NEW s \in Seq(set), NEW t \in Seq(set), NEW k \in 1 .. Len(s) + Len(t), k > Len(s)
  PROVE  (s \o t)[k] = t[k - Len(s)]
OBVIOUS

LEMMA ServiceDocument ==
  ASSUME A!SystemSinksAssumption, ServiceTyped, kind = "qtcolor", A!LastLinesShown,
         NEW r \in 1 .. Len(Records), blocks' = A!Shown(r), kind' = kind,
         \A k \in DOMAIN blocks : blocks[k][1] # r
  PROVE  /\ A!LastLinesShown' /\ blocks' \in Seq(Nat \X Nat)
         /\ \A k \in DOMAIN blocks' : blocks'[k][1] = r \/ \E j \in DOMAIN blocks : blocks'[k] = blocks[j]
<1>1. PICK n, lines1, room, e, d :
        /\ n = Len(blocks) /\ lines1 = Records[r].lines /\ room = WidgetLines - 1
        /\ e = (IF n <= room THEN n ELSE room) /\ d = n - e
  OBVIOUS
<1>2. /\ n \in Nat /\ lines1 \in Nat /\ lines1 >= 1 /\ room \in Nat /\ d \in Nat
      /\ e \in Nat /\ e <= room /\ d + e = n /\ r \in Nat /\ room + 1 = WidgetLines
      /\ blocks \in Seq(Nat \X Nat) /\ DOMAIN blocks = 1 .. n
  <2>1. n \in Nat /\ blocks \in Seq(Nat \X Nat) /\ DOMAIN blocks = 1 .. n
    BY <1>1, ServiceTypes DEF ServiceTyped
  <2>2. lines1 \in Nat /\ lines1 >= 1 /\ room \in Nat /\ r \in Nat /\ room + 1 = WidgetLines
    BY <1>1, ServiceConstants
  <2>3. e \in Nat /\ e <= room /\ d = n - e /\ e <= n
    BY <1>1, <2>1, <2>2
  <2>4. d \in Nat /\ d + e = n
    BY <2>1, <2>3
  <2>5. QED
    BY <2>1, <2>2, <2>3, <2>4
<1> DEFINE kept1 == IF n <= room THEN blocks ELSE SubSeq(blocks, n - room + 1, n)
           new == [k \in 1 .. lines1 |-> <<r, k>>]
<1>3. blocks' = kept1 \o new
  BY <1>1 DEF A!Shown
<1>4. /\ kept1 \in Seq(Nat \X Nat) /\ Len(kept1) = e
      /\ \A k \in 1 .. e : kept1[k] = blocks[d + k]
  <2>1. CASE n <= room
    BY <2>1, <1>1, <1>2
  <2>2. CASE ~(n <= room)
    <3>1. e = room /\ d + 1 \in Int /\ n - room + 1 = d + 1 /\ n \in Int
      BY <2>2, <1>1, <1>2
    <3>2. kept1 = SubSeq(blocks, d + 1, n)
      BY <3>1, <2>2
    <3>3. \A k \in d + 1 .. n : blocks[k] \in Nat \X Nat
      BY <1>2
    <3>4. /\ SubSeq(blocks, d + 1, n) \in Seq(Nat \X Nat) /\ Len(SubSeq(blocks, d + 1, n)) = e
          /\ \A k \in 1 .. e : SubSeq(blocks, d + 1, n)[k] = blocks[d + k]
      BY <3>3, <1>2
    <3>5. QED
      BY <3>2, <3>4
  <2>3. QED
    BY <2>1, <2>2
<1>5. new \in Seq(Nat \X Nat) /\ Len(new) = lines1 /\ \A k \in 1 .. lines1 : new[k] = <<r, k>>
  <2>1. \A k \in 1 .. lines1 : <<r, k>> \in Nat \X Nat
    BY <1>2
  <2>2. QED
    BY <2>1, <1>2
<1> HIDE DEF kept1, new
<1>6. /\ blocks' \in Seq(Nat \X Nat) /\ Len(blocks') = e + lines1
      /\ DOMAIN blocks' = 1 .. e + lines1
  <2>1. kept1 \o new \in Seq(Nat \X Nat) /\ Len(kept1 \o new) = Len(kept1) + Len(new)
    <3> DEFINE Cells == Nat \X Nat
    <3>1. kept1 \in Seq(Cells) /\ new \in Seq(Cells)
      BY <1>4, <1>5
    <3>2. kept1 \o new \in Seq(Cells) /\ Len(kept1 \o new) = Len(kept1) + Len(new)
      <4> HIDE DEF Cells
      <4>1. QED
        BY <3>1
    <3>3. QED
      BY <3>2
  <2>2. blocks' \in Seq(Nat \X Nat) /\ Len(blocks') = e + lines1
    BY <2>1, <1>3, <1>4, <1>5
  <2>3. QED
    BY <2>2
<1>7. ASSUME NEW k \in 1 .. e PROVE blocks'[k] = blocks[d + k] /\ d + k \in 1 .. n
  BY <1>2, <1>3, <1>4, <1>5
<1>8. ASSUME NEW k \in e + 1 .. e + lines1
      PROVE  /\ blocks'[k] = <<r, k - e>> /\ k - e \in 1 .. lines1
             /\ (k - e = lines1 <=> k = e + lines1)
  <2>1. /\ k - e \in 1 .. lines1 /\ k \in Nat /\ k > e /\ k \in 1 .. e + lines1
        /\ (k - e = lines1 <=> k = e + lines1)
    BY <1>2
  <2>2. blocks'[k] = new[k - e]
    <3>1. kept1 \in Seq(Nat \X Nat) /\ new \in Seq(Nat \X Nat) /\ Len(kept1) = e
      BY <1>4, <1>5
    <3>2. k \in 1 .. Len(kept1) + Len(new) /\ k > Len(kept1)
      BY <2>1, <1>4, <1>5
    <3>3. (kept1 \o new)[k] = new[k - Len(kept1)]
      BY <3>1, <3>2, ServiceBehind
    <3>4. QED
      BY <3>1, <3>3, <1>3
  <2>3. QED
    BY <2>1, <2>2, <1>5
<1>9. \A k \in 1 .. e + lines1 : k \in 1 .. e \/ k \in e + 1 .. e + lines1
  BY <1>2
<1>10. \A k \in DOMAIN blocks' : blocks'[k][1] = r \/ \E j \in DOMAIN blocks : blocks'[k] = blocks[j]
  <2>1. ASSUME NEW k \in 1 .. e PROVE \E j \in DOMAIN blocks : blocks'[k] = blocks[j]
    BY <1>2, <1>7
  <2>2. ASSUME NEW k \in e + 1 .. e + lines1 PROVE blocks'[k][1] = r
    BY <1>8
  <2>3. QED
    BY <2>1, <2>2, <1>6, <1>9
<1>11. /\ Len(blocks') \in DOMAIN blocks' /\ blocks'[Len(blocks')] = <<r, lines1>>
       /\ Len(blocks') < WidgetLines + lines1
  <2>1. /\ e + lines1 \in e + 1 .. e + lines1 /\ e + lines1 \in 1 .. e + lines1
        /\ (e + lines1) - e = lines1 /\ e + lines1 < (room + 1) + lines1
    BY <1>2
  <2>2. QED
    BY <2>1, <1>2, <1>6, <1>8
<1>12. \A k \in 1 .. n : \A j \in 1 .. n : blocks[j] = blocks[k] => j = k
  <2> SUFFICES ASSUME NEW k \in 1 .. n, NEW j \in 1 .. n, blocks[j] = blocks[k] PROVE j = k
    OBVIOUS
  <2>1. blocks # <<>>
    BY <1>1, <1>2
  <2>2. QED
    BY <2>1, <1>2 DEF A!LastLinesShown, A!IsInjective
<1>13. ASSUME NEW j \in DOMAIN blocks', NEW k \in DOMAIN blocks', blocks'[j] = blocks'[k] PROVE j = k
  <2>1. CASE j \in 1 .. e /\ k \in 1 .. e
    <3>1. d + j = d + k
      BY <2>1, <1>7, <1>12, <1>13
    <3>2. QED
      BY <3>1, <2>1, <1>2
  <2>2. CASE j \in e + 1 .. e + lines1 /\ k \in e + 1 .. e + lines1
    <3>1. j - e = k - e
      BY <2>2, <1>8, <1>13
    <3>2. QED
      BY <3>1, <2>2, <1>2
  <2>3. CASE j \in 1 .. e /\ k \in e + 1 .. e + lines1
    <3>1. blocks'[j][1] # r
      BY <2>3, <1>2, <1>7
    <3>2. blocks'[k][1] = r
      BY <2>3, <1>8
    <3>3. QED
      BY <3>1, <3>2, <1>13
  <2>4. CASE k \in 1 .. e /\ j \in e + 1 .. e + lines1
    <3>1. blocks'[k][1] # r
      BY <2>4, <1>2, <1>7
    <3>2. blocks'[j][1] = r
      BY <2>4, <1>8
    <3>3. QED
      BY <3>1, <3>2, <1>13
  <2>5. QED
    BY <2>1, <2>2, <2>3, <2>4, <1>6, <1>9
<1>14. ASSUME NEW k \in 1 .. Len(blocks') - 1
       PROVE  IF blocks'[k][2] = Records[blocks'[k][1]].lines THEN blocks'[k + 1][2] = 1
              ELSE blocks'[k + 1] = <<blocks'[k][1], blocks'[k][2] + 1>>
  <2>0. k \in Nat /\ k >= 1 /\ k < e + lines1
    <3>1. e \in Nat /\ lines1 \in Nat
      BY <1>2
    <3>2. k \in 1 .. (e + lines1) - 1
      BY <1>6
    <3>3. QED
      BY <3>1, <3>2
  <2>1. CASE k < e
    <3>1. k \in 1 .. e /\ k + 1 \in 1 .. e /\ d + (k + 1) = (d + k) + 1 /\ d + k \in 1 .. n - 1
      BY <2>0, <2>1, <1>2
    <3>2. blocks'[k] = blocks[d + k] /\ blocks'[k + 1] = blocks[(d + k) + 1]
      BY <3>1, <1>7
    <3>3. blocks # <<>>
      BY <3>1, <1>1, <1>2
    <3>4. IF blocks[d + k][2] = Records[blocks[d + k][1]].lines THEN blocks[(d + k) + 1][2] = 1
          ELSE blocks[(d + k) + 1] = <<blocks[d + k][1], blocks[d + k][2] + 1>>
      BY <3>1, <3>3, <1>1 DEF A!LastLinesShown
    <3>5. QED
      BY <3>2, <3>4
  <2>2. CASE k = e
    <3>1. /\ k \in 1 .. e /\ d + k = n /\ n >= 1
          /\ k + 1 \in e + 1 .. e + lines1 /\ (k + 1) - e = 1
      BY <2>0, <2>2, <1>2
    <3>2. blocks'[k] = blocks[n] /\ blocks'[k + 1] = <<r, 1>>
      BY <3>1, <1>7, <1>8
    <3>3. blocks # <<>>
      BY <3>1, <1>1, <1>2
    <3>4. blocks[n][2] = Records[blocks[n][1]].lines
      BY <3>3, <1>1 DEF A!LastLinesShown
    <3>5. QED
      BY <3>2, <3>4
  <2>3. CASE k > e
    <3>1. /\ k \in e + 1 .. e + lines1 /\ k + 1 \in e + 1 .. e + lines1
          /\ (k + 1) - e = (k - e) + 1 /\ k # e + lines1
      BY <2>0, <2>3, <1>2
    <3>2. /\ blocks'[k] = <<r, k - e>> /\ blocks'[k + 1] = <<r, (k - e) + 1>>
          /\ k - e # lines1
      BY <3>1, <1>8
    <3>3. QED
      BY <3>2, <1>1
  <2>4. k < e \/ k = e \/ k > e
    BY <2>0, <1>2
  <2>5. QED
    BY <2>1, <2>2, <2>3, <2>4
<1>15. A!LastLinesShown'
  <2>1. A!IsInjective(blocks')
    BY <1>13 DEF A!IsInjective
  <2>2. QED
    BY <2>1, <1>1, <1>11, <1>14 DEF A!LastLinesShown
<1>16. QED
  BY <1>6, <1>10, <1>15


\* The thread of the widget shows a text: the one in hand, or the oldest event.
LEMMA ServiceShow ==
  ASSUME A!SystemSinksAssumption, ServiceInv, kind \in {"qt", "qtcolor"},
         NEW r \in 1 .. Len(Records), blocks' = A!Shown(r), r <= rec,
         UNCHANGED <<kind, life, fds, rec, line, tries, stored, torn, thrown>>,
         kind = "qtcolor" => \A k \in DOMAIN blocks : blocks[k][1] # r,
         \/ pc = "send" /\ r = rec /\ A!Return /\ queue' = queue
         \/ /\ queue # <<>> /\ r = queue[1] /\ queue' = Tail(queue)
            /\ UNCHANGED <<pc, returned>>
  PROVE  ServiceInv'
<1>1. /\ rec \in Nat /\ r \in Nat /\ queue \in Seq(1 .. Len(Records)) /\ Len(queue) \in Nat
      /\ DOMAIN queue = 1 .. Len(queue)
      /\ \A m \in DOMAIN queue : queue[m] \in Nat
  BY ServiceTypes DEF ServiceInv, ServiceTyped
<1>2. /\ pc' \in {pc, "idle"} /\ returned' \subseteq returned \cup {rec}
      /\ pc' # "idle" => pc' = pc /\ returned' = returned
      /\ pc' = "idle" => pc = "idle" \/ rec # 0
  BY DEF A!Return, ServiceInv, ServiceCall
<1>3. /\ queue' \in Seq(1 .. Len(Records))
      /\ \/ queue' = queue /\ pc' = "idle" /\ \A m \in DOMAIN queue : queue[m] < r
         \/ /\ \A m \in DOMAIN queue' : queue'[m] = queue[m + 1] /\ m + 1 \in DOMAIN queue /\ r < queue[m + 1]
            /\ pc' = pc /\ (pc = "send" => r < rec)
  <2>1. CASE pc = "send" /\ r = rec /\ A!Return /\ queue' = queue
    BY <2>1, <1>1 DEF ServiceInv, ServiceQueued, A!Return
  <2>2. CASE /\ queue # <<>> /\ r = queue[1] /\ queue' = Tail(queue) /\ UNCHANGED <<pc, returned>>
    <3>0. Len(queue) >= 1
      <4>1. queue \in Seq(1 .. Len(Records)) /\ queue # <<>>
        BY <2>2, <1>1
      <4>2. QED
        BY <4>1
    <3>1. /\ queue' \in Seq(1 .. Len(Records)) /\ DOMAIN queue' = 1 .. Len(queue) - 1
          /\ \A m \in DOMAIN queue' : queue'[m] = queue[m + 1]
      <4> DEFINE Numbers == 1 .. Len(Records)
      <4>1. queue \in Seq(Numbers) /\ queue # <<>> /\ queue' = Tail(queue)
        BY <2>2, <1>1
      <4> HIDE DEF Numbers
      <4>2. /\ Tail(queue) \in Seq(Numbers) /\ Len(Tail(queue)) = Len(queue) - 1
            /\ \A m \in 1 .. Len(queue) - 1 : Tail(queue)[m] = queue[m + 1]
        BY <4>1
      <4>3. DOMAIN Tail(queue) = 1 .. Len(queue) - 1
        BY <4>2
      <4>4. QED
        BY <4>1, <4>2, <4>3 DEF Numbers
    <3>2. 1 \in DOMAIN queue /\ (pc = "send" => r < rec)
      <4>1. 1 \in 1 .. Len(queue)
        BY <3>0, <1>1
      <4>2. 1 \in DOMAIN queue
        BY <4>1, <1>1
      <4>3. r = queue[1]
        BY <2>2
      <4>4. QED
        BY <4>2, <4>3 DEF ServiceInv, ServiceQueued
    <3>3. ASSUME NEW m \in DOMAIN queue' PROVE m + 1 \in DOMAIN queue /\ r < queue[m + 1]
      <4>a. Len(queue) \in Nat /\ DOMAIN queue = 1 .. Len(queue)
        BY <1>1
      <4>b. m \in 1 .. Len(queue) - 1
        BY <3>1
      <4>1. m + 1 \in DOMAIN queue /\ 1 < m + 1
        BY <4>a, <4>b
      <4>2. QED
        BY <4>1, <3>2, <2>2 DEF ServiceInv, ServiceQueued
    <3>4. QED
      BY <3>1, <3>2, <3>3, <2>2
  <2>3. QED
    BY <2>1, <2>2
<1>4. kind # "namespace" /\ kind # "kafka"
  OBVIOUS
<1>5. kind = "qtcolor" =>
        /\ A!LastLinesShown'
        /\ \A k \in DOMAIN blocks' : blocks'[k][1] = r \/ \E j \in DOMAIN blocks : blocks'[k] = blocks[j]
  BY ServiceDocument DEF ServiceInv, ServiceShown
<1>6. blocks' \in Seq(Nat \X Nat)
  <2> DEFINE new == [k \in 1 .. Records[r].lines |-> <<r, k>>]
             kept1 == IF kind = "qt" \/ Len(blocks) <= WidgetLines - 1 THEN blocks
                      ELSE SubSeq(blocks, Len(blocks) - (WidgetLines - 1) + 1, Len(blocks))
  <2>1. blocks' = kept1 \o new
    BY DEF A!Shown
  <2>2. new \in Seq(Nat \X Nat)
    <3>1. Records[r].lines \in Nat /\ \A k \in 1 .. Records[r].lines : <<r, k>> \in Nat \X Nat
      BY <1>1, ServiceConstants
    <3>2. QED
      BY <3>1
  <2>3. kept1 \in Seq(Nat \X Nat)
    <3> DEFINE from == Len(blocks) - (WidgetLines - 1) + 1
    <3>1. blocks \in Seq(Nat \X Nat) /\ DOMAIN blocks = 1 .. Len(blocks) /\ Len(blocks) \in Nat
      BY ServiceTypes DEF ServiceInv, ServiceTyped
    <3>2. ASSUME ~(Len(blocks) <= WidgetLines - 1) PROVE SubSeq(blocks, from, Len(blocks)) \in Seq(Nat \X Nat)
      <4>1. from \in Int /\ from >= 1
        BY <3>1, <3>2, ServiceConstants
      <4>2. \A k \in from .. Len(blocks) : blocks[k] \in Nat \X Nat
        BY <3>1, <4>1, ServiceTypes DEF ServiceInv
      <4> HIDE DEF from
      <4>3. QED
        BY <4>1, <4>2, <3>1
    <3>3. QED
      BY <3>1, <3>2
  <2> HIDE DEF new, kept1
  <2> DEFINE Cells == Nat \X Nat
  <2>4. kept1 \in Seq(Cells) /\ new \in Seq(Cells)
    BY <2>2, <2>3
  <2>5. kept1 \o new \in Seq(Cells)
    <3> HIDE DEF Cells
    <3>1. QED
      BY <2>4
  <2>6. QED
    BY <2>1, <2>5
<1>7. ServiceTyped'
  <2>1. ServiceTyped /\ (rec # 0 => rec \in 1 .. rec)
    BY <1>1 DEF ServiceInv
  <2>2. returned' \subseteq 1 .. rec
    BY <2>1, <1>2 DEF ServiceTyped, ServiceInv, ServiceCall, A!Return
  <2>3. QED
    BY <2>1, <2>2, <1>3, <1>6 DEF ServiceTyped
<1>8. ServiceCall' /\ ServiceStored'
  BY <1>2 DEF ServiceInv, ServiceCall, ServiceStored
<1>9. ServiceKept' /\ A!EachLineOnce'
  BY <1>4 DEF ServiceInv, ServiceKept, A!EachLineOnce
<1>10. ServiceQueued'
  <2>1. CASE queue' = queue /\ pc' = "idle"
    BY <2>1, <1>4 DEF ServiceInv, ServiceQueued
  <2>2. CASE /\ \A m \in DOMAIN queue' : queue'[m] = queue[m + 1] /\ m + 1 \in DOMAIN queue
             /\ pc' = pc
    <3>1. \A m \in DOMAIN queue' : queue'[m] <= rec /\ (pc = "send" => queue'[m] < rec)
      BY <2>2 DEF ServiceInv, ServiceQueued
    <3>2. ASSUME NEW l \in DOMAIN queue', NEW m \in DOMAIN queue', l < m
          PROVE  queue'[l] < queue'[m]
      <4>1. l + 1 < m + 1
        BY <3>2, <1>3
      <4>2. QED
        BY <4>1, <2>2 DEF ServiceInv, ServiceQueued
    <3>3. QED
      BY <3>1, <3>2, <2>2, <1>4 DEF ServiceQueued
  <2>3. QED
    BY <2>1, <2>2, <1>3
<1>11. ServiceShown'
  <2> SUFFICES ASSUME kind = "qtcolor" PROVE ServiceShown'
    BY DEF ServiceShown
  <2>1. \A k \in DOMAIN blocks : blocks[k][1] <= rec /\ (pc = "send" => blocks[k][1] < rec)
    BY DEF ServiceInv, ServiceShown
  <2>2. pc' = "send" => pc = "send" /\ r < rec
    BY <1>2, <1>3
  <2>3. \A k \in DOMAIN blocks' : blocks'[k][1] <= rec /\ (pc' = "send" => blocks'[k][1] < rec)
    BY <2>1, <2>2, <1>5
  <2>4. \A m \in DOMAIN queue' : queue'[m] # r /\ \E l \in DOMAIN queue : queue'[m] = queue[l]
    <3>1. CASE queue' = queue /\ \A m \in DOMAIN queue : queue[m] < r
      <4>1. ASSUME NEW m \in DOMAIN queue PROVE queue[m] # r
        <5>1. queue[m] < r /\ queue[m] \in Nat /\ r \in Nat
          BY <3>1, <1>1
        <5>2. QED
          BY <5>1
      <4>2. QED
        BY <4>1, <3>1
    <3>2. CASE \A m \in DOMAIN queue' :
                 queue'[m] = queue[m + 1] /\ m + 1 \in DOMAIN queue /\ r < queue[m + 1]
      BY <3>2, <1>1
    <3>3. QED
      BY <3>1, <3>2, <1>3
  <2>5. \A k \in DOMAIN blocks : \A m \in DOMAIN queue : blocks[k][1] # queue[m]
    BY DEF ServiceInv, ServiceShown
  <2>6. \A k \in DOMAIN blocks' : \A m \in DOMAIN queue' : blocks'[k][1] # queue'[m]
    BY <2>4, <2>5, <1>5
  <2>7. QED
    BY <2>3, <2>6, <1>5 DEF ServiceShown
<1>12. QED
  BY <1>7, <1>8, <1>9, <1>10, <1>11 DEF ServiceInv

LEMMA ServiceQueue ==
  ASSUME A!SystemSinksAssumption, ServiceInv,
         A!Produce \/ A!GuiInvokes \/ \E inGui \in BOOLEAN : A!Invoke(inGui)
  PROVE  ServiceInv'
<1>0. /\ rec \in Nat /\ (pc = "send" => rec \in 1 .. Len(Records))
      /\ queue \in Seq(1 .. Len(Records)) /\ Len(Records) \in Nat
      /\ (kind = "qtcolor" => \A k \in DOMAIN blocks : blocks[k][1] \in Nat)
  <2>1. ServiceTyped /\ ServiceCall
    BY DEF ServiceInv
  <2>2. rec \in Nat /\ \A k \in DOMAIN blocks : blocks[k][1] \in Nat
    BY <2>1, ServiceTypes
  <2>3. Len(Records) \in Nat
    BY ServiceConstants
  <2>4. queue \in Seq(1 .. Len(Records)) /\ (pc = "send" => rec \in 1 .. Len(Records))
    BY <2>1, <2>2, <2>3 DEF ServiceTyped, ServiceCall
  <2>5. QED
    BY <2>2, <2>3, <2>4
<1>1. CASE A!Produce
  <2>1. /\ kind = "kafka" /\ pc = "send" /\ A!Return
        /\ queue' = queue \/ queue' = Append(queue, rec)
        /\ UNCHANGED <<kind, life, fds, tries, stored, torn, blocks>>
    BY <1>1 DEF A!Produce, A!lifeVars
  <2>2. UNCHANGED <<rec, line>>
    BY <2>1 DEF A!Return
  <2>3. QED
    BY <2>1, <2>2, ServiceEnqueue
<1>2. CASE A!GuiInvokes
  <2>1. PICK r : r = Head(queue)
    OBVIOUS
  <2>2. /\ kind \in {"qt", "qtcolor"} /\ queue # <<>> /\ blocks' = A!Shown(r) /\ queue' = Tail(queue)
        /\ UNCHANGED <<kind, life, fds, rec, pc, line, tries, stored, torn, returned, thrown>>
    BY <1>2, <2>1 DEF A!GuiInvokes, A!lifeVars, A!callVars
  <2>3. r = queue[1] /\ r \in 1 .. Len(Records) /\ 1 \in DOMAIN queue
    BY <2>1, <2>2, <1>0
  <2>4. r <= rec /\ (kind = "qtcolor" => \A k \in DOMAIN blocks : blocks[k][1] # r)
    BY <2>3 DEF ServiceInv, ServiceQueued, ServiceShown
  <2>5. QED
    BY <2>2, <2>3, <2>4, ServiceShow
<1>3. CASE \E inGui \in BOOLEAN : A!Invoke(inGui)
  <2>1. /\ kind \in {"qt", "qtcolor"} /\ pc = "send" /\ A!Return
        /\ \/ blocks' = A!Shown(rec) /\ queue' = queue
           \/ queue' = Append(queue, rec) /\ blocks' = blocks
        /\ UNCHANGED <<kind, life, fds, rec, line, tries, stored, torn, thrown>>
    BY <1>3 DEF A!Invoke, A!lifeVars, A!Return
  <2>2. CASE blocks' = A!Shown(rec) /\ queue' = queue
    <3>1. rec <= rec /\ (kind = "qtcolor" => \A k \in DOMAIN blocks : blocks[k][1] # rec)
      BY <2>1, <1>0 DEF ServiceInv, ServiceShown
    <3>2. QED
      BY <2>1, <2>2, <3>1, <1>0, ServiceShow
  <2>3. CASE queue' = Append(queue, rec) /\ blocks' = blocks
    BY <2>1, <2>3, ServiceEnqueue
  <2>4. QED
    BY <2>1, <2>2, <2>3
<1>4. QED
  BY <1>1, <1>2, <1>3

LEMMA ServiceStep ==
  ASSUME A!SystemSinksAssumption, ServiceInv, [A!Next]_A!vars
  PROVE  ServiceInv'
<1>1. CASE UNCHANGED A!vars
  <2>1. UNCHANGED <<kind, life, fds, rec, pc, tries, line, stored, torn, queue, blocks, returned, thrown>>
    BY <1>1 DEF A!vars, A!lifeVars, A!callVars, A!storeVars
  <2>2. ServiceTyped' /\ ServiceCall' /\ ServiceStored' /\ ServiceQueued' /\ ServiceKept'
    BY <2>1 DEF ServiceInv, ServiceTyped, ServiceCall, ServiceStored, ServiceQueued, ServiceKept
  <2>3. ServiceShown' /\ A!EachLineOnce'
    BY <2>1 DEF ServiceInv, ServiceShown, A!LastLinesShown, A!EachLineOnce, A!Begun, A!Written
  <2>4. QED
    BY <2>2, <2>3 DEF ServiceInv
<1>2. CASE A!Next
  BY <1>2, ServiceAnswers, ServiceLife, ServiceLog, ServiceDeliver, ServiceWriteFails,
    ServiceWrite, ServiceQueue DEF A!Next
<1>3. QED
  BY <1>1, <1>2

LEMMA ServiceGives ==
  ASSUME A!SystemSinksAssumption, ServiceInv
  PROVE  A!Bounded /\ A!NoneLostSilently /\ A!EachLineOnce /\ A!LastLinesShown
<1>1. A!Bounded
  BY ServiceConstants DEF ServiceInv, ServiceTyped, ServiceCall, A!Bounded
<1>2. A!IsInjective(stored)
  <2> SUFFICES ASSUME NEW j \in DOMAIN stored, NEW k \in DOMAIN stored, stored[j] = stored[k]
               PROVE  j = k
    BY DEF A!IsInjective
  <2>1. DOMAIN stored = 1 .. Len(stored) /\ Len(stored) \in Nat
    BY ServiceTypes DEF ServiceInv
  <2>2. stored[j][1] \in Nat /\ stored[j][2] \in Nat
    BY ServiceTypes DEF ServiceInv
  <2>3. ~A!Before(stored[j], stored[k]) /\ ~A!Before(stored[k], stored[j])
    BY <2>2 DEF A!Before
  <2>4. ~(j < k) /\ ~(k < j)
    BY <2>3 DEF ServiceInv, ServiceStored
  <2>5. QED
    BY <2>1, <2>4
<1>3. A!NoneLostSilently
  BY <1>2 DEF ServiceInv, ServiceKept, A!NoneLostSilently
<1>4. A!LastLinesShown
  <2>1. CASE kind = "qtcolor"
    BY <2>1 DEF ServiceInv, ServiceShown
  <2>2. CASE kind # "qtcolor"
    BY <2>2 DEF A!LastLinesShown
  <2>3. QED
    BY <2>1, <2>2
<1>5. QED
  BY <1>1, <1>3, <1>4 DEF ServiceInv

\* Whatever a service answers, and whenever it does, a record whose call returned
\* is there once, lines come in their order, and a document shows the last ones
\* (android_sink.h:46-73, systemd_namespace_sink.h:35-135, qt_sinks.h:190-226,
\* win_eventlog_sink.h:177-215).
THEOREM ServicesKeepRecords ==
  A!SystemSinksAssumption =>
    (A!Spec => [](A!Bounded /\ A!NoneLostSilently /\ A!EachLineOnce /\ A!LastLinesShown))
<1> SUFFICES ASSUME A!SystemSinksAssumption
             PROVE  A!Spec => [](A!Bounded /\ A!NoneLostSilently /\ A!EachLineOnce /\ A!LastLinesShown)
  OBVIOUS
<1>1. A!Init => ServiceInv
  BY ServiceInitInv
<1>2. ServiceInv /\ [A!Next]_A!vars => ServiceInv'
  BY ServiceStep
<1>3. ServiceInv => A!Bounded /\ A!NoneLostSilently /\ A!EachLineOnce /\ A!LastLinesShown
  BY ServiceGives
<1>4. QED
  BY <1>1, <1>2, <1>3, PTL DEF A!Spec

-----------------------------------------------------------------------------
(* The registry.                                                           *)
(*                                                                         *)
(* Three arguments that share the steps of the users: what the map and its *)
(* loggers are (RegistryMap), who has the mutex of the pool and how many   *)
(* pools there were (RegistryPool), and which worker is the flusher, which *)
(* one is being stopped, and by whom (RegistryFlusher).                    *)

RegistryNames == Names \cup {""}
RegistryLevels == Levels \cup {0}
RegistryObject == [name : RegistryNames, level : RegistryLevels, conf : {0, 1}, pool : Nat]
RegistryWorker ==
  [at : {"waiting", "callback", "ended"}, active : BOOLEAN, mutex : {NoThread}]

RegistryPool ==
  /\ pc \in [Threads -> {"idle", "pool", "initialize", "stop", "stopAll", "dropAll", "resetPool"}]
  /\ seen \in [Threads -> Nat] /\ tp \in Nat /\ pools \in Nat /\ released \in Nat
  /\ tpMutex \in Threads \cup {NoThread}
  /\ \A u \in Threads : pc[u] \in {"pool", "initialize"} => tpMutex = u
  /\ tpMutex # NoThread => pc[tpMutex] \in {"pool", "initialize"}
  /\ \A u \in Threads : pc[u] = "pool" => seen[u] = tp
  /\ tp = 0 => pools <= released
  /\ G!OnePool

RegistryFlusher ==
  /\ flusher \in Nat /\ workers \in Seq(RegistryWorker)
  /\ flusherMutex \in Threads \cup {NoThread}
  /\ flusher # 0 =>
       flusher \in DOMAIN workers /\ workers[flusher].at # "ended" /\ workers[flusher].active
  /\ \A u \in Threads :
       G!Stopping(u) => flusherMutex = u /\ seen[u] \in DOMAIN workers /\ seen[u] # flusher
  /\ flusherMutex # NoThread => G!Stopping(flusherMutex)
  /\ \A w \in DOMAIN workers :
       workers[w].at # "ended" =>
         w = flusher \/ (flusherMutex # NoThread /\ w = seen[flusherMutex])

RegistryMap ==
  /\ objs \in Seq(RegistryObject) /\ conf \in {0, 1} /\ globalLevel \in RegistryLevels
  /\ DOMAIN loggers \subseteq RegistryNames
  /\ \A n \in DOMAIN loggers : loggers[n] \in DOMAIN objs
  /\ default \in DOMAIN objs \cup {0}
  /\ kept \subseteq G!Range(loggers)
  /\ DOMAIN logLevels \subseteq named
  /\ \A n \in DOMAIN logLevels : logLevels[n] \in RegistryLevels
  /\ G!DefaultListed /\ G!Configured

RegistryInv == RegistryPool /\ RegistryFlusher /\ RegistryMap

\* What users call and take steps of, each with what it leaves alone.
RegistryCall(u) ==
  \/ \E n \in Names : G!CreateSync(u, n) \/ G!Drop(u, n)
  \/ G!DropAll(u) \/ G!SetAutomaticRegistration(u)
  \/ \E l \in DOMAIN objs : G!RegisterLogger(u, l) \/ G!RegisterOrReplace(u, l)
  \/ \E l \in DOMAIN objs \cup {0} : G!SetDefaultLogger(u, l)
  \/ \E c \in {0, 1} : G!SetConf(u, c)
  \/ \E level \in Levels : G!SetLevel(u, level)
  \/ \E levels \in G!LevelMaps, globally \in BOOLEAN, level \in Levels :
       G!SetLevels(u, levels, globally, level)

RegistryOther(u) ==
  \/ G!CreateAsync(u) \/ \E positive \in BOOLEAN : G!FlushEvery(u, positive)
  \/ G!InitThreadPool(u) \/ G!Shutdown(u)
  \/ G!CreatePool(u) \/ G!StopWorker(u) \/ G!JoinWorker(u) \/ G!ShutdownPool(u)

LEMMA RegistrySteps ==
  ASSUME G!Next
  PROVE  \/ \E u \in Threads : RegistryCall(u)
         \/ \E u \in Threads : RegistryOther(u)
         \/ \E u \in Threads : \E n \in Names : G!CreateLogger(u, n)
         \/ \E u \in Threads : G!ShutdownLoggers(u)
         \/ \E w \in DOMAIN workers : G!WorkerStep(w)
BY DEF G!Next, G!UserCall, G!UserStep, RegistryCall, RegistryOther

LEMMA RegistryInitInv == G!RegistryAssumption /\ G!Init => RegistryInv
<1> SUFFICES ASSUME G!RegistryAssumption, G!Init PROVE RegistryInv
  OBVIOUS
<1>0. /\ NoThread \notin Threads /\ pc = [u \in Threads |-> "idle"] /\ seen = [u \in Threads |-> 0]
      /\ tp = 0 /\ pools = 0 /\ released = 0 /\ tpMutex = NoThread
      /\ flusher = 0 /\ flusherMutex = NoThread /\ workers = <<>>
  BY DEF G!RegistryAssumption, G!Init
<1>1. RegistryPool
  <2>1. \A u \in Threads : pc[u] = "idle" /\ seen[u] = 0
    BY <1>0
  <2>2. /\ pc \in [Threads -> {"idle", "pool", "initialize", "stop", "stopAll", "dropAll", "resetPool"}]
        /\ seen \in [Threads -> Nat]
    BY <1>0
  <2>3. QED
    BY <2>1, <2>2, <1>0 DEF RegistryPool, G!OnePool
<1>2. RegistryFlusher
  <2>1. \A u \in Threads : ~G!Stopping(u)
    BY <1>0 DEF G!Stopping
  <2>2. workers \in Seq(RegistryWorker) /\ DOMAIN workers = {}
    BY <1>0
  <2>3. QED
    BY <2>1, <2>2, <1>0 DEF RegistryFlusher
<1>3. RegistryMap
  <2>1. objs = <<[name |-> "", level |-> 0, conf |-> 0, pool |-> 0]>>
    BY DEF G!Init, G!Logger
  <2>2. objs \in Seq(RegistryObject) /\ DOMAIN objs = {1} /\ objs[1].name = "" /\ objs[1].conf = 0
        /\ objs[1].level = 0
    <3>1. PICK x : x = [name |-> "", level |-> 0, conf |-> 0, pool |-> 0]
      OBVIOUS
    <3>2. x \in RegistryObject /\ x.name = "" /\ x.conf = 0 /\ x.level = 0
      BY <3>1 DEF RegistryObject, RegistryNames, RegistryLevels
    <3>3. objs = <<x>>
      BY <2>1, <3>1
    <3>4. \A set : x \in set => <<x>> \in Seq(set) /\ DOMAIN <<x>> = {1} /\ <<x>>[1] = x
      OBVIOUS
    <3>5. QED
      BY <3>2, <3>3, <3>4
  <2>3. /\ DOMAIN loggers = {""} /\ loggers[""] = 1 /\ kept = {1} /\ default = 1
        /\ conf = 0 /\ globalLevel = 0 /\ DOMAIN logLevels = {}
    BY DEF G!Init
  <2>4. kept \subseteq G!Range(loggers)
    BY <2>3 DEF G!Range
  <2>5. G!DefaultListed /\ G!Configured
    BY <2>2, <2>3 DEF G!DefaultListed, G!Configured
  <2>6. QED
    BY <2>2, <2>3, <2>4, <2>5 DEF RegistryMap, RegistryNames, RegistryLevels
<1>4. QED
  BY <1>1, <1>2, <1>3 DEF RegistryInv

-----------------------------------------------------------------------------
\* The pool and its mutex.

LEMMA RegistryPoolStep ==
  ASSUME G!RegistryAssumption, RegistryPool, RegistryFlusher, [G!Next]_G!vars
  PROVE  RegistryPool'
<1>0. NoThread \notin Threads
  BY DEF G!RegistryAssumption
<1>1. ASSUME UNCHANGED <<G!poolVars, pc, seen>> PROVE RegistryPool'
  BY <1>1 DEF RegistryPool, G!OnePool, G!poolVars
<1>2. ASSUME NEW u \in Threads, RegistryCall(u) PROVE RegistryPool'
  BY <1>1, <1>2 DEF RegistryCall, G!MapCall, G!CreateSync, G!Drop, G!DropAll,
    G!SetAutomaticRegistration, G!RegisterLogger, G!RegisterOrReplace, G!SetDefaultLogger,
    G!SetConf, G!SetLevel, G!SetLevels
<1>3. ASSUME NEW w \in DOMAIN workers, G!WorkerStep(w) PROVE RegistryPool'
  BY <1>1, <1>3 DEF G!WorkerStep, G!Due, G!FlushAll, G!End, G!userVars
<1>4. ASSUME NEW u \in Threads, G!ShutdownLoggers(u) PROVE RegistryPool'
  BY <1>0, <1>4 DEF G!ShutdownLoggers, G!Goto, G!poolVars, RegistryPool, G!OnePool
<1>5. ASSUME NEW u \in Threads, NEW n \in Names, G!CreateLogger(u, n) PROVE RegistryPool'
  BY <1>0, <1>5 DEF G!CreateLogger, G!Goto, RegistryPool, G!OnePool
<1>6. ASSUME NEW u \in Threads, G!CreateAsync(u) PROVE RegistryPool'
  BY <1>0, <1>6 DEF G!CreateAsync, G!Begin, G!Goto, RegistryPool, G!OnePool
<1>7. ASSUME NEW u \in Threads, NEW new \in BOOLEAN, NEW next \in {"idle", "dropAll"},
             G!Begin(u), G!ReplaceFlusher(u, new, next), UNCHANGED G!poolVars
      PROVE  RegistryPool'
  <2>1. pc[u] = "idle" /\ flusher \in Nat
    BY <1>7 DEF G!Begin, RegistryFlusher
  <2>2. seen' = [seen EXCEPT ![u] = flusher]
        /\ \E where \in {"idle", "dropAll", "stop", "stopAll"} : pc' = [pc EXCEPT ![u] = where]
    BY <1>7 DEF G!ReplaceFlusher, G!Goto
  <2>3. QED
    BY <2>1, <2>2, <1>0, <1>7 DEF G!poolVars, RegistryPool, G!OnePool
<1>8. ASSUME NEW u \in Threads, G!InitThreadPool(u) PROVE RegistryPool'
  BY <1>0, <1>8 DEF G!InitThreadPool, RegistryPool, G!OnePool
<1>9. ASSUME NEW u \in Threads, G!CreatePool(u) PROVE RegistryPool'
  <2>1. pc[u] = "pool" /\ seen[u] = tp /\ tpMutex = u
    BY <1>9 DEF G!CreatePool, RegistryPool
  <2>2. pc' = [pc EXCEPT ![u] = "initialize"] /\ tpMutex' = tpMutex /\ released' = released
    BY <1>9 DEF G!CreatePool, G!Goto
  <2>3. CASE seen[u] # 0
    <3>1. UNCHANGED <<tp, pools, seen>>
      BY <2>3, <1>9 DEF G!CreatePool
    <3>2. QED
      BY <2>1, <2>2, <3>1, <1>0 DEF RegistryPool, G!OnePool
  <2>4. CASE seen[u] = 0
    <3>1. pools' = pools + 1 /\ tp' = pools + 1 /\ seen' = [seen EXCEPT ![u] = pools + 1]
      BY <2>4, <1>9 DEF G!CreatePool
    <3>2. QED
      BY <2>1, <2>2, <2>4, <3>1, <1>0 DEF RegistryPool, G!OnePool
  <2>5. QED
    BY <2>3, <2>4
<1>10. ASSUME NEW u \in Threads, G!StopWorker(u) PROVE RegistryPool'
  BY <1>1, <1>10 DEF G!StopWorker, G!userVars
<1>11. ASSUME NEW u \in Threads, G!JoinWorker(u) PROVE RegistryPool'
  BY <1>0, <1>11 DEF G!JoinWorker, G!MayJoin, G!Stopping, G!Goto, G!poolVars, RegistryPool, G!OnePool
<1>12. ASSUME NEW u \in Threads, G!ShutdownPool(u) PROVE RegistryPool'
  BY <1>0, <1>12 DEF G!ShutdownPool, G!MayReset, G!Goto, RegistryPool, G!OnePool
<1>13. ASSUME NEW u \in Threads, RegistryOther(u) PROVE RegistryPool'
  BY <1>6, <1>7, <1>8, <1>9, <1>10, <1>11, <1>12, <1>13
    DEF RegistryOther, G!FlushEvery, G!Shutdown
<1>14. CASE UNCHANGED G!vars
  BY <1>1, <1>14 DEF G!vars, G!userVars
<1>15. QED
  BY <1>2, <1>3, <1>4, <1>5, <1>13, <1>14, RegistrySteps

-----------------------------------------------------------------------------
\* The flusher and the worker that is stopped.

LEMMA RegistryFlusherStep ==
  ASSUME G!RegistryAssumption, RegistryPool, RegistryFlusher, [G!Next]_G!vars
  PROVE  RegistryFlusher'
<1>0. NoThread \notin Threads
  BY DEF G!RegistryAssumption
<1>a. /\ DOMAIN workers = 1 .. Len(workers) /\ Len(workers) \in Nat
      /\ \A w \in DOMAIN workers : workers[w] \in RegistryWorker
  BY DEF RegistryFlusher
<1>b. pc \in [Threads -> {"idle", "pool", "initialize", "stop", "stopAll", "dropAll", "resetPool"}]
      /\ seen \in [Threads -> Nat]
  BY DEF RegistryPool
\* A thread that does not stop a worker goes on.
<1>1. ASSUME UNCHANGED G!flusherVars, NEW u \in Threads, ~G!Stopping(u),
             \A v \in Threads : v # u => pc'[v] = pc[v] /\ seen'[v] = seen[v],
             pc'[u] \notin {"stop", "stopAll"}
      PROVE  RegistryFlusher'
  BY <1>0, <1>1 DEF G!flusherVars, RegistryFlusher, G!Stopping
<1>2. ASSUME UNCHANGED <<G!flusherVars, pc, seen>> PROVE RegistryFlusher'
  BY <1>2 DEF G!flusherVars, RegistryFlusher, G!Stopping
<1>3. ASSUME NEW u \in Threads, RegistryCall(u) PROVE RegistryFlusher'
  BY <1>2, <1>3 DEF RegistryCall, G!MapCall, G!CreateSync, G!Drop, G!DropAll,
    G!SetAutomaticRegistration, G!RegisterLogger, G!RegisterOrReplace, G!SetDefaultLogger,
    G!SetConf, G!SetLevel, G!SetLevels
<1>4. ASSUME NEW u \in Threads, G!ShutdownLoggers(u) \/ G!ShutdownPool(u) PROVE RegistryFlusher'
  <2>1. /\ UNCHANGED G!flusherVars /\ seen' = seen /\ pc[u] \in {"dropAll", "resetPool"}
        /\ \E where \in {"resetPool", "idle"} : pc' = [pc EXCEPT ![u] = where]
    BY <1>4 DEF G!ShutdownLoggers, G!ShutdownPool, G!MayReset, G!Goto
  <2>2. QED
    BY <2>1, <1>1, <1>b DEF G!Stopping
<1>5. ASSUME NEW u \in Threads, NEW n \in Names, G!CreateLogger(u, n) PROVE RegistryFlusher'
  <2>1. UNCHANGED G!flusherVars /\ seen' = seen /\ pc[u] = "initialize"
        /\ pc' = [pc EXCEPT ![u] = "idle"]
    BY <1>5 DEF G!CreateLogger, G!Goto
  <2>2. QED
    BY <2>1, <1>1, <1>b DEF G!Stopping
<1>6. ASSUME NEW u \in Threads, G!CreateAsync(u) \/ G!CreatePool(u) PROVE RegistryFlusher'
  <2>1. /\ UNCHANGED G!flusherVars /\ pc[u] \in {"idle", "pool"}
        /\ \E where \in {"pool", "initialize"} : pc' = [pc EXCEPT ![u] = where]
        /\ \E s : seen' = [seen EXCEPT ![u] = s] \/ seen' = seen
    BY <1>6 DEF G!CreateAsync, G!CreatePool, G!Begin, G!Goto
  <2>2. QED
    BY <2>1, <1>1, <1>b DEF G!Stopping
<1>7. ASSUME NEW u \in Threads, G!InitThreadPool(u) PROVE RegistryFlusher'
  BY <1>2, <1>7 DEF G!InitThreadPool
<1>8. ASSUME NEW u \in Threads, NEW new \in BOOLEAN, NEW next \in {"idle", "dropAll"},
             G!Begin(u), G!ReplaceFlusher(u, new, next)
      PROVE  RegistryFlusher'
  <2>1. pc[u] = "idle" /\ flusherMutex = NoThread /\ seen' = [seen EXCEPT ![u] = flusher]
    BY <1>8 DEF G!Begin, G!ReplaceFlusher
  <2>2. \A w \in DOMAIN workers : workers[w].at # "ended" => w = flusher
    BY <2>1 DEF RegistryFlusher
  <2>3. \A v \in Threads : ~G!Stopping(v)
    BY <2>1, <1>0 DEF RegistryFlusher
  <2>4. /\ workers' \in Seq(RegistryWorker) /\ Len(workers') \in Nat
        /\ DOMAIN workers' = 1 .. Len(workers') /\ Len(workers) <= Len(workers')
        /\ \A w \in DOMAIN workers : w \in DOMAIN workers' /\ workers'[w] = workers[w]
        /\ \A w \in DOMAIN workers' : w \in DOMAIN workers \/ w = flusher'
        /\ flusher' = 0 \/ (flusher' = Len(workers) + 1 /\ flusher' \in DOMAIN workers'
                            /\ workers'[flusher'].at # "ended" /\ workers'[flusher'].active)
    <3>1. CASE new
      <4> DEFINE W == [at |-> "waiting", active |-> TRUE, mutex |-> NoThread]
      <4>1. W \in RegistryWorker /\ W.at # "ended" /\ W.active
        BY DEF RegistryWorker
      <4>2. workers' = Append(workers, W) /\ flusher' = Len(workers) + 1
        BY <3>1, <1>8 DEF G!ReplaceFlusher
      <4> HIDE DEF W
      <4>3. workers \in Seq(RegistryWorker)
        BY DEF RegistryFlusher
      <4>4. QED
        BY <4>1, <4>2, <4>3
    <3>2. CASE ~new
      BY <3>2, <1>8, <1>a DEF G!ReplaceFlusher, RegistryFlusher
    <3>3. QED
      BY <3>1, <3>2
  <2>5. flusher' \in Nat /\ (flusher # 0 => flusher \in DOMAIN workers /\ flusher # flusher')
    BY <2>4, <1>a DEF RegistryFlusher
  <2>6. CASE flusher = 0
    <3>1. pc' = [pc EXCEPT ![u] = next] /\ flusherMutex' = NoThread
      BY <2>1, <2>6, <1>8 DEF G!ReplaceFlusher, G!Goto
    <3>2. \A v \in Threads : ~G!Stopping(v)'
      BY <3>1, <2>3, <1>b DEF G!Stopping
    <3>3. \A w \in DOMAIN workers' : workers'[w].at # "ended" => w = flusher'
      BY <2>2, <2>4, <2>6, <1>a
    <3>4. QED
      BY <3>1, <3>2, <3>3, <2>4, <2>5 DEF RegistryFlusher
  <2>7. CASE flusher # 0
    <3>1. /\ pc' = [pc EXCEPT ![u] = IF next = "idle" THEN "stop" ELSE "stopAll"]
          /\ flusherMutex' = u
      BY <2>7, <1>8 DEF G!ReplaceFlusher, G!Goto
    <3>2. seen'[u] = flusher /\ G!Stopping(u)'
      BY <3>1, <2>1, <1>b DEF G!Stopping
    <3>3. \A v \in Threads : G!Stopping(v)' => v = u
      BY <3>1, <2>3, <1>b DEF G!Stopping
    <3>4. \A w \in DOMAIN workers' : workers'[w].at # "ended" => w = flusher' \/ w = flusher
      BY <2>2, <2>4
    <3>5. QED
      BY <3>1, <3>2, <3>3, <3>4, <2>4, <2>5, <2>7, <1>0 DEF RegistryFlusher
  <2>8. QED
    BY <2>6, <2>7
\* A worker goes on, or is told to end.
<1>9. ASSUME UNCHANGED <<flusherMutex, flusher, pc, seen>>, NEW w \in DOMAIN workers,
             workers' \in Seq(RegistryWorker), DOMAIN workers' = DOMAIN workers,
             \A x \in DOMAIN workers : x # w => workers'[x] = workers[x],
             workers[w].at = "ended" => workers'[w].at = "ended",
             w = flusher => workers'[w].at # "ended" /\ workers'[w].active
      PROVE  RegistryFlusher'
  BY <1>9 DEF RegistryFlusher, G!Stopping
<1>10. ASSUME NEW w \in DOMAIN workers, G!WorkerStep(w) PROVE RegistryFlusher'
  <2>1. /\ UNCHANGED <<flusherMutex, flusher, pc, seen>> /\ workers[w].at # "ended"
        /\ \/ workers' = [workers EXCEPT ![w].at = "callback"]
           \/ workers' = [workers EXCEPT ![w].at = "waiting"]
           \/ workers' = [workers EXCEPT ![w].at = "ended"] /\ ~workers[w].active
    BY <1>10 DEF G!WorkerStep, G!Due, G!FlushAll, G!End, G!MayFlush, G!MayEnd, G!userVars
  <2>2. PICK a \in {"callback", "waiting", "ended"} :
          workers' = [workers EXCEPT ![w].at = a] /\ (a = "ended" => ~workers[w].active)
    BY <2>1
  <2>3. [workers[w] EXCEPT !.at = a] \in RegistryWorker
    BY <1>a DEF RegistryWorker
  <2>4. workers' = [workers EXCEPT ![w] = [workers[w] EXCEPT !.at = a]]
    BY <2>2
  <2>5. /\ workers' \in Seq(RegistryWorker) /\ DOMAIN workers' = DOMAIN workers
        /\ \A x \in DOMAIN workers : x # w => workers'[x] = workers[x]
        /\ workers'[w] = [workers[w] EXCEPT !.at = a]
    BY <2>3, <2>4 DEF RegistryFlusher
  <2>6. workers'[w].at = a /\ workers'[w].active = workers[w].active
    BY <2>5, <1>a DEF RegistryWorker
  <2>7. w = flusher => workers[w].active
    BY <1>a DEF RegistryFlusher
  <2>8. QED
    BY <2>1, <2>2, <2>5, <2>6, <2>7, <1>9
<1>11. ASSUME NEW u \in Threads, G!StopWorker(u) PROVE RegistryFlusher'
  <2>1. /\ UNCHANGED <<flusherMutex, flusher, pc, seen>> /\ G!Stopping(u)
        /\ workers' = [workers EXCEPT ![seen[u]].active = FALSE]
    BY <1>11 DEF G!StopWorker, G!MayStop, G!userVars
  <2>2. PICK w : w = seen[u]
    OBVIOUS
  <2>3. w \in DOMAIN workers /\ w # flusher
    BY <2>1, <2>2 DEF RegistryFlusher
  <2>4. [workers[w] EXCEPT !.active = FALSE] \in RegistryWorker
        /\ [workers[w] EXCEPT !.active = FALSE].at = workers[w].at
    BY <2>3, <1>a DEF RegistryWorker
  <2>5. workers' = [workers EXCEPT ![w] = [workers[w] EXCEPT !.active = FALSE]]
    BY <2>1, <2>2
  <2>6. /\ workers' \in Seq(RegistryWorker) /\ DOMAIN workers' = DOMAIN workers
        /\ \A x \in DOMAIN workers : x # w => workers'[x] = workers[x]
        /\ workers'[w].at = workers[w].at
    <3>1. PICK x : x = [workers[w] EXCEPT !.active = FALSE]
      OBVIOUS
    <3>2. x \in RegistryWorker /\ x.at = workers[w].at /\ workers' = [workers EXCEPT ![w] = x]
      BY <3>1, <2>4, <2>5
    <3>3. workers \in Seq(RegistryWorker)
      BY DEF RegistryFlusher
    <3>4. QED
      BY <3>2, <3>3, <2>3
  <2>7. QED
    BY <2>1, <2>3, <2>6, <1>9
<1>12. ASSUME NEW u \in Threads, G!JoinWorker(u) PROVE RegistryFlusher'
  <2>1. /\ G!Stopping(u) /\ workers[seen[u]].at = "ended" /\ flusherMutex' = NoThread
        /\ \E where \in {"idle", "dropAll"} : pc' = [pc EXCEPT ![u] = where]
        /\ UNCHANGED <<flusher, workers, seen>>
    BY <1>12 DEF G!JoinWorker, G!MayJoin, G!Goto
  <2>2. flusherMutex = u
    BY <2>1 DEF RegistryFlusher
  <2>3. \A v \in Threads : ~G!Stopping(v)'
    BY <2>1, <2>2, <1>b DEF RegistryFlusher, G!Stopping
  <2>4. QED
    BY <2>1, <2>2, <2>3 DEF RegistryFlusher
<1>13. ASSUME NEW u \in Threads, RegistryOther(u) PROVE RegistryFlusher'
  BY <1>4, <1>6, <1>7, <1>8, <1>11, <1>12, <1>13 DEF RegistryOther, G!FlushEvery, G!Shutdown
<1>14. CASE UNCHANGED G!vars
  BY <1>2, <1>14 DEF G!vars, G!userVars
<1>15. QED
  BY <1>3, <1>4, <1>5, <1>10, <1>13, <1>14, RegistrySteps

-----------------------------------------------------------------------------
\* The map.

LEMMA RegistryObjects ==
  ASSUME RegistryMap
  PROVE  /\ DOMAIN objs = 1 .. Len(objs) /\ Len(objs) \in Nat
         /\ \A l \in DOMAIN objs :
              /\ objs[l] \in RegistryObject /\ objs[l].name \in RegistryNames
              /\ objs[l].level \in RegistryLevels /\ objs[l].conf \in {0, 1} /\ objs[l].pool \in Nat
         /\ \A n \in DOMAIN loggers : loggers[n] \in G!Range(loggers)
         /\ G!Range(loggers) \subseteq DOMAIN objs
<1>1. DOMAIN objs = 1 .. Len(objs) /\ Len(objs) \in Nat
  BY DEF RegistryMap
<1>2. \A l \in DOMAIN objs : objs[l] \in RegistryObject
  BY DEF RegistryMap
<1>3. QED
  BY <1>1, <1>2 DEF RegistryMap, RegistryObject, G!Range

LEMMA RegistryRange ==
  ASSUME NEW f, NEW n, NEW l
  PROVE  /\ DOMAIN G!With(f, n, l) = DOMAIN f \cup {n} /\ G!With(f, n, l)[n] = l
         /\ \A m \in DOMAIN f : m # n => G!With(f, n, l)[m] = f[m]
         /\ G!Range(G!With(f, n, l)) \subseteq G!Range(f) \cup {l}
         /\ l \in G!Range(G!With(f, n, l))
BY DEF G!With, G!Range

\* One logger more, in the map or not.
LEMMA RegistryInitialize ==
  ASSUME RegistryMap, NEW n \in Names, NEW pool \in Nat, G!Initialize(n, pool),
         UNCHANGED <<default, G!settingVars>>
  PROVE  RegistryMap'
<1>0. UNCHANGED <<default, conf, globalLevel, logLevels, automatic, named>>
  BY DEF G!settingVars
<1>1. CASE UNCHANGED <<objs, loggers, kept>>
  BY <1>0, <1>1 DEF RegistryMap, G!DefaultListed, G!Configured
<1>2. CASE ~(automatic /\ n \in DOMAIN loggers)
  <2>1. PICK l, x : l = Len(objs) + 1 /\ x = G!Logger(n, G!LevelOf(n), conf, pool)
    OBVIOUS
  <2>2. /\ objs' = Append(objs, x)
        /\ \/ n \notin DOMAIN loggers /\ G!SetMap(G!With(loggers, n, l), {l})
           \/ UNCHANGED <<loggers, kept>>
    BY <2>1, <1>2 DEF G!Initialize
  <2>3. G!LevelOf(n) \in RegistryLevels /\ (n \notin named => G!LevelOf(n) = globalLevel)
    BY DEF RegistryMap, G!LevelOf
  <2>4. x \in RegistryObject /\ x.name = n /\ x.conf = conf /\ x.level = G!LevelOf(n)
    BY <2>1, <2>3 DEF G!Logger, RegistryObject, RegistryNames, RegistryMap
  <2>5. /\ objs' \in Seq(RegistryObject) /\ DOMAIN objs' = DOMAIN objs \cup {l} /\ l \notin DOMAIN objs
        /\ l \in DOMAIN objs' /\ objs'[l] = x /\ l # 0
        /\ \A k \in DOMAIN objs : objs'[k] = objs[k]
    <3>1. objs \in Seq(RegistryObject) /\ DOMAIN objs = 1 .. Len(objs) /\ Len(objs) \in Nat
      BY RegistryObjects DEF RegistryMap
    <3>2. QED
      BY <3>1, <2>1, <2>2, <2>4
  <2>6. CASE UNCHANGED <<loggers, kept>>
    <3>1. kept \subseteq DOMAIN objs
      BY RegistryObjects DEF RegistryMap
    <3>2. G!DefaultListed' /\ G!Configured'
      BY <3>1, <2>5, <2>6, <1>0 DEF RegistryMap, G!DefaultListed, G!Configured
    <3>3. QED
      BY <3>2, <2>5, <2>6, <1>0 DEF RegistryMap
  <2>7. CASE n \notin DOMAIN loggers /\ G!SetMap(G!With(loggers, n, l), {l})
    <3>a. loggers' = G!With(loggers, n, l)
      BY <2>7 DEF G!SetMap
    <3>b. /\ DOMAIN G!With(loggers, n, l) = DOMAIN loggers \cup {n} /\ G!With(loggers, n, l)[n] = l
          /\ \A m \in DOMAIN loggers : m # n => G!With(loggers, n, l)[m] = loggers[m]
      BY DEF G!With
    <3>1. /\ DOMAIN loggers' = DOMAIN loggers \cup {n} /\ loggers'[n] = l
          /\ \A m \in DOMAIN loggers : loggers'[m] = loggers[m]
      BY <2>7, <3>a, <3>b
    <3>2. kept' \subseteq kept \cup {l} /\ kept' \subseteq G!Range(loggers)' /\ kept \subseteq DOMAIN objs
      BY <2>7, RegistryObjects DEF G!SetMap, RegistryMap
    <3>3. G!DefaultListed'
      BY <3>1, <2>4, <2>5, <1>0 DEF RegistryMap, G!DefaultListed
    <3>4. G!Configured'
      BY <3>2, <2>3, <2>4, <2>5, <1>0 DEF RegistryMap, G!Configured
    <3>5. n \in RegistryNames
      BY DEF RegistryNames
    <3>6. QED
      BY <3>1, <3>2, <3>3, <3>4, <3>5, <2>5, <1>0 DEF RegistryMap
  <2>8. QED
    BY <2>2, <2>6, <2>7
<1>3. QED
  BY <1>1, <1>2 DEF G!Initialize

\* A logger is put in its place in the map.
LEMMA RegistryPut ==
  ASSUME RegistryMap, NEW l \in DOMAIN objs, G!SetMap(G!With(loggers, objs[l].name, l), {}),
         UNCHANGED <<objs, G!settingVars>>, default' \in {default, l}
  PROVE  RegistryMap'
<1>0. UNCHANGED <<objs, conf, globalLevel, logLevels, automatic, named>>
  BY DEF G!settingVars
<1>1. PICK n : n = objs[l].name
  OBVIOUS
<1>2. /\ DOMAIN loggers' = DOMAIN loggers \cup {n} /\ loggers'[n] = l
      /\ \A m \in DOMAIN loggers : m # n => loggers'[m] = loggers[m]
  <2>1. loggers' = G!With(loggers, n, l)
    BY <1>1 DEF G!SetMap
  <2>2. /\ DOMAIN G!With(loggers, n, l) = DOMAIN loggers \cup {n} /\ G!With(loggers, n, l)[n] = l
        /\ \A m \in DOMAIN loggers : m # n => G!With(loggers, n, l)[m] = loggers[m]
    BY DEF G!With
  <2>3. QED
    BY <2>1, <2>2
<1>3. kept' \subseteq kept /\ kept' \subseteq G!Range(loggers)'
  BY DEF G!SetMap
<1>4. n \in RegistryNames
  BY <1>1, RegistryObjects
<1>5. G!DefaultListed'
  BY <1>0, <1>1, <1>2 DEF RegistryMap, G!DefaultListed
<1>6. G!Configured'
  BY <1>0, <1>3 DEF RegistryMap, G!Configured
<1>7. QED
  BY <1>0, <1>2, <1>3, <1>4, <1>5, <1>6 DEF RegistryMap

\* Names leave the map, and the default logger with its name.
LEMMA RegistryDrop ==
  ASSUME RegistryMap, NEW names, G!SetMap(G!Without(loggers, names), {}),
         UNCHANGED <<objs, G!settingVars>>,
         default' = 0 \/ (default' = default /\ objs[default].name \notin names)
  PROVE  RegistryMap'
<1>0. UNCHANGED <<objs, conf, globalLevel, logLevels, automatic, named>>
  BY DEF G!settingVars
<1>2. DOMAIN loggers' = DOMAIN loggers \ names /\ \A m \in DOMAIN loggers' : loggers'[m] = loggers[m]
  BY DEF G!SetMap, G!Without
<1>3. kept' \subseteq kept /\ kept' \subseteq G!Range(loggers)'
  BY DEF G!SetMap
<1>5. G!DefaultListed'
  BY <1>0, <1>2 DEF RegistryMap, G!DefaultListed
<1>6. G!Configured'
  BY <1>0, <1>3 DEF RegistryMap, G!Configured
<1>7. QED
  BY <1>0, <1>2, <1>3, <1>5, <1>6 DEF RegistryMap

\* What is set is set in every logger of the map.
LEMMA RegistrySet ==
  ASSUME RegistryMap, NEW become, G!ForAll(become), UNCHANGED <<loggers, default, kept>>,
         \A l \in DOMAIN objs : become[l] \in RegistryObject /\ become[l].name = objs[l].name,
         conf' \in {0, 1}, globalLevel' \in RegistryLevels,
         DOMAIN logLevels' \subseteq named', \A n \in DOMAIN logLevels' : logLevels'[n] \in RegistryLevels,
         \A l \in kept : /\ become[l].conf = conf'
                         /\ become[l].name \notin named' => become[l].level = globalLevel'
  PROVE  RegistryMap'
<1>1. objs' = [l \in DOMAIN objs |-> IF l \in G!Range(loggers) THEN become[l] ELSE objs[l]]
  BY DEF G!ForAll
<1>2. /\ DOMAIN objs' = DOMAIN objs
      /\ \A l \in DOMAIN objs : objs'[l] \in RegistryObject /\ objs'[l].name = objs[l].name
      /\ \A l \in kept : l \in DOMAIN objs /\ objs'[l] = become[l]
  BY <1>1, RegistryObjects DEF RegistryMap
<1>3. objs' \in Seq(RegistryObject)
  <2>1. objs' \in [1 .. Len(objs) -> RegistryObject] /\ Len(objs) \in Nat
    BY <1>1, <1>2, RegistryObjects
  <2>2. QED
    BY <2>1
<1>4. G!DefaultListed'
  BY <1>2 DEF RegistryMap, G!DefaultListed
<1>5. G!Configured'
  BY <1>2 DEF RegistryMap, G!Configured
<1>6. kept' \subseteq G!Range(loggers)'
  BY DEF RegistryMap
<1>7. QED
  BY <1>2, <1>3, <1>4, <1>5, <1>6 DEF RegistryMap

LEMMA RegistryLevelMaps ==
  ASSUME NEW levels \in G!LevelMaps
  PROVE  \A n \in DOMAIN levels : levels[n] \in RegistryLevels
<1>1. PICK names : levels \in [names -> Levels]
  BY DEF G!LevelMaps
<1>2. QED
  BY <1>1 DEF RegistryLevels

LEMMA RegistrySets ==
  ASSUME RegistryMap, NEW u \in Threads,
         \/ \E c \in {0, 1} : G!SetConf(u, c)
         \/ \E level \in Levels : G!SetLevel(u, level)
         \/ \E levels \in G!LevelMaps, globally \in BOOLEAN, level \in Levels :
              G!SetLevels(u, levels, globally, level)
  PROVE  RegistryMap'
<1>0. kept \subseteq DOMAIN objs
  BY RegistryObjects DEF RegistryMap
<1>1. ASSUME NEW c \in {0, 1}, G!SetConf(u, c) PROVE RegistryMap'
  <2> DEFINE become == [l \in DOMAIN objs |-> [objs[l] EXCEPT !.conf = c]]
  <2>1. /\ conf' = c /\ G!ForAll(become)
        /\ UNCHANGED <<loggers, default, kept, globalLevel, logLevels, automatic, named>>
    BY <1>1 DEF G!SetConf
  <2>2. ASSUME NEW l \in DOMAIN objs
        PROVE  /\ become[l] \in RegistryObject /\ become[l].name = objs[l].name
               /\ become[l].conf = c /\ become[l].level = objs[l].level
    BY RegistryObjects DEF RegistryObject
  <2> HIDE DEF become
  <2>3. \A l \in kept : become[l].name \notin named => become[l].level = globalLevel
    BY <2>2, <1>0 DEF RegistryMap, G!Configured
  <2>4. QED
    BY <2>1, <2>2, <2>3, <1>0, RegistrySet DEF RegistryMap
<1>2. ASSUME NEW level \in Levels, G!SetLevel(u, level) PROVE RegistryMap'
  <2> DEFINE become == [l \in DOMAIN objs |-> [objs[l] EXCEPT !.level = level]]
  <2>1. /\ globalLevel' = level /\ G!ForAll(become)
        /\ UNCHANGED <<loggers, default, kept, conf, logLevels, automatic, named>>
    BY <1>2 DEF G!SetLevel
  <2>2. ASSUME NEW l \in DOMAIN objs
        PROVE  /\ become[l] \in RegistryObject /\ become[l].name = objs[l].name
               /\ become[l].conf = objs[l].conf /\ become[l].level = level
    BY RegistryObjects DEF RegistryObject, RegistryLevels
  <2> HIDE DEF become
  <2>3. \A l \in kept : become[l].conf = conf
    BY <2>2, <1>0 DEF RegistryMap, G!Configured
  <2>4. level \in RegistryLevels
    BY DEF RegistryLevels
  <2>5. QED
    BY <2>1, <2>2, <2>3, <2>4, <1>0, RegistrySet DEF RegistryMap
<1>3. ASSUME NEW levels \in G!LevelMaps, NEW globally \in BOOLEAN, NEW level \in Levels,
             G!SetLevels(u, levels, globally, level)
      PROVE  RegistryMap'
  <2> DEFINE newLevel(l) == IF objs[l].name \in DOMAIN levels THEN levels[objs[l].name]
                            ELSE IF globally THEN level ELSE objs[l].level
             become == [l \in DOMAIN objs |-> [objs[l] EXCEPT !.level =
                          IF objs[l].name \in DOMAIN levels THEN levels[objs[l].name]
                          ELSE IF globally THEN level ELSE @]]
  <2>1. /\ logLevels' = levels /\ named' = named \cup DOMAIN levels
        /\ globalLevel' = (IF globally THEN level ELSE globalLevel) /\ G!ForAll(become)
        /\ UNCHANGED <<loggers, default, kept, conf, automatic>>
    BY <1>3 DEF G!SetLevels
  <2>2. \A n \in DOMAIN levels : levels[n] \in RegistryLevels
    BY RegistryLevelMaps
  <2>3. ASSUME NEW l \in DOMAIN objs
        PROVE  /\ become[l] \in RegistryObject /\ become[l].name = objs[l].name
               /\ become[l].conf = objs[l].conf /\ become[l].level = newLevel(l)
    <3>1. newLevel(l) \in RegistryLevels
      BY <2>2, RegistryObjects DEF RegistryLevels
    <3>2. become[l] = [objs[l] EXCEPT !.level = newLevel(l)]
      OBVIOUS
    <3> HIDE DEF newLevel, become
    <3>3. QED
      BY <3>1, <3>2, RegistryObjects DEF RegistryObject
  <2> HIDE DEF become
  <2>4. ASSUME NEW l \in kept
        PROVE  become[l].conf = conf /\ (become[l].name \notin named' => become[l].level = globalLevel')
    <3>1. l \in DOMAIN objs /\ objs[l].conf = conf /\ (objs[l].name \notin named => objs[l].level = globalLevel)
      BY <1>0 DEF RegistryMap, G!Configured
    <3>2. QED
      BY <3>1, <2>1, <2>3
  <2>5. globalLevel' \in RegistryLevels
    BY <2>1 DEF RegistryMap, RegistryLevels
  <2>6. QED
    BY <2>1, <2>2, <2>3, <2>4, <2>5, RegistrySet DEF RegistryMap
<1>4. QED
  BY <1>1, <1>2, <1>3

LEMMA RegistryMapStep ==
  ASSUME G!RegistryAssumption, RegistryPool, RegistryMap, [G!Next]_G!vars
  PROVE  RegistryMap'
<1>1. ASSUME UNCHANGED <<G!mapVars, conf, globalLevel, logLevels, named>> PROVE RegistryMap'
  BY <1>1 DEF RegistryMap, G!DefaultListed, G!Configured, G!mapVars, G!Range
<1>2. ASSUME NEW u \in Threads, NEW n \in Names, G!CreateSync(u, n) PROVE RegistryMap'
  BY <1>2, RegistryInitialize DEF G!CreateSync
<1>3. ASSUME NEW u \in Threads, NEW n \in Names, G!CreateLogger(u, n) PROVE RegistryMap'
  <2>1. seen[u] \in Nat
    BY DEF RegistryPool
  <2>2. QED
    BY <1>3, <2>1, RegistryInitialize DEF G!CreateLogger
<1>4. ASSUME NEW u \in Threads, NEW n \in Names, G!Drop(u, n) PROVE RegistryMap'
  <2>1. default' = 0 \/ (default' = default /\ (default = 0 \/ objs[default].name \notin {n}))
    BY <1>4 DEF G!Drop
  <2>2. default' = 0 \/ (default' = default /\ objs[default].name \notin {n})
    BY <2>1
  <2>3. QED
    BY <1>4, <2>2, RegistryDrop DEF G!Drop
<1>5. ASSUME NEW u \in Threads, G!DropAll(u) \/ G!ShutdownLoggers(u) PROVE RegistryMap'
  <2>1. /\ G!SetMap(G!Without(loggers, DOMAIN loggers), {}) /\ default' = 0
        /\ UNCHANGED <<objs, G!settingVars>>
    BY <1>5 DEF G!DropAll, G!ShutdownLoggers
  <2>2. QED
    BY <2>1, RegistryDrop
<1>6. ASSUME NEW u \in Threads, NEW l \in DOMAIN objs,
             G!RegisterLogger(u, l) \/ G!RegisterOrReplace(u, l)
      PROVE  RegistryMap'
  BY <1>6, RegistryPut DEF G!RegisterLogger, G!RegisterOrReplace
<1>7. ASSUME NEW u \in Threads, NEW l \in DOMAIN objs \cup {0}, G!SetDefaultLogger(u, l)
      PROVE  RegistryMap'
  <2>1. CASE l = 0
    <3>1. /\ loggers' = loggers /\ default' = 0 /\ kept' \subseteq kept
          /\ UNCHANGED <<objs, conf, globalLevel, logLevels, automatic, named>>
      BY <2>1, <1>7 DEF G!SetDefaultLogger, G!SetMap, G!settingVars
    <3>2. G!DefaultListed' /\ G!Configured'
      BY <3>1 DEF RegistryMap, G!DefaultListed, G!Configured
    <3>3. kept' \subseteq G!Range(loggers)'
      BY <3>1 DEF RegistryMap
    <3>4. QED
      BY <3>1, <3>2, <3>3 DEF RegistryMap
  <2>2. CASE l # 0
    <3>1. l \in DOMAIN objs /\ G!SetMap(G!With(loggers, objs[l].name, l), {}) /\ default' = l
          /\ UNCHANGED <<objs, G!settingVars>>
      BY <2>2, <1>7 DEF G!SetDefaultLogger
    <3>2. QED
      BY <3>1, RegistryPut
  <2>3. QED
    BY <2>1, <2>2
<1>8. ASSUME NEW u \in Threads, RegistryCall(u) PROVE RegistryMap'
  <2>1. ASSUME G!SetAutomaticRegistration(u) PROVE RegistryMap'
    BY <2>1, <1>1 DEF G!SetAutomaticRegistration
  <2>2. QED
    BY <2>1, <1>2, <1>4, <1>5, <1>6, <1>7, <1>8, RegistrySets DEF RegistryCall
<1>9. ASSUME NEW u \in Threads, RegistryOther(u) PROVE RegistryMap'
  <2>1. UNCHANGED <<G!mapVars, G!settingVars>>
    BY <1>9 DEF RegistryOther, G!CreateAsync, G!FlushEvery, G!InitThreadPool, G!Shutdown,
      G!CreatePool, G!StopWorker, G!JoinWorker, G!ShutdownPool
  <2>2. QED
    BY <2>1, <1>1 DEF G!settingVars
<1>10. ASSUME NEW w \in DOMAIN workers, G!WorkerStep(w) PROVE RegistryMap'
  BY <1>1, <1>10 DEF G!WorkerStep, G!Due, G!FlushAll, G!End, G!settingVars
<1>11. CASE UNCHANGED G!vars
  BY <1>1, <1>11 DEF G!vars, G!settingVars
<1>12. QED
  BY <1>3, <1>5, <1>8, <1>9, <1>10, <1>11, RegistrySteps

-----------------------------------------------------------------------------

LEMMA RegistryStep ==
  ASSUME G!RegistryAssumption, RegistryInv, [G!Next]_G!vars
  PROVE  RegistryInv'
BY RegistryPoolStep, RegistryFlusherStep, RegistryMapStep DEF RegistryInv

LEMMA RegistryGives ==
  ASSUME G!RegistryAssumption, RegistryInv
  PROVE  G!Configured /\ G!DefaultListed /\ G!OnePool /\ G!OneFlusher /\ G!CallsGoOn
<1>1. G!Configured /\ G!DefaultListed /\ G!OnePool
  BY DEF RegistryInv, RegistryMap, RegistryPool
<1>2. G!OneFlusher
  BY DEF RegistryInv, RegistryFlusher, G!OneFlusher
<1>3. G!CallsGoOn
  <2> SUFFICES ASSUME NEW u \in Threads, pc[u] # "idle"
               PROVE  \/ \E v \in Threads : G!MayGoOn(v)
                      \/ \E w \in DOMAIN workers : G!MayFlush(w) \/ G!MayEnd(w)
    BY DEF G!CallsGoOn
  <2>1. pc[u] \in {"pool", "initialize", "stop", "stopAll", "dropAll", "resetPool"}
    BY DEF RegistryInv, RegistryPool
  <2>2. CASE pc[u] \in {"pool", "initialize", "dropAll"}
    BY <2>2 DEF G!MayGoOn
  <2>3. CASE pc[u] = "resetPool"
    <3>1. CASE tpMutex = NoThread
      BY <2>3, <3>1 DEF G!MayGoOn, G!MayReset
    <3>2. CASE tpMutex # NoThread
      BY <3>2 DEF G!MayGoOn, RegistryInv, RegistryPool
    <3>3. QED
      BY <3>1, <3>2
  <2>4. CASE pc[u] \in {"stop", "stopAll"}
    <3>1. PICK w : w = seen[u]
      OBVIOUS
    <3>2. G!Stopping(u) /\ w \in DOMAIN workers
      BY <2>4, <3>1 DEF RegistryInv, RegistryFlusher, G!Stopping
    <3>3. workers[w] \in RegistryWorker
      BY <3>2 DEF RegistryInv, RegistryFlusher
    <3>4. workers[w].at \in {"waiting", "callback", "ended"} /\ workers[w].mutex = NoThread
      BY <3>3 DEF RegistryWorker
    <3>5. CASE workers[w].at = "callback"
      BY <3>2, <3>5 DEF G!MayFlush
    <3>6. CASE workers[w].at = "ended"
      BY <3>1, <3>2, <3>6 DEF G!MayGoOn, G!MayJoin
    <3>7. CASE workers[w].at = "waiting" /\ workers[w].active
      BY <3>1, <3>2, <3>7 DEF G!MayGoOn, G!MayStop
    <3>8. CASE workers[w].at = "waiting" /\ ~workers[w].active
      BY <3>2, <3>4, <3>8 DEF G!MayEnd
    <3>9. QED
      BY <3>4, <3>5, <3>6, <3>7, <3>8
  <2>5. QED
    BY <2>1, <2>2, <2>3, <2>4
<1>4. QED
  BY <1>1, <1>2, <1>3

\* In whatever order its calls come and its mutexes are taken, the registry's
\* loggers are set as it says, there is one pool and one flusher at most, and no
\* call waits for ever (registry-inl.h:62-216, async.h:40-52).
THEOREM RegistryKept ==
  G!RegistryAssumption =>
    (G!Spec => [](/\ G!Configured /\ G!DefaultListed /\ G!OnePool /\ G!OneFlusher
                  /\ G!CallsGoOn))
<1> SUFFICES ASSUME G!RegistryAssumption
             PROVE  G!Spec => [](/\ G!Configured /\ G!DefaultListed /\ G!OnePool /\ G!OneFlusher
                                 /\ G!CallsGoOn)
  OBVIOUS
<1>1. G!Init => RegistryInv
  BY RegistryInitInv
<1>2. RegistryInv /\ [G!Next]_G!vars => RegistryInv'
  BY RegistryStep
<1>3. RegistryInv => G!Configured /\ G!DefaultListed /\ G!OnePool /\ G!OneFlusher /\ G!CallsGoOn
  BY RegistryGives
<1>4. QED
  BY <1>1, <1>2, <1>3, PTL DEF G!Spec

=============================================================================
