------------------------------ MODULE NetSinks ------------------------------
(***************************************************************************)
(* tcp_sink (tcp_sink.h) and udp_sink (udp_sink.h) with their clients for  *)
(* both systems (tcp_client.h, tcp_client-windows.h, udp_client.h,         *)
(* udp_client-windows.h): one socket, made again on the next record after  *)
(* an error.                                                               *)
(*                                                                         *)
(* The sink's mutex makes its calls one at a time.  The other side may end *)
(* a connection between any two system calls, after which a send() may     *)
(* fail at once, later or never, so each may succeed or fail.  A record is *)
(* a number and has Bytes bytes; conns[k] is what the system has taken on  *)
(* socket number k, as pairs of a record and a byte of it.                 *)
(***************************************************************************)
EXTENDS Naturals, Sequences

CONSTANTS
  Kinds,     \* the sinks tried: [udp, windows, lazy], each BOOLEAN
  Addresses, \* 1 .. n, what getaddrinfo() gives
  Bytes,     \* of each record
  MaxRecs, MaxConns, MaxStarts  \* bounds

NetAssumption ==
  /\ Kinds \subseteq [udp : BOOLEAN, windows : BOOLEAN, lazy : BOOLEAN]
  /\ Bytes \in Nat \ {0} /\ {MaxRecs, MaxConns, MaxStarts} \subseteq Nat
  /\ \E n \in Addresses : n \in Nat \ {0} /\ Addresses = 1 .. n

VARIABLES
  kind,
  pc,      \* "none": no sink; "idle"; "connect" at an address; "send"
  addr,    \* the address connect() is at
  socket,  \* socket_: the connection it stands for, or 0 for -1
  open,    \* the connections whose socket the process has open
  conns,   \* what was sent on each connection
  rec,     \* the record that is sent, or 0 when the constructor connects
  sent,    \* bytes_sent
  logged,  \* records so far
  thrown,  \* history: records whose call threw
  winsock, \* calls of WSAStartup without their WSACleanup
  starts

sockVars == <<socket, open, conns>>
callVars == <<rec, sent, logged, thrown>>
vars == <<kind, pc, addr, sockVars, callVars, winsock, starts>>

Init ==
  /\ kind \in Kinds
  /\ pc = "none" /\ addr = 1
  /\ socket = 0 /\ open = {} /\ conns = <<>>
  /\ rec = 0 /\ sent = 0 /\ logged = 0 /\ thrown = {}
  /\ winsock = 0 /\ starts = 0

\* WSACleanup(), in the destructor.
CleanUp == winsock' = IF kind.windows THEN winsock - 1 ELSE winsock

\* An exception out of sink_it_(), or out of the sink's constructor, which
\* destroys the client.
Throw ==
  /\ thrown' = thrown \cup ({rec} \ {0})
  /\ IF rec = 0 THEN pc' = "none" /\ CleanUp ELSE pc' = "idle" /\ UNCHANGED winsock

Return == pc' = "idle" /\ UNCHANGED <<thrown, winsock>>

-----------------------------------------------------------------------------
(* Construction and destruction.                                           *)

\* tcp_client(), whose init_winsock_() may throw.
StartWinsock == winsock' = IF kind.windows THEN winsock + 1 ELSE winsock

\* tcp_sink(): the client, then connect() at once unless lazy_connect.
TcpStart ==
  /\ pc = "none" /\ ~kind.udp /\ starts < MaxStarts
  /\ starts' = starts + 1
  /\ StartWinsock
  /\ rec' = 0 /\ addr' = 1
  /\ pc' = IF kind.lazy THEN "idle" ELSE "connect"
  /\ UNCHANGED <<kind, sockVars, sent, logged, thrown>>

\* udp_client(): a socket that is ready, or an exception that leaves none.
UdpSocket ==
  /\ conns' = Append(conns, <<>>)
  /\ socket' = Len(conns') /\ open' = open \cup {socket'}
  /\ pc' = "idle"

UdpStart ==
  /\ pc = "none" /\ kind.udp /\ ~kind.windows /\ starts < MaxStarts
  /\ starts' = starts + 1 /\ rec' = 0
  /\ \/ UdpSocket
     \/ UNCHANGED <<sockVars, pc>>
  /\ UNCHANGED <<kind, addr, sent, logged, thrown, winsock>>

UdpStartWindows ==
  /\ pc = "none" /\ kind.udp /\ kind.windows /\ starts < MaxStarts
  /\ starts' = starts + 1 /\ rec' = 0
  /\ \/ StartWinsock /\ UdpSocket
     \/ UNCHANGED <<sockVars, pc, winsock>>
  /\ UNCHANGED <<kind, addr, sent, logged, thrown>>

\* ~tcp_client(), ~udp_client().
Destroy ==
  /\ pc = "idle"
  /\ pc' = "none"
  /\ open' = open \ {socket} /\ socket' = 0
  /\ CleanUp
  /\ UNCHANGED <<kind, addr, conns, callVars, starts>>

-----------------------------------------------------------------------------
(* sink_it_().                                                             *)

SinkIt ==
  /\ pc = "idle" /\ logged < MaxRecs
  /\ logged' = logged + 1 /\ rec' = logged' /\ sent' = 0
  /\ IF socket = 0 THEN pc' = "connect" /\ addr' = 1
                   ELSE pc' = "send" /\ UNCHANGED addr
  /\ UNCHANGED <<kind, sockVars, thrown, winsock, starts>>

\* connect() is done: the constructor returns, or the record is sent.
Connected == IF rec = 0 THEN Return ELSE pc' = "send" /\ UNCHANGED <<thrown, winsock>>

NextAddress ==
  IF addr + 1 \in Addresses
  THEN addr' = addr + 1 /\ UNCHANGED <<pc, thrown, winsock>>
  ELSE Throw /\ UNCHANGED addr

\* getaddrinfo() fails.
ResolveFails ==
  /\ pc = "connect" /\ addr = 1
  /\ Throw
  /\ UNCHANGED <<kind, addr, sockVars, rec, sent, logged, starts>>

\* socket() and connect_socket_with_timeout() succeed for an address.
ConnectSocket ==
  /\ pc = "connect" /\ Len(conns) < MaxConns
  /\ conns' = Append(conns, <<>>)
  /\ socket' = Len(conns') /\ open' = open \cup {socket'}
  /\ Connected
  /\ UNCHANGED <<kind, addr, rec, sent, logged, starts>>

\* Or one of them fails, at once or after the timeout; the socket is closed.
ConnectFails ==
  /\ pc = "connect"
  /\ NextAddress
  /\ UNCHANGED <<kind, sockVars, rec, sent, logged, starts>>

\* send() takes some of the bytes.
Send ==
  /\ pc = "send" /\ ~kind.udp
  /\ \E n \in 1 .. Bytes - sent :
       /\ conns' = [conns EXCEPT ![socket] = @ \o [k \in 1 .. n |-> <<rec, sent + k>>]]
       /\ sent' = sent + n
       /\ IF sent' = Bytes THEN Return ELSE UNCHANGED <<pc, thrown, winsock>>
  /\ UNCHANGED <<kind, addr, socket, open, rec, logged, starts>>

\* Mutant: an error of send() leaves the connection as it is.
SendFailsOpen ==
  /\ pc = "send" /\ ~kind.udp
  /\ Throw
  /\ UNCHANGED <<kind, addr, sockVars, rec, sent, logged, starts>>

\* An error, or the timeout of send(): the connection is closed.
SendFails ==
  /\ pc = "send" /\ ~kind.udp
  /\ open' = open \ {socket} /\ socket' = 0
  /\ Throw
  /\ UNCHANGED <<kind, addr, conns, rec, sent, logged, starts>>

\* sendto(): all or nothing; the socket stays.
SendTo ==
  /\ pc = "send" /\ kind.udp
  /\ conns' = [conns EXCEPT ![socket] = @ \o [k \in 1 .. Bytes |-> <<rec, k>>]]
  /\ Return
  /\ UNCHANGED <<kind, addr, socket, open, rec, sent, logged, starts>>

SendToFails ==
  /\ pc = "send" /\ kind.udp
  /\ Throw
  /\ UNCHANGED <<kind, addr, sockVars, rec, sent, logged, starts>>

Next ==
  \/ TcpStart \/ UdpStart \/ UdpStartWindows \/ Destroy
  \/ SinkIt \/ ResolveFails \/ ConnectSocket \/ ConnectFails
  \/ Send \/ SendFails \/ SendTo \/ SendToFails

Spec == Init /\ [][Next]_vars

-----------------------------------------------------------------------------
(* Properties.                                                             *)

TypeOK ==
  /\ kind \in Kinds /\ pc \in {"none", "idle", "connect", "send"} /\ addr \in Addresses
  /\ socket \in 0 .. Len(conns) /\ open \subseteq 1 .. Len(conns)
  /\ conns \in Seq(Seq((1 .. logged) \X (1 .. Bytes)))
  /\ rec \in 0 .. logged /\ sent \in 0 .. Bytes /\ logged \in 0 .. MaxRecs
  /\ thrown \subseteq 1 .. logged /\ winsock \in {0, 1} /\ starts \in 0 .. MaxStarts

Follows(x, y) == \/ y = <<x[1], x[2] + 1>>
                 \/ x[2] = Bytes /\ y[1] > x[1] /\ y[2] = 1

\* A connection carries whole records, in order, each from its first byte; only
\* the last one may be cut, and later connections carry later records: nothing
\* is sent after half a record, whatever failed (tcp_client.h:171-197).
WholeRecords ==
  /\ \A k \in DOMAIN conns :
       /\ conns[k] # <<>> => conns[k][1][2] = 1
       /\ \A n \in 1 .. Len(conns[k]) - 1 : Follows(conns[k][n], conns[k][n + 1])
  /\ \A j, k \in DOMAIN conns : j < k =>
       \A m \in DOMAIN conns[j], n \in DOMAIN conns[k] : conns[j][m][1] < conns[k][n][1]

\* A call that returned has given all of its record to one connection
\* (tcp_sink.h:66-73).
ReturnedWhole ==
  \A r \in 1 .. logged :
    \/ r \in thrown
    \/ r = rec /\ pc \in {"connect", "send"}
    \/ \E k \in DOMAIN conns : \A b \in 1 .. Bytes :
         \E n \in DOMAIN conns[k] : conns[k][n] = <<r, b>>

\* The client has one socket at most and forgets none that is open, over all
\* the addresses it tries and all errors (tcp_client.h:126-150).
OneSocket ==
  /\ open = {socket} \ {0}
  /\ pc = "none" => socket = 0

\* WSAStartup and WSACleanup come in pairs, exceptions included
\* (tcp_client-windows.h:26-48, udp_client-windows.h:31-84).
WinsockPaired == winsock = IF kind.windows /\ pc # "none" THEN 1 ELSE 0

\* The four of them: what a peer can count on, and the process that logs.
NetRecordsWhole == TypeOK /\ WholeRecords /\ ReturnedWhole /\ OneSocket /\ WinsockPaired

=============================================================================
