-------------------------------- MODULE Tcp --------------------------------
(***************************************************************************)
(* The operating system's TCP, as the programs of dong_dong use it: one    *)
(* listening socket, and at most one connection per client.  It is an      *)
(* external component: every operator says what one system call of the     *)
(* sources (socket API of POSIX and Winsock) does to the two ends of a     *)
(* connection, over all the outcomes TCP allows.                           *)
(*                                                                         *)
(* A byte is identified by its sender and its place in the sender's        *)
(* message, so that a byte which reaches the wrong client, twice or out of *)
(* order can be told apart.  The server's output is kept whole in out, the *)
(* client's read position is rd.  TCP is a byte stream: a recv returns any *)
(* non-empty part of what was written and not yet read, which stands both  *)
(* for segmentation and for bytes that are still under way.                *)
(***************************************************************************)
EXTENDS Naturals, Sequences

CONSTANTS
  Clients,   \* the client programs (or threads of step03/clients.cpp)
  MsgLen,    \* length of the one message a client sends
  Backlog    \* second argument of listen: length of the accept queue

ASSUME TcpAssumption ==
  /\ MsgLen \in Nat \ {0}
  /\ Backlog \in Nat

VARIABLES
  listening, \* the server's listening socket accepts SYNs
  backlog,   \* connections established by the kernel, not yet accepted
  cli,       \* the client's end of each connection
  srv,       \* the server's end of each connection
  sent,      \* number of bytes the client has written
  rcvd,      \* number of those the server has read
  out,       \* all bytes the server has written to the connection
  rd,        \* number of those the client has read
  rst        \* a RST segment is on its way to the server's end

netVars == <<listening, backlog, cli, srv, sent, rcvd, out, rd, rst>>

Byte == Clients \X (1 .. MsgLen)

\* "fin": closed in order; "abort": closed with unread data, so with a RST.
CliStates == {"none", "open", "fin", "abort"}

\* "reset": a RST came in, its error is not yet reported; "dead": both
\* directions are shut down and a write raises SIGPIPE where there is one.
SrvStates == {"none", "queued", "open", "reset", "dead", "closed"}

NetTypeOK ==
  /\ listening \in BOOLEAN
  /\ backlog \in Seq(Clients)
  /\ cli \in [Clients -> CliStates]
  /\ srv \in [Clients -> SrvStates]
  /\ sent \in [Clients -> 0 .. MsgLen]
  /\ rcvd \in [Clients -> 0 .. MsgLen]
  /\ out \in [Clients -> Seq(Byte)]
  /\ rd \in [Clients -> Nat]
  /\ rst \in [Clients -> BOOLEAN]

NetInit ==
  /\ listening = FALSE
  /\ backlog = <<>>
  /\ cli = [c \in Clients |-> "none"]
  /\ srv = [c \in Clients |-> "none"]
  /\ sent = [c \in Clients |-> 0]
  /\ rcvd = [c \in Clients |-> 0]
  /\ out = [c \in Clients |-> <<>>]
  /\ rd = [c \in Clients |-> 0]
  /\ rst = [c \in Clients |-> FALSE]

\* The n bytes of client c's message that follow the first k.
Chunk(c, k, n) == [i \in 1 .. n |-> <<c, k + i>>]

\* What client c has received so far.
Got(c) == SubSeq(out[c], 1, rd[c])

-----------------------------------------------------------------------------
(* The server's calls.                                                     *)

NetListen ==
  /\ listening' = TRUE
  /\ UNCHANGED <<backlog, cli, srv, sent, rcvd, out, rd, rst>>

\* accept returns the oldest connection of the queue.
NetAccept(c) ==
  /\ backlog # <<>>
  /\ c = Head(backlog)
  /\ backlog' = Tail(backlog)
  /\ srv' = [srv EXCEPT ![c] = "open"]
  /\ UNCHANGED <<listening, cli, sent, rcvd, out, rd, rst>>

\* recv returns n > 0.  Data that came in before a RST can still be read.
NetRecv(c, n) ==
  /\ srv[c] \in {"open", "reset", "dead"}
  /\ n \in 1 .. (sent[c] - rcvd[c])
  /\ rcvd' = [rcvd EXCEPT ![c] = @ + n]
  /\ UNCHANGED <<listening, backlog, cli, srv, sent, out, rd, rst>>

\* recv returns 0: all was read, and the peer closed or nothing can follow.
NetRecvEof(c) ==
  /\ \/ srv[c] = "open" /\ cli[c] = "fin"
     \/ srv[c] = "dead"
  /\ rcvd[c] = sent[c]
  /\ UNCHANGED netVars

\* recv returns -1: the error of a RST is reported, once.
NetRecvError(c) ==
  /\ srv[c] \in {"reset", "dead"}
  /\ srv' = [srv EXCEPT ![c] = "dead"]
  /\ UNCHANGED <<listening, backlog, cli, sent, rcvd, out, rd, rst>>

\* send takes all the bytes (the messages are shorter than the socket
\* buffers, so a blocking send never waits).  A peer that has closed answers
\* with a RST.
NetSend(c, bytes) ==
  /\ srv[c] = "open"
  /\ out' = [out EXCEPT ![c] = @ \o bytes]
  /\ rst' = [rst EXCEPT ![c] = @ \/ cli[c] # "open"]
  /\ UNCHANGED <<listening, backlog, cli, srv, sent, rcvd, rd>>

\* send returns -1 with the error of the RST.
NetSendError(c) ==
  /\ srv[c] = "reset"
  /\ srv' = [srv EXCEPT ![c] = "dead"]
  /\ UNCHANGED <<listening, backlog, cli, sent, rcvd, out, rd, rst>>

NetCloseServerEnd(c) ==
  /\ srv' = [srv EXCEPT ![c] = "closed"]
  /\ rst' = [rst EXCEPT ![c] = FALSE]
  /\ UNCHANGED <<listening, backlog, cli, sent, rcvd, out, rd>>

\* close of the listening socket: what waits in its queue is reset.
NetCloseListener ==
  /\ listening' = FALSE
  /\ backlog' = <<>>
  /\ srv' = [c \in Clients |-> IF srv[c] = "queued" THEN "closed" ELSE srv[c]]
  /\ UNCHANGED <<cli, sent, rcvd, out, rd, rst>>

\* The server process is gone: the kernel closes every socket it had.
NetServerGone ==
  /\ listening' = FALSE
  /\ backlog' = <<>>
  /\ srv' = [c \in Clients |-> IF srv[c] = "none" THEN "none" ELSE "closed"]
  /\ rst' = [c \in Clients |-> FALSE]
  /\ UNCHANGED <<cli, sent, rcvd, out, rd>>

-----------------------------------------------------------------------------
(* The clients' calls.                                                     *)

\* connect succeeds as soon as the kernel queues the connection; a queue
\* of listen(fd, Backlog) holds Backlog + 1 connections.
NetConnect(c) ==
  /\ listening
  /\ Len(backlog) <= Backlog
  /\ cli' = [cli EXCEPT ![c] = "open"]
  /\ srv' = [srv EXCEPT ![c] = "queued"]
  /\ backlog' = Append(backlog, c)
  /\ UNCHANGED <<listening, sent, rcvd, out, rd, rst>>

\* connect fails: nobody listens, or the queue stays full (refused or timed
\* out).
NetConnectError ==
  /\ ~listening \/ Len(backlog) > Backlog
  /\ UNCHANGED netVars

\* A send by the client; the bytes are lost when the server's end is closed.
NetClientSend(c) ==
  /\ sent' = [sent EXCEPT ![c] = IF srv[c] = "closed" THEN @ ELSE MsgLen]
  /\ UNCHANGED <<listening, backlog, cli, srv, rcvd, out, rd, rst>>

\* The client's recv returns n > 0.
NetClientRecv(c, n) ==
  /\ n \in 1 .. (Len(out[c]) - rd[c])
  /\ rd' = [rd EXCEPT ![c] = @ + n]
  /\ UNCHANGED <<listening, backlog, cli, srv, sent, rcvd, out, rst>>

\* The client's recv returns 0 or -1: the server's end is closed, and either
\* everything was read or a RST discarded the rest.
NetClientRecvEnd(c) ==
  /\ srv[c] = "closed"
  /\ rd[c] = Len(out[c]) \/ rcvd[c] < sent[c]
  /\ UNCHANGED netVars

\* close by the client.  Bytes it has not read make its kernel answer with a
\* RST: at once if they have arrived ("abort"), else after the FIN.
NetClientClose(c) ==
  /\ \E end \in {"fin", "abort"} :
       /\ end = "abort" => rd[c] < Len(out[c])
       /\ cli' = [cli EXCEPT ![c] = end]
  /\ rst' = [rst EXCEPT ![c] = rd[c] < Len(out[c]) /\ srv[c] = "open"]
  /\ UNCHANGED <<listening, backlog, srv, sent, rcvd, out, rd>>

-----------------------------------------------------------------------------
(* The network.  A RST that follows the peer's FIN leaves EPIPE on the     *)
(* socket, any other ECONNRESET.                                           *)

NetRstArrives(c) ==
  /\ rst[c]
  /\ srv[c] = "open"
  /\ srv' = [srv EXCEPT ![c] = IF cli[c] = "fin" THEN "dead" ELSE "reset"]
  /\ rst' = [rst EXCEPT ![c] = FALSE]
  /\ UNCHANGED <<listening, backlog, cli, sent, rcvd, out, rd>>

=============================================================================
