---------------------------- MODULE ThreadedEcho ---------------------------
(***************************************************************************)
(* Target 03: the echo server with one detached thread per connection      *)
(* (step03/server.cpp), its clients (EchoClients) and the kernel (Tcp).    *)
(*                                                                         *)
(* The server names its connections by descriptors: small integers, the    *)
(* lowest free one first, used again as soon as they are closed.  A thread *)
(* only has the integer it was started with, so fdTable is what decides    *)
(* whose bytes it reads and who gets its answer.                           *)
(*                                                                         *)
(* A thread is identified by the client whose connection it was started    *)
(* for.                                                                    *)
(***************************************************************************)
EXTENDS EchoClients, Integers, FiniteSets

CONSTANTS
  Fds,         \* the descriptors the process may have open at a time
  MaxThreads,  \* the threads it may have at a time beside main
  RecvMax,     \* sizeof(buf) - 1 in echoLoop
  SigPipe,     \* TRUE on POSIX: a send on a dead socket raises SIGPIPE
  Free, Listener \* table entries that are not connections

ASSUME ServerAssumption ==
  /\ Fds \subseteq Nat
  /\ MaxThreads \in Nat
  /\ RecvMax \in Nat \ {0}
  /\ SigPipe \in BOOLEAN
  /\ Free \notin Clients
  /\ Listener \notin Clients
  /\ Free # Listener

VARIABLES
  mpc,      \* where main is; "exited" and "dead" end the process
  listenFd, \* main's descriptor of the listening socket, or NoFd
  connFd,   \* main's local: the descriptor accept has returned
  fdTable,  \* what each descriptor of the process stands for
  tpc,      \* where each thread is in echoLoop
  tfd,      \* its parameter connFd
  buf       \* the bytes of its buffer that the last recv filled

serverVars == <<mpc, listenFd, connFd, fdTable, tpc, tfd, buf>>

vars == <<netVars, clientVars, serverVars>>

\* invalidSocket() of Platform.h.
NoFd == -1

MainPcs == {"socket", "bind", "listen", "accept", "acceptFailed", "spawn",
            "exited", "dead"}

ThreadPcs == {"none", "recv", "send", "close", "done"}

Running == mpc \notin {"exited", "dead"}

\* The threads that run echoLoop.
Live == {t \in Clients : tpc[t] \in {"recv", "send", "close"}}

\* Every variable has its type, and no recv overruns the buffer
\* (server.cpp:25-27).
TypeOK ==
  /\ NetTypeOK
  /\ ClientsTypeOK
  /\ mpc \in MainPcs
  /\ listenFd \in Fds \cup {NoFd}
  /\ connFd \in Fds \cup {NoFd}
  /\ fdTable \in [Fds -> Clients \cup {Free, Listener}]
  /\ tpc \in [Clients -> ThreadPcs]
  /\ tfd \in [Clients -> Fds \cup {NoFd}]
  /\ buf \in [Clients -> Seq(Byte)]
  /\ \A t \in Clients : Len(buf[t]) <= RecvMax

Init ==
  /\ NetInit
  /\ ClientsInit
  /\ mpc = "socket"
  /\ listenFd = NoFd
  /\ connFd = NoFd
  /\ fdTable = [f \in Fds |-> Free]
  /\ tpc = [t \in Clients |-> "none"]
  /\ tfd = [t \in Clients |-> NoFd]
  /\ buf = [t \in Clients |-> <<>>]

-----------------------------------------------------------------------------
(* Descriptors.                                                            *)

IsLowestFree(f) ==
  /\ f \in Fds
  /\ fdTable[f] = Free
  /\ \A g \in Fds : fdTable[g] = Free => f <= g

NoFreeFd == \A f \in Fds : fdTable[f] # Free

\* closeSocket(fd).  On a descriptor that is not open it changes nothing.
CloseSocket(f) ==
  /\ fdTable' = [fdTable EXCEPT ![f] = Free]
  /\ IF fdTable[f] \in Clients
     THEN NetCloseServerEnd(fdTable[f])
     ELSE UNCHANGED netVars

\* The process ends, by return from main ("exited") or by a signal or
\* std::terminate ("dead"): its threads are gone and the kernel closes all.
ProcessEnds(how) ==
  /\ mpc' = how
  /\ fdTable' = [f \in Fds |-> Free]
  /\ tpc' = [t \in Clients |-> IF tpc[t] = "none" THEN "none" ELSE "done"]
  /\ NetServerGone
  /\ UNCHANGED <<listenFd, connFd, tfd, buf>>

-----------------------------------------------------------------------------
(* main                                                                    *)

\* socket(): a descriptor, or an error and "return -1".
MainSocket ==
  /\ mpc = "socket"
  /\ UNCHANGED clientVars
  /\ \/ \E f \in Fds :
          /\ IsLowestFree(f)
          /\ listenFd' = f
          /\ fdTable' = [fdTable EXCEPT ![f] = Listener]
          /\ mpc' = "bind"
          /\ UNCHANGED <<netVars, connFd, tpc, tfd, buf>>
     \/ ProcessEnds("exited")

MainBind ==
  /\ mpc = "bind"
  /\ UNCHANGED clientVars
  /\ \/ /\ mpc' = "listen"
        /\ UNCHANGED <<netVars, listenFd, connFd, fdTable, tpc, tfd, buf>>
     \/ ProcessEnds("exited")

MainListen ==
  /\ mpc = "listen"
  /\ UNCHANGED clientVars
  /\ \/ /\ mpc' = "accept"
        /\ NetListen
        /\ UNCHANGED <<listenFd, connFd, fdTable, tpc, tfd, buf>>
     \/ ProcessEnds("exited")

\* The mutants of the runs: operators that no action uses, each one a bug the
\* code could plausibly have.

\* main joins each thread before the next accept, instead of detaching it.
MainAcceptAfterJoin ==
  /\ Live = {}
  /\ mpc = "accept"
  /\ \E c \in Clients, f \in Fds :
       /\ IsLowestFree(f)
       /\ NetAccept(c)
       /\ fdTable' = [fdTable EXCEPT ![f] = c]
       /\ connFd' = f
  /\ mpc' = "spawn"
  /\ UNCHANGED <<clientVars, listenFd, tpc, tfd, buf>>

\* main closes its copy of connFd, as if the thread had one of its own.
SpawnThreadAndClose(t) ==
  /\ mpc = "spawn"
  /\ fdTable[connFd] = t
  /\ Cardinality(Live) < MaxThreads
  /\ mpc' = "accept"
  /\ tpc' = [tpc EXCEPT ![t] = "recv"]
  /\ tfd' = [tfd EXCEPT ![t] = connFd]
  /\ CloseSocket(connFd)
  /\ UNCHANGED <<clientVars, listenFd, connFd, buf>>

\* accept() gives the oldest waiting connection the lowest free descriptor.
MainAccept ==
  /\ mpc = "accept"
  /\ \E c \in Clients, f \in Fds :
       /\ IsLowestFree(f)
       /\ NetAccept(c)
       /\ fdTable' = [fdTable EXCEPT ![f] = c]
       /\ connFd' = f
  /\ mpc' = "spawn"
  /\ UNCHANGED <<clientVars, listenFd, tpc, tfd, buf>>

\* accept() fails for want of a descriptor (EMFILE), waiting or not.
MainAcceptFails ==
  /\ mpc = "accept"
  /\ NoFreeFd
  /\ mpc' = "acceptFailed"
  /\ UNCHANGED <<netVars, clientVars, listenFd, connFd, fdTable, tpc, tfd, buf>>

\* The failure is logged, "continue".
MainRetry ==
  /\ mpc = "acceptFailed"
  /\ mpc' = "accept"
  /\ UNCHANGED <<netVars, clientVars, listenFd, connFd, fdTable, tpc, tfd, buf>>

\* std::thread t(echoLoop, connFd); t.detach(); main forgets the descriptor.
SpawnThread(t) ==
  /\ mpc = "spawn"
  /\ fdTable[connFd] = t
  /\ Cardinality(Live) < MaxThreads
  /\ mpc' = "accept"
  /\ tpc' = [tpc EXCEPT ![t] = "recv"]
  /\ tfd' = [tfd EXCEPT ![t] = connFd]
  /\ UNCHANGED <<netVars, clientVars, listenFd, connFd, fdTable, buf>>

\* The constructor of std::thread throws std::system_error, which nothing
\* catches: std::terminate.
SpawnThreadThrows ==
  /\ mpc = "spawn"
  /\ Cardinality(Live) >= MaxThreads
  /\ ProcessEnds("dead")
  /\ UNCHANGED clientVars

Main ==
  \/ MainSocket \/ MainBind \/ MainListen
  \/ MainAccept \/ MainAcceptFails \/ MainRetry
  \/ SpawnThreadThrows
  \/ \E t \in Clients : SpawnThread(t)

-----------------------------------------------------------------------------
(* echoLoop, run by thread t.                                              *)

ThreadGoto(t, from, to) ==
  /\ tpc[t] = from
  /\ tpc' = [tpc EXCEPT ![t] = to]
  /\ UNCHANGED <<clientVars, mpc, listenFd, connFd, tfd>>

\* What the thread's descriptor stands for now.
Peer(t) == fdTable[tfd[t]]

\* Mutant: the new bytes are put behind those already sent.
ThreadRecvAppends(t) ==
  /\ ThreadGoto(t, "recv", "send")
  /\ Peer(t) \in Clients
  /\ \E n \in 1 .. RecvMax :
       /\ NetRecv(Peer(t), n)
       /\ buf' = [buf EXCEPT ![t] = @ \o Chunk(Peer(t), rcvd[Peer(t)], n)]
  /\ UNCHANGED fdTable

\* Mutant: "static char buf[1024]", one buffer for all threads.
ThreadRecvShared(t) ==
  /\ ThreadGoto(t, "recv", "send")
  /\ Peer(t) \in Clients
  /\ \E n \in 1 .. RecvMax :
       /\ NetRecv(Peer(t), n)
       /\ buf' = [u \in Clients |-> Chunk(Peer(t), rcvd[Peer(t)], n)]
  /\ UNCHANGED fdTable

\* Mutant: the error path returns without the closeSocket at the end.
ThreadRecvErrorReturns(t) ==
  /\ ThreadGoto(t, "recv", "done")
  /\ IF Peer(t) \in Clients THEN NetRecvError(Peer(t)) ELSE UNCHANGED netVars
  /\ UNCHANGED <<fdTable, buf>>

\* Mutant: send(connFd, buf, n - 1, 0), the last byte is lost.
ThreadSendShort(t) ==
  /\ ThreadGoto(t, "send", "recv")
  /\ Peer(t) \in Clients
  /\ NetSend(Peer(t), SubSeq(buf[t], 1, Len(buf[t]) - 1))
  /\ UNCHANGED <<fdTable, buf>>

\* Mutant: a send that succeeded is sent again.
ThreadSendTwice(t) ==
  /\ ThreadGoto(t, "send", "recv")
  /\ Peer(t) \in Clients
  /\ NetSend(Peer(t), buf[t] \o buf[t])
  /\ UNCHANGED <<fdTable, buf>>

\* Mutant: the thread ends without closing its descriptor.
ThreadCloseMissing(t) ==
  /\ ThreadGoto(t, "close", "done")
  /\ UNCHANGED <<netVars, fdTable, buf>>

\* n > 0: the bytes are in buf.
ThreadRecv(t) ==
  /\ ThreadGoto(t, "recv", "send")
  /\ Peer(t) \in Clients
  /\ \E n \in 1 .. RecvMax :
       /\ NetRecv(Peer(t), n)
       /\ buf' = [buf EXCEPT ![t] = Chunk(Peer(t), rcvd[Peer(t)], n)]
  /\ UNCHANGED fdTable

\* n == 0: the peer has closed, break.
ThreadRecvEof(t) ==
  /\ ThreadGoto(t, "recv", "close")
  /\ Peer(t) \in Clients
  /\ NetRecvEof(Peer(t))
  /\ UNCHANGED <<fdTable, buf>>

\* n < 0: a RST, or not a connection; logged, break.
ThreadRecvError(t) ==
  /\ ThreadGoto(t, "recv", "close")
  /\ IF Peer(t) \in Clients THEN NetRecvError(Peer(t)) ELSE UNCHANGED netVars
  /\ UNCHANGED <<fdTable, buf>>

\* send(connFd, buf, n, 0), result not looked at, back to recv.
ThreadSend(t) ==
  /\ ThreadGoto(t, "send", "recv")
  /\ Peer(t) \in Clients
  /\ NetSend(Peer(t), buf[t])
  /\ UNCHANGED <<fdTable, buf>>

ThreadSendError(t) ==
  /\ ThreadGoto(t, "send", "recv")
  /\ \/ Peer(t) \in Clients /\ NetSendError(Peer(t))
     \/ /\ Peer(t) \in Clients => srv[Peer(t)] = "dead" /\ ~SigPipe
        /\ UNCHANGED netVars
  /\ UNCHANGED <<fdTable, buf>>

\* send on a dead connection where SIGPIPE exists: nothing in the sources
\* handles, blocks or suppresses it, so it ends the whole process.
ThreadSigPipe(t) ==
  /\ tpc[t] = "send"
  /\ SigPipe
  /\ Peer(t) \in Clients
  /\ srv[Peer(t)] = "dead"
  /\ ProcessEnds("dead")
  /\ UNCHANGED clientVars

\* closeSocket(connFd), the last thing a thread does.
ThreadClose(t) ==
  /\ ThreadGoto(t, "close", "done")
  /\ CloseSocket(tfd[t])
  /\ UNCHANGED buf

Thread(t) ==
  \/ ThreadRecv(t) \/ ThreadRecvEof(t) \/ ThreadRecvError(t)
  \/ ThreadSend(t) \/ ThreadSendError(t) \/ ThreadSigPipe(t)
  \/ ThreadClose(t)

-----------------------------------------------------------------------------

Network(c) == NetRstArrives(c) /\ UNCHANGED <<clientVars, serverVars>>

Next ==
  \/ Main
  \/ \E t \in Clients : Thread(t)
  \/ ClientsNext /\ UNCHANGED serverVars
  \/ \E c \in Clients : Network(c)

Spec == Init /\ [][Next]_vars

\* Threads that can run do run: each is scheduled by the operating system
\* on its own.  Silent clients owe nothing, and a RST gets there in the end.
Fairness ==
  /\ WF_vars(Main)
  /\ WF_vars(ClientMain /\ UNCHANGED serverVars)
  /\ \A c \in Clients :
       /\ WF_vars(Thread(c))
       /\ WF_vars(ClientThread(c) /\ UNCHANGED serverVars)
       /\ WF_vars(Network(c))

FairSpec == Spec /\ Fairness

-----------------------------------------------------------------------------
(* Safety.                                                                 *)

\* A thread's descriptor always stands for the connection the thread was
\* started for, although descriptors are used again: the descriptor stays
\* open until the thread itself closes it (server.cpp:23-40, 84-86).
FdOwnership == \A t \in Live : Peer(t) = t

\* No descriptor is lost: an open connection belongs to a running thread, or
\* main is about to hand it to one.  This holds on every way out of echoLoop
\* (server.cpp:28-39).
NoFdLeak ==
  \A f \in Fds : fdTable[f] \in Clients =>
    \/ fdTable[f] \in Live /\ tfd[fdTable[f]] = f
    \/ mpc = "spawn" /\ connFd = f

\* Whatever the server writes to a connection are the bytes of that very
\* client, in order, none twice (server.cpp:27-37, "原样回显").
OwnBytes(c) == \A i \in 1 .. Len(out[c]) : out[c][i] = <<c, i>>

EchoIntegrity == \A c \in Clients : OwnBytes(c)

\* The bytes a thread has received and not yet sent.
Pending(t) == IF tpc[t] = "send" THEN Len(buf[t]) ELSE 0

\* Nothing is swallowed either: as long as the connection stands, all that
\* was received has been sent back, but for the bytes in the thread's buffer.
EchoComplete ==
  \A t \in Live : srv[t] = "open" => Len(out[t]) + Pending(t) = rcvd[t]

-----------------------------------------------------------------------------
(* What makes the above inductive.                                         *)

\* The clients whose connection the server has not accepted yet.
Unaccepted == {c \in Clients : srv[c] \in {"none", "queued"}}

\* A connection is, in this order: not made; queued, once; held by main as
\* connFd; held by its one thread; closed.  At every stage one descriptor at
\* most stands for it (server.cpp:74-87 and 23-40).
HandOver ==
  /\ \A t \in Live : tfd[t] \in Fds /\ Peer(t) = t
  /\ \A f, g \in Fds :
       fdTable[f] \in Clients /\ fdTable[f] = fdTable[g] => f = g
  /\ \A f \in Fds :
       fdTable[f] \in Clients => srv[fdTable[f]] \in {"open", "reset", "dead"}
  /\ mpc = "spawn" =>
       /\ connFd \in Fds
       /\ fdTable[connFd] \in Clients
       /\ tpc[fdTable[connFd]] = "none"
  /\ \A i \in 1 .. Len(backlog) : srv[backlog[i]] = "queued"
  /\ \A i, j \in 1 .. Len(backlog) : backlog[i] = backlog[j] => i = j
  /\ \A c \in Unaccepted : tpc[c] = "none"
  /\ \A c \in Clients :
       cpc[c] \in {"new", "socket", "connect"} => srv[c] = "none"

\* Received and sent bytes are in step: what a thread has in hand are the last
\* bytes received, and it sends nothing else; a client reads what was sent
\* (server.cpp:26-38, clients.cpp:41-51).
InStepOf(c) ==
  /\ tpc[c] = "none" => rcvd[c] = 0 /\ out[c] = <<>>
  /\ tpc[c] = "send" =>
       \A i \in 1 .. Len(buf[c]) : buf[c][i] = <<c, (rcvd[c] - Len(buf[c])) + i>>
  /\ Len(out[c]) + Pending(c) <= rcvd[c]
  /\ c \in Live /\ srv[c] = "open" => Len(out[c]) + Pending(c) = rcvd[c]
  /\ rcvd[c] <= sent[c]
  /\ rd[c] <= Len(out[c])
  /\ cpc[c] \in {"new", "socket", "connect", "send"} => sent[c] = 0

InStep == \A c \in Clients : InStepOf(c)

-----------------------------------------------------------------------------
(* The promise to the clients: threads, descriptors and segmentation do    *)
(* not show.                                                               *)

Echo == INSTANCE EchoService WITH
  said <- {c \in Clients : sent[c] > 0},
  heard <- [c \in Clients |-> Got(c)]

-----------------------------------------------------------------------------
(* Liveness.                                                               *)

\* A client that has sent its message to a server that runs hears an echo
\* (or the server is gone), whatever the silent clients do: the point of
\* target 03 ("能同时服务多个客户端", server.cpp:5).
EveryClientAnswered ==
  \A c \in Active :
    (cli[c] = "open" /\ sent[c] > 0) ~> (rd[c] > 0 \/ ~Running)

\* The descriptor of a client that has left is given back in the end.
FdsComeBack ==
  \A c \in Clients :
    (cli[c] \in {"fin", "abort"}) ~> (srv[c] = "closed")

\* No client that leaves while its answer is under way, or in any other way,
\* ends the service for the others: "从而能同时服务多个客户端"
\* (server.cpp:5).  False where SIGPIPE exists.
ServerSurvives == mpc # "dead"

\* The join loop of the client program ends (clients.cpp:72-75).
ClientsFinish == <>(cmain = "done")

=============================================================================
