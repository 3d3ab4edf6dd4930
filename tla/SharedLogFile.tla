--------------------------- MODULE SharedLogFile ----------------------------
(***************************************************************************)
(* The log file of the day when several processes log in one directory, as *)
(* server and clients do (Logging.cpp:58): each has opened it to append    *)
(* (file_helper-inl.h, os-inl.h), with a buffer of its own and no lock     *)
(* between them.                                                           *)
(*                                                                         *)
(* A line is some pieces, a piece a process and the number it has among    *)
(* all of the process.  stdio writes a buffer out when it is full and at   *)
(* the end; no flush level is set.  On POSIX that appends to the file      *)
(* whatever its length, on Windows the C library looks for the end of the  *)
(* file first and writes then, over what has come there in between.        *)
(***************************************************************************)
EXTENDS Naturals, Sequences

CONSTANTS
  Processes,
  Pieces,    \* the pieces of a line
  Capacity,  \* the pieces stdio's buffer holds
  MaxLines   \* bound: lines of each process

SharedFileAssumption == {Pieces, Capacity, MaxLines} \subseteq Nat \ {0}

VARIABLES
  windows,
  pc,      \* "open", "log", "write" or "closed"
  lines,   \* lines the process has logged
  rest,    \* what of the line is not yet in the buffer
  buffer,
  end,     \* where the C library has found the end of the file
  file,
  drained  \* pieces the process has written out

vars == <<windows, pc, lines, rest, buffer, end, file, drained>>

Init ==
  /\ windows \in BOOLEAN
  /\ pc = [p \in Processes |-> "open"] /\ lines = [p \in Processes |-> 0]
  /\ rest = [p \in Processes |-> <<>>] /\ buffer = [p \in Processes |-> <<>>]
  /\ end = [p \in Processes |-> 0] /\ drained = [p \in Processes |-> 0]
  /\ file = <<>>

\* file_helper::open(): mode "ab", nothing is truncated.
Open(p) ==
  /\ pc[p] = "open"
  /\ pc' = [pc EXCEPT ![p] = "log"]
  /\ UNCHANGED <<windows, lines, rest, buffer, end, file, drained>>

\* file_helper::write() of the next line.
Write(p) ==
  /\ pc[p] = "log" /\ rest[p] = <<>> /\ lines[p] < MaxLines
  /\ lines' = [lines EXCEPT ![p] = @ + 1]
  /\ rest' = [rest EXCEPT ![p] = [k \in 1 .. Pieces |-> <<p, lines[p] * Pieces + k>>]]
  /\ UNCHANGED <<windows, pc, buffer, end, file, drained>>

\* fwrite(): one piece more, when there is room.
Fill(p) ==
  /\ pc[p] = "log" /\ rest[p] # <<>> /\ Len(buffer[p]) < Capacity
  /\ buffer' = [buffer EXCEPT ![p] = Append(@, Head(rest[p]))]
  /\ rest' = [rest EXCEPT ![p] = Tail(@)]
  /\ UNCHANGED <<windows, pc, lines, end, file, drained>>

LastWritten(p) == lines[p] = MaxLines /\ rest[p] = <<>>

\* The buffer is full, or the file is closed: it is written out.
WriteOut(p) ==
  /\ pc[p] = "log" /\ buffer[p] # <<>>
  /\ Len(buffer[p]) = Capacity \/ LastWritten(p)
  /\ pc' = [pc EXCEPT ![p] = "write"]
  /\ end' = [end EXCEPT ![p] = Len(file)]
  /\ UNCHANGED <<windows, lines, rest, buffer, file, drained>>

PutAt(at, s) ==
  [k \in DOMAIN file \cup (at + 1 .. at + Len(s)) |->
     IF k \in at + 1 .. at + Len(s) THEN s[k - at] ELSE file[k]]

\* The write: at the end there is now (O_APPEND), or at the one that was found.
Drain(p) ==
  /\ pc[p] = "write"
  /\ file' = PutAt(IF windows THEN end[p] ELSE Len(file), buffer[p])
  /\ drained' = [drained EXCEPT ![p] = @ + Len(buffer[p])]
  /\ buffer' = [buffer EXCEPT ![p] = <<>>]
  /\ pc' = [pc EXCEPT ![p] = "log"]
  /\ UNCHANGED <<windows, lines, rest, end>>

\* file_helper::close(), at the process's exit.
Close(p) ==
  /\ pc[p] = "log" /\ LastWritten(p) /\ buffer[p] = <<>>
  /\ pc' = [pc EXCEPT ![p] = "closed"]
  /\ UNCHANGED <<windows, lines, rest, buffer, end, file, drained>>

\* A signal ends the process: what is in its buffer is lost.
Kill(p) ==
  /\ pc[p] \in {"log", "write"}
  /\ pc' = [pc EXCEPT ![p] = "closed"]
  /\ buffer' = [buffer EXCEPT ![p] = <<>>] /\ rest' = [rest EXCEPT ![p] = <<>>]
  /\ UNCHANGED <<windows, lines, end, file, drained>>

Next == \E p \in Processes :
  \/ Open(p) \/ Write(p) \/ Fill(p) \/ WriteOut(p) \/ Drain(p) \/ Close(p) \/ Kill(p)

Spec == Init /\ [][Next]_vars

-----------------------------------------------------------------------------
(* Properties.                                                             *)

\* On POSIX no process writes over another: what each has written out is in the
\* file, all of it, once and in order, also of one that was killed
\* (Logging.cpp:58, file_helper-inl.h:26-62).
NothingOverwritten ==
  ~windows =>
    /\ \A p \in Processes : \A n \in 1 .. drained[p] : \E k \in DOMAIN file : file[k] = <<p, n>>
    /\ \A k \in DOMAIN file : file[k][2] \in 1 .. drained[file[k][1]]
    /\ \A j, k \in DOMAIN file : j < k /\ file[j][1] = file[k][1] => file[j][2] < file[k][2]

\* A line is cut by another process only where a full buffer has ended
\* (Logging.cpp:58, file_helper-inl.h:98-106).
CutAtBufferEnds ==
  ~windows => \A k \in 1 .. Len(file) - 1 :
    LET n == file[k][2]
    IN  file[k + 1][1] # file[k][1] => n % Capacity = 0 \/ n = MaxLines * Pieces

=============================================================================
