---------------------------- MODULE ConsoleSinks ----------------------------
(***************************************************************************)
(* The sinks that write to the console: ansicolor_sink                     *)
(* (ansicolor_sink-inl.h), wincolor_sink (wincolor_sink-inl.h) and the     *)
(* plain stdout_sink_base (stdout_sinks-inl.h).  They are many objects,    *)
(* two streams and one terminal, and one mutex for all of them             *)
(* (console_globals.h).                                                    *)
(*                                                                         *)
(* A line is written in pieces, with a change of the colour before and     *)
(* after one of them.  On POSIX the pieces go to the buffer of the stream, *)
(* from where stdio may pass them on at any time; on Windows each is a     *)
(* call of the console.                                                    *)
(***************************************************************************)
EXTENDS Naturals, Sequences

CONSTANTS
  Threads, NoThread,
  Stream,    \* the stream of each sink: a function on the sinks
  Coloured,  \* the sinks that are ansicolor or wincolor sinks
  MaxLines   \* bound: lines that are logged

Sinks == DOMAIN Stream
Streams == {Stream[s] : s \in Sinks}

ConsoleAssumption ==
  NoThread \notin Threads /\ Coloured \subseteq Sinks /\ MaxLines \in Nat

VARIABLES
  windows,
  mutex,     \* who holds console_mutex
  job,       \* the line each thread logs: number and sink
  todo,      \* what it has still to write
  buffer,    \* what is in the buffer of each stream
  screen,    \* the text on the terminal, as pieces in their colour
  colour,    \* the colour the terminal is in
  saved,     \* the attributes a wincolor sink has read, to restore them
  doColours, \* should_do_colors_ of each sink
  lines      \* lines so far

vars == <<windows, mutex, job, todo, buffer, screen, colour, saved, doColours, lines>>

Init ==
  /\ windows \in BOOLEAN
  /\ mutex = NoThread
  /\ job = [t \in Threads |-> [n |-> 0, sink |-> CHOOSE s \in Sinks : TRUE]]
  /\ todo = [t \in Threads |-> <<>>]
  /\ buffer = [f \in Streams |-> <<>>]
  /\ screen = <<>> /\ colour = "plain" /\ saved = "plain"
  /\ doColours \in [Sinks -> BOOLEAN] /\ \A s \in Sinks \ Coloured : ~doColours[s]
  /\ lines = 0

\* A piece of text, or a change of the colour, for the line with number n.
Text(n, part) == [n |-> n, part |-> part]
Change(n, c) == [n |-> n, part |-> c]
IsText(x) == x.part \in {"before", "within", "after"}

\* What log() writes; the pattern may name no range to be coloured.
Pieces(n, s, range) ==
  IF doColours[s] /\ range
  THEN <<Text(n, "before"), Change(n, "level"), Text(n, "within"),
         Change(n, "reset"), Text(n, "after")>>
  ELSE <<Text(n, "before")>>

\* log() has locked the mutex.
Log(t, s, range) ==
  /\ todo[t] = <<>> /\ mutex = NoThread
  /\ lines < MaxLines
  /\ mutex' = t
  /\ lines' = lines + 1
  /\ job' = [job EXCEPT ![t] = [n |-> lines', sink |-> s]]
  /\ todo' = [todo EXCEPT ![t] = Pieces(lines', s, range)]
  /\ UNCHANGED <<windows, buffer, screen, colour, saved, doColours>>

\* The terminal gets the next piece.  What it is reset to is the default
\* colour on POSIX, and on Windows what it was in before.
ToTerminal(x) ==
  IF IsText(x)
  THEN screen' = Append(screen, [n |-> x.n, part |-> x.part, colour |-> colour])
       /\ UNCHANGED <<colour, saved>>
  ELSE /\ saved' = IF x.part = "level" THEN colour ELSE saved
       /\ colour' = CASE x.part = "level" -> "level"
                      [] x.part = "reset" -> IF windows THEN saved ELSE "plain"
       /\ UNCHANGED screen

\* print_range_() and print_ccode_(): fwrite() to the stream's buffer.
PrintRange(t) ==
  /\ ~windows /\ todo[t] # <<>>
  /\ buffer' = [buffer EXCEPT ![Stream[job[t].sink]] = Append(@, Head(todo[t]))]
  /\ todo' = [todo EXCEPT ![t] = Tail(@)]
  /\ UNCHANGED <<windows, mutex, job, screen, colour, saved, doColours, lines>>

\* On Windows: WriteConsole(), WriteFile() and SetConsoleTextAttribute().
PrintConsole(t) ==
  /\ windows /\ todo[t] # <<>>
  /\ ToTerminal(Head(todo[t]))
  /\ todo' = [todo EXCEPT ![t] = Tail(@)]
  /\ UNCHANGED <<windows, mutex, job, buffer, doColours, lines>>

\* stdio writes out what it has, when it likes or in fflush().
Spill(f) ==
  /\ buffer[f] # <<>>
  /\ ToTerminal(Head(buffer[f]))
  /\ buffer' = [buffer EXCEPT ![f] = Tail(@)]
  /\ UNCHANGED <<windows, mutex, job, todo, doColours, lines>>

\* Mutant: the line is left to stdio's buffer.
FlushNot(t) ==
  /\ mutex = t /\ todo[t] = <<>>
  /\ mutex' = NoThread
  /\ UNCHANGED <<windows, job, todo, buffer, screen, colour, saved, doColours, lines>>

\* fflush() of the sink's stream is done, and the mutex unlocked.
Flush(t) ==
  /\ mutex = t /\ todo[t] = <<>>
  /\ buffer[Stream[job[t].sink]] = <<>>
  /\ mutex' = NoThread
  /\ UNCHANGED <<windows, job, todo, buffer, screen, colour, saved, doColours, lines>>

SetColourMode(s) ==
  /\ s \in Coloured /\ mutex = NoThread
  /\ doColours' = [doColours EXCEPT ![s] = ~@]
  /\ UNCHANGED <<windows, mutex, job, todo, buffer, screen, colour, saved, lines>>

Next ==
  \/ \E t \in Threads : \/ \E s \in Sinks, range \in BOOLEAN : Log(t, s, range)
                        \/ PrintRange(t) \/ PrintConsole(t) \/ Flush(t)
  \/ \E f \in Streams : Spill(f)
  \/ \E s \in Sinks : SetColourMode(s)

Spec == Init /\ [][Next]_vars

-----------------------------------------------------------------------------
(* Properties.                                                             *)

\* The pieces of a line come one after the other on the terminal, and lines in
\* the order they locked the mutex, through two streams with buffers of their
\* own (ansicolor_sink-inl.h:46-72, stdout_sinks-inl.h:52-80).
LinesWhole == \A k \in 1 .. Len(screen) - 1 : screen[k].n <= screen[k + 1].n

\* Only the range the pattern names is in the colour of the level, and between
\* the lines the terminal is as it was (ansicolor_sink-inl.h:54-67,
\* wincolor_sink-inl.h:60-79).
OnlyRangeColoured ==
  /\ \A k \in DOMAIN screen : screen[k].part = "within" <=> screen[k].colour = "level"
  /\ mutex = NoThread => colour = "plain"

=============================================================================
