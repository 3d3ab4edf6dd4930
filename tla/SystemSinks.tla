----------------------------- MODULE SystemSinks ----------------------------
(***************************************************************************)
(* The sinks of spdlog that give a record to a service of the system or to *)
(* a library: the Android log, systemd's journal (by sd_journal_send() and *)
(* by a stream of lines), syslog, the Windows event log, Loki, MongoDB,    *)
(* Kafka and Qt widgets.  A behaviour has one sink; its calls are under    *)
(* the sink's mutex, one after the other.  What throws comes out of log()  *)
(* and is dealt with by the logger (Logger).                               *)
(***************************************************************************)
EXTENDS Integers, Sequences, FiniteSets, SequencesExt

CONSTANTS
  Kinds,       \* the sinks tried
  Records,     \* what is logged: for each record the lines of its text, and
               \* whether the last one ends with a newline, as it does in Qt
  Retries,     \* SPDLOG_ANDROID_RETRIES
  MaxLines,    \* max_lines of qt_color_sink
  QueueMax     \* Kafka: messages the producer holds

SystemSinksAssumption ==
  /\ Retries \in Nat /\ MaxLines \in Nat \ {0} /\ QueueMax \in Nat \ {0}
  /\ Records \in Seq([lines : Nat \ {0}, newline : BOOLEAN])

VARIABLES
  kind,
  life,      \* "new", "ready", "failed" (the constructor threw), "gone"
  fds,       \* descriptors the sink has open: 0 or 1
  handle,    \* hEventLog_: "none", "open", "denied"
  rec,       \* records logged so far; the last one is in hand unless pc is "idle"
  pc,        \* "idle", "send", "prefix", "text", "newline"
  tries,     \* attempts for this record
  line,      \* the line of the record that is written
  stored,    \* what the service has: <<record, line>>, line 0 for a whole record
  torn,      \* journal stream: writes failed half way, so a line may be cut
  queue,     \* Kafka's producer, Qt's events: records on their way
  blocks,    \* qt_color_sink: the lines of the document
  returned,  \* records whose call returned
  thrown     \* records whose call threw

lifeVars == <<kind, life, fds, handle>>
callVars == <<rec, pc, tries, line>>
storeVars == <<stored, torn, queue, blocks>>
vars == <<lifeVars, callVars, storeVars, returned, thrown>>

Init ==
  /\ kind \in Kinds
  /\ life = "new" /\ fds = 0 /\ handle = "none"
  /\ rec = 0 /\ pc = "idle" /\ tries = 0 /\ line = 1
  /\ stored = <<>> /\ torn = FALSE /\ queue = <<>> /\ blocks = <<>>
  /\ returned = {} /\ thrown = {}

-----------------------------------------------------------------------------
(* Construction and destruction.                                           *)

\* sd_journal_stream_fd(), fdopen() and setvbuf() for the journal's stream;
\* configuration, producer and topic for Kafka; the client for MongoDB.  The
\* event log's handle is opened when it is first needed.
Construct ==
  /\ life = "new"
  /\ life' = "ready"
  /\ fds' = IF kind = "namespace" THEN 1 ELSE 0
  /\ UNCHANGED <<kind, handle, callVars, storeVars, returned, thrown>>

\* The descriptor is closed before the constructor throws.
ConstructFails ==
  /\ life = "new"
  /\ kind \in {"namespace", "kafka", "mongo", "qt", "qtcolor"}
  /\ life' = "failed"
  /\ UNCHANGED <<kind, fds, handle, callVars, storeVars, returned, thrown>>

\* What Kafka's producer has not sent within the time limit of its flush() is
\* lost; what Qt's queue has is invoked all the same.
Destroy ==
  /\ life = "ready" /\ pc = "idle"
  /\ life' = "gone"
  /\ fds' = 0 /\ handle' = "none"
  /\ queue' = IF kind = "kafka" THEN <<>> ELSE queue
  /\ UNCHANGED <<kind, callVars, stored, torn, blocks, returned, thrown>>

-----------------------------------------------------------------------------
(* log(): sink_it_().                                                      *)

Log ==
  /\ life = "ready" /\ pc = "idle" /\ rec < Len(Records)
  /\ rec' = rec + 1
  /\ pc' = IF kind = "namespace" THEN "prefix" ELSE "send"
  /\ tries' = 0 /\ line' = 1
  /\ UNCHANGED <<lifeVars, storeVars, returned, thrown>>

Return ==
  /\ pc' = "idle" /\ returned' = returned \cup {rec}
  /\ UNCHANGED <<rec, line, thrown>>

Throw ==
  /\ pc' = "idle" /\ thrown' = thrown \cup {rec}
  /\ UNCHANGED <<rec, line, returned>>

Store == stored' = Append(stored, <<rec, 0>>)

\* android_sink: EAGAIN is tried again, so many times; records of a priority
\* that is not loggable (EPERM) are dropped, though not on a second attempt.
AndroidLog(ret) ==
  /\ kind = "android" /\ pc = "send"
  /\ tries' = tries + 1
  /\ IF ret = "ok" THEN Store ELSE UNCHANGED stored
  /\ CASE ret = "ok" \/ (ret = "EPERM" /\ tries = 0) -> Return
       [] ret = "EAGAIN" /\ tries < Retries -> UNCHANGED <<rec, pc, line, returned, thrown>>
       [] OTHER -> Throw
  /\ UNCHANGED <<lifeVars, torn, queue, blocks>>

\* systemd_sink: sd_journal_send() gives an error or nothing.
JournalSend ==
  /\ kind = "systemd" /\ pc = "send"
  /\ \/ Store /\ Return
     \/ UNCHANGED stored /\ Throw
  /\ UNCHANGED <<lifeVars, tries, torn, queue, blocks>>

\* syslog_sink: syslog() tells nobody that it failed.
Syslog ==
  /\ kind = "syslog" /\ pc = "send"
  /\ Store \/ UNCHANGED stored
  /\ Return
  /\ UNCHANGED <<lifeVars, tries, torn, queue, blocks>>

\* loki_sink and mongo_sink: without an answer the record may be stored or not.
Request ==
  /\ kind \in {"loki", "mongo"} /\ pc = "send"
  /\ \/ Store /\ Return
     \/ (Store \/ UNCHANGED stored) /\ Throw
  /\ UNCHANGED <<lifeVars, tries, torn, queue, blocks>>

\* win_eventlog_sink: event_log_handle() and ReportEvent().  A handle that
\* stands for "access denied" is thrown for once, and used from then on.
ReportEvent ==
  /\ kind = "eventlog" /\ pc = "send"
  /\ \/ /\ handle = "none"
        /\ handle' \in {"none", "denied"}
        /\ UNCHANGED stored /\ Throw
     \/ /\ handle # "denied"
        /\ handle' = "open"
        /\ Store /\ Return
     \/ /\ handle' = IF handle = "none" THEN "open" ELSE handle
        /\ UNCHANGED stored /\ Throw
  /\ UNCHANGED <<kind, life, fds, tries, torn, queue, blocks>>

\* kafka_sink: produce() fails when the producer is full, which nobody asks.
Produce ==
  /\ kind = "kafka" /\ pc = "send"
  /\ queue' = IF Len(queue) < QueueMax THEN Append(queue, rec) ELSE queue
  /\ Return
  /\ UNCHANGED <<lifeVars, tries, stored, torn, blocks>>

\* The producer's own thread, or flush().
Deliver ==
  /\ kind = "kafka" /\ queue # <<>>
  /\ stored' = Append(stored, <<Head(queue), 0>>)
  /\ queue' = Tail(queue)
  /\ UNCHANGED <<lifeVars, callVars, torn, blocks, returned, thrown>>

-----------------------------------------------------------------------------
(* systemd_namespace_sink: each line of a text by itself, behind the prefix *)
(* of the level.  A write that fails leaves what it has written.            *)

Lines == Records[rec].lines
LastLine == line = Lines

WriteFails ==
  /\ kind = "namespace" /\ pc \in {"prefix", "text", "newline"}
  /\ torn' = TRUE
  /\ Throw
  /\ UNCHANGED <<lifeVars, tries, stored, queue, blocks>>

WritePrefix ==
  /\ kind = "namespace" /\ pc = "prefix"
  /\ pc' = "text"
  /\ UNCHANGED <<lifeVars, rec, tries, line, storeVars, returned, thrown>>

EndLine ==
  /\ stored' = Append(stored, <<rec, line>>)
  /\ IF LastLine THEN Return
     ELSE pc' = "prefix" /\ line' = line + 1 /\ UNCHANGED <<rec, returned, thrown>>

\* Mutant: the newline is left to the text.
WriteTextOnly ==
  /\ kind = "namespace" /\ pc = "text"
  /\ IF LastLine /\ ~Records[rec].newline
     THEN Return /\ UNCHANGED stored
     ELSE EndLine
  /\ UNCHANGED <<lifeVars, tries, torn, queue, blocks>>

WriteText ==
  /\ kind = "namespace" /\ pc = "text"
  /\ IF LastLine /\ ~Records[rec].newline
     THEN pc' = "newline" /\ UNCHANGED <<rec, line, stored, returned, thrown>>
     ELSE EndLine
  /\ UNCHANGED <<lifeVars, tries, torn, queue, blocks>>

WriteNewline ==
  /\ kind = "namespace" /\ pc = "newline"
  /\ EndLine
  /\ UNCHANGED <<lifeVars, tries, torn, queue, blocks>>

-----------------------------------------------------------------------------
(* qt_sink and qt_color_sink: the call is posted to the thread of the      *)
(* widget, or made at once by that thread itself.                          *)

\* invoke_method_(): the oldest lines go first, then the new ones are added.
Shown(n) ==
  LET new == [k \in 1 .. Records[n].lines |-> <<n, k>>]
      room == MaxLines - 1
      kept == IF kind = "qt" \/ Len(blocks) <= room THEN blocks
              ELSE SubSeq(blocks, Len(blocks) - room + 1, Len(blocks))
  IN  kept \o new

Invoke(inGui) ==
  /\ kind \in {"qt", "qtcolor"} /\ pc = "send"
  /\ IF inGui
     THEN blocks' = Shown(rec) /\ UNCHANGED queue
     ELSE queue' = Append(queue, rec) /\ UNCHANGED blocks
  /\ Return
  /\ UNCHANGED <<lifeVars, tries, stored, torn>>

GuiInvokes ==
  /\ kind \in {"qt", "qtcolor"} /\ queue # <<>>
  /\ blocks' = Shown(Head(queue))
  /\ queue' = Tail(queue)
  /\ UNCHANGED <<lifeVars, callVars, stored, torn, returned, thrown>>

-----------------------------------------------------------------------------

Next ==
  \/ Construct \/ ConstructFails \/ Destroy \/ Log
  \/ \E ret \in {"ok", "EPERM", "EAGAIN", "error"} : AndroidLog(ret)
  \/ JournalSend \/ Syslog \/ Request \/ ReportEvent \/ Produce \/ Deliver
  \/ WriteFails \/ WritePrefix \/ WriteText \/ WriteNewline
  \/ \E inGui \in BOOLEAN : Invoke(inGui)
  \/ GuiInvokes

Spec == Init /\ [][Next]_vars

-----------------------------------------------------------------------------
(* Properties.                                                             *)

\* The attempts for one record are limited, and no descriptor is left by a
\* constructor that failed or a sink that is gone (android_sink.h:61-73,
\* systemd_namespace_sink.h:35-75).
Bounded ==
  /\ tries <= Retries + 1
  /\ life \in {"failed", "gone"} => fds = 0

\* A record whose call returned is with the service, once; one whose call threw
\* may be there only if the service did not answer.  Not so for syslog and
\* Kafka, whose errors nobody sees, nor for priorities Android does not log.
NoneLostSilently ==
  /\ kind \in {"systemd", "eventlog", "loki", "mongo"} => \A r \in returned : Contains(stored, <<r, 0>>)
  /\ kind \in {"systemd", "eventlog", "android"} => \A r \in thrown : ~Contains(stored, <<r, 0>>)
  /\ IsInjective(stored)

\* The records whose lines are written, and how many lines each of them has.
Begun == returned \cup (IF pc = "idle" THEN {} ELSE {rec})
Written(r) == IF r \in returned THEN Records[r].lines ELSE line - 1
Before(x, y) == x[1] < y[1] \/ (x[1] = y[1] /\ x[2] < y[2])

\* As long as no write has failed, every line of every record is in the journal,
\* by itself and in order (systemd_namespace_sink.h:88-115).
EachLineOnce ==
  kind = "namespace" /\ ~torn =>
    /\ \A r \in Begun : \A k \in 1 .. Written(r) : Contains(stored, <<r, k>>)
    /\ \A k \in DOMAIN stored :
         stored[k][1] \in Begun /\ stored[k][2] \in 1 .. Written(stored[k][1])
    /\ \A j, k \in DOMAIN stored : j < k => Before(stored[j], stored[k])

\* A document shows no more than max_lines lines before the last text, whose
\* lines are all there; no line is shown twice, and behind a line comes the next
\* one of its text, or another text from its start (qt_sinks.h:190-226).
LastLinesShown ==
  kind = "qtcolor" /\ blocks # <<>> =>
    LET n == Len(blocks)
        last == blocks[n]
        whole(b) == b[2] = Records[b[1]].lines
    IN  /\ n < MaxLines + Records[last[1]].lines
        /\ whole(last) /\ IsInjective(blocks)
        /\ \A k \in 1 .. n - 1 :
             IF whole(blocks[k]) THEN blocks[k + 1][2] = 1
             ELSE blocks[k + 1] = <<blocks[k][1], blocks[k][2] + 1>>

=============================================================================
