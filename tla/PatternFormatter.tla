-------------------------- MODULE PatternFormatter --------------------------
(***************************************************************************)
(* What spdlog's pattern_formatter (pattern_formatter-inl.h) remembers     *)
(* from one message to the next: the broken-down time of a second, the     *)
(* text of a second for "%+", the offset from UTC, and the time of the     *)
(* last message.  A formatter belongs to one sink and runs under its       *)
(* mutex; messages of several threads come in any order of their times.    *)
(* Time is in ticks, several to a second.                                  *)
(***************************************************************************)
EXTENDS Integers

CONSTANTS
  Patterns,     \* sets of flags: "date", "zone", "full", "elapsed", "custom"
  Start,        \* the first time the clock shows
  MaxTime,      \* bound: the last
  PerSecond,    \* ticks to a second
  Refresh,      \* ticks an offset from UTC is used for: 10 s
  Offset,       \* the offset from UTC at each time
  MaxMsgs       \* bound: messages

FormatterAssumption ==
  /\ Start \in Nat \ {0} /\ MaxTime \in Nat /\ PerSecond \in Nat \ {0}
  /\ Start >= PerSecond /\ Start >= Refresh

Times == Start .. MaxTime
TimeFlags == {"date", "zone", "full"}

VARIABLES
  flags,           \* formatters_
  needLocaltime,   \* need_localtime_
  cachedTm,        \* cached_tm_: the second it is of; 0, none
  lastLogSecs,     \* last_log_secs_
  cachedDatetime,  \* of full_formatter: the second its text is of, and
  cacheTimestamp,  \*   the second it takes it to be
  lastUpdate,      \* of z_formatter
  offsetMinutes,
  lastMessage,     \* of elapsed_formatter: last_message_time_
  msg,             \* the time of the last message
  shown,           \* what each flag showed of it
  msgs             \* messages so far

formatterVars == <<cachedDatetime, cacheTimestamp, lastUpdate, offsetMinutes, lastMessage>>
vars == <<flags, needLocaltime, cachedTm, lastLogSecs, formatterVars, msg, shown, msgs>>

Second(t) == t \div PerSecond

\* compile_pattern_() makes the formatters anew, at some time of the clock.
Compile(fs, needed) ==
  /\ flags' = fs
  /\ needLocaltime' = needed
  /\ cachedDatetime' = 0 /\ cacheTimestamp' = 0
  /\ lastUpdate' = 0 /\ offsetMinutes' = 0
  /\ lastMessage' \in IF "elapsed" \in fs THEN Times ELSE {Start}

Init ==
  /\ flags = {} /\ needLocaltime = FALSE
  /\ cachedTm = 0 /\ lastLogSecs = 0
  /\ cachedDatetime = 0 /\ cacheTimestamp = 0 /\ lastUpdate = 0 /\ offsetMinutes = 0
  /\ lastMessage = Start
  /\ msg = Start /\ shown = [f \in {} |-> 0] /\ msgs = 0

\* set_pattern().  Flags of the user's own do not ask for the local time.
SetPattern(fs) ==
  /\ Compile(fs, fs \cap TimeFlags # {})
  /\ shown' = [f \in {} |-> 0]
  /\ UNCHANGED <<cachedTm, lastLogSecs, msg, msgs>>

\* need_localtime(), for a flag of the user's own.  Called with false while the
\* pattern has flags that show the time, it leaves them what they had cached.
NeedLocaltime ==
  /\ needLocaltime' = TRUE
  /\ shown' = [f \in {} |-> 0]
  /\ UNCHANGED <<flags, cachedTm, lastLogSecs, formatterVars, msg, msgs>>

\* clone(), which starts with nothing cached but needs what the original needs.
Clone ==
  /\ Compile(flags, needLocaltime)
  /\ cachedTm' = 0 /\ lastLogSecs' = 0
  /\ shown' = [f \in {} |-> 0]
  /\ UNCHANGED <<msg, msgs>>

\* The broken-down time the formatters get.
CacheTime(t) ==
  IF needLocaltime /\ Second(t) # lastLogSecs
  THEN cachedTm' = Second(t) /\ lastLogSecs' = Second(t)
  ELSE UNCHANGED <<cachedTm, lastLogSecs>>

\* Mutant: the text of "%+" is made once.
FormatFullOnce(t) ==
  IF "full" \in flags /\ cachedDatetime = 0
  THEN cachedDatetime' = cachedTm' /\ cacheTimestamp' = Second(t)
  ELSE UNCHANGED <<cachedDatetime, cacheTimestamp>>

\* full_formatter: the date and time up to the second.
FormatFull(t) ==
  IF "full" \in flags /\ (cacheTimestamp # Second(t) \/ cachedDatetime = 0)
  THEN cachedDatetime' = cachedTm' /\ cacheTimestamp' = Second(t)
  ELSE UNCHANGED <<cachedDatetime, cacheTimestamp>>

\* z_formatter: get_cached_offset().
FormatZone(t) ==
  IF "zone" \in flags /\ t - lastUpdate >= Refresh
  THEN offsetMinutes' = Offset[cachedTm' * PerSecond] /\ lastUpdate' = t
  ELSE UNCHANGED <<offsetMinutes, lastUpdate>>

\* elapsed_formatter: no less than zero.
FormatElapsed(t) ==
  IF "elapsed" \in flags THEN lastMessage' = t ELSE UNCHANGED lastMessage

Since(t) == IF t > lastMessage THEN t - lastMessage ELSE 0

\* format().
Format(t) ==
  /\ msgs < MaxMsgs
  /\ CacheTime(t) /\ FormatFull(t) /\ FormatZone(t) /\ FormatElapsed(t)
  /\ shown' = [f \in flags |-> CASE f = "full" -> cachedDatetime'
                                 [] f = "zone" -> offsetMinutes'
                                 [] f = "elapsed" -> Since(t)
                                 [] OTHER -> cachedTm']
  /\ msg' = t
  /\ msgs' = msgs + 1
  /\ UNCHANGED <<flags, needLocaltime>>

Next ==
  \/ \E fs \in Patterns : SetPattern(fs)
  \/ NeedLocaltime
  \/ Clone
  \/ \E t \in Times : Format(t)

Spec == Init /\ [][Next]_vars

-----------------------------------------------------------------------------
(* Properties.                                                             *)

\* Whatever is cached, and whatever the order of the messages' times and the
\* patterns set between them, a line shows the second of its own message; a
\* flag of the user's own does, if need_localtime() was called after
\* set_pattern() (pattern_formatter-inl.h:986-1005, 843-861).
SecondShown ==
  \A f \in DOMAIN shown \cap {"date", "full", "custom"} :
    needLocaltime => shown[f] = Second(msg)

\* The offset from UTC is at most 10 seconds older than the message
\* (pattern_formatter-inl.h:562-569).
OffsetRecent ==
  needLocaltime /\ "zone" \in DOMAIN shown =>
    \E t \in Times : msg - t < Refresh + PerSecond /\ shown["zone"] = Offset[t]

=============================================================================
