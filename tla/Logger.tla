------------------------------ MODULE Logger ------------------------------
(***************************************************************************)
(* The Logger that every thread uses (logger.h, logger.cpp) with the time   *)
(* stamp of its lines (Timestamp.cpp).  Nothing is locked: a LOG macro puts  *)
(* its level into the one logLevel_, log() reads it back, and toString       *)
(* formats the one static tm of localtime.  Texts are left out.  A call is   *)
(* named by its number; a tm some of whose fields another call has written   *)
(* counts as that call's.                                                   *)
(***************************************************************************)
EXTENDS Naturals

CONSTANTS
  Threads,
  MaxCalls     \* bound: LOG calls in all

LogLevel == {"INFO", "ERROR", "FATAL", "DEBUG"}

VARIABLES
  logLevel_,   \* "unset" before the first call: the constructor leaves it so
  tm,          \* the call whose time is in localtime's static buffer, or 0
  calls,       \* how many calls have begun
  at,          \* at[t]: "idle" or the step thread t does next
  line,        \* line[t]: its line in the making
  lines,       \* history: the lines written
  exited       \* exit(-1) was called

vars == <<logLevel_, tm, calls, at, line, lines, exited>>

\* call and level are those of the macro, tag and stamp what is printed; others are the
\* calls of other threads that overlapped this one, with their levels.
NewLine(call, level, others) ==
  [call |-> call, level |-> level, tag |-> "unset", stamp |-> 0, others |-> others]

Named(l) == <<l.call, l.level>>

Init ==
  /\ logLevel_ = "unset"
  /\ tm = 0
  /\ calls = 0
  /\ at = [t \in Threads |-> "idle"]
  /\ line = [t \in Threads |-> NewLine(0, "INFO", {})]
  /\ lines = {}
  /\ exited = FALSE

Busy == {t \in Threads : at[t] # "idle"}

\* The argument of setLogLevel in the macro of a level: LOG_FATAL has INFO.
Shown(level) == IF level = "FATAL" THEN "INFO" ELSE level

\* Mutant of SetLogLevel: an INFO line relies on the level being INFO already.
SetLogLevelNotInfo(level) ==
  logLevel_' = IF level = "INFO" /\ logLevel_ # "unset" THEN logLevel_ ELSE Shown(level)

SetLogLevel(level) == logLevel_' = Shown(level)

\* LOG_INFO, LOG_ERROR, LOG_FATAL, and LOG_DEBUG when MUDEBUG is defined.
Log(t, level) ==
  /\ ~exited
  /\ at[t] = "idle"
  /\ calls < MaxCalls
  /\ calls' = calls + 1
  /\ SetLogLevel(level)
  /\ at' = [at EXCEPT ![t] = "tag"]
  /\ line' = [u \in Threads |->
                IF u = t THEN NewLine(calls + 1, level, {Named(line[o]) : o \in Busy})
                ELSE IF u \in Busy
                     THEN [line[u] EXCEPT !.others = @ \cup {<<calls + 1, level>>}]
                     ELSE line[u]]
  /\ UNCHANGED <<tm, lines, exited>>

Step(t, from, to) ==
  /\ ~exited
  /\ at[t] = from
  /\ at' = [at EXCEPT ![t] = to]
  /\ UNCHANGED <<logLevel_, calls>>

\* log(): the switch
Tag(t) ==
  /\ Step(t, "tag", "localtime")
  /\ line' = [line EXCEPT ![t].tag = logLevel_]
  /\ UNCHANGED <<tm, lines, exited>>

\* now() and localtime()
LocalTime(t) ==
  /\ Step(t, "localtime", "stamp")
  /\ tm' = line[t].call
  /\ UNCHANGED <<line, lines, exited>>

\* snprintf of the tm
Stamp(t) ==
  /\ Step(t, "stamp", "write")
  /\ line' = [line EXCEPT ![t].stamp = tm]
  /\ UNCHANGED <<tm, lines, exited>>

\* The text goes out, and after LOG_FATAL the process ends.
Write(t) ==
  /\ Step(t, "write", "idle")
  /\ lines' = lines \cup {line[t]}
  /\ exited' = (line[t].level = "FATAL")
  /\ UNCHANGED <<tm, line>>

Next ==
  \E t \in Threads :
    \/ \E level \in LogLevel : Log(t, level)
    \/ Tag(t) \/ LocalTime(t) \/ Stamp(t) \/ Write(t)

Spec == Init /\ [][Next]_vars

--------------------------------------------------------------------------

\* A line shows the level of a macro, and the time of a call, that are its own or those of
\* a call that overlapped it: nothing is left over from a call that had ended, and the
\* lines of a thread that logs alone are right.
ShownIsOfAnOverlap ==
  \A l \in lines :
    LET near == l.others \cup {Named(l)}
    IN  /\ \E o \in near : l.tag = Shown(o[2])
        /\ \E o \in near : l.stamp = o[1]

===========================================================================
