------------------------------ MODULE LogLine -------------------------------
(***************************************************************************)
(* env_logWrite (log.c), which threads call at the same time: a line is    *)
(* put together in a buffer of the thread, its time comes from gmtime(),   *)
(* which returns the same struct tm to all threads, and its length is what *)
(* vsnprintf() would have printed had there been room.  A struct tm is its *)
(* day and its time of day, which strftime() reads one after the other.    *)
(***************************************************************************)
EXTENDS Integers

CONSTANTS Thread,
          Size,      \* of the buffer
          Room,      \* what vsnprintf() is told of it
          Stamp,     \* the length of "[dd/Mon/yyyy:HH:MM:SS]"
          Tag,       \* the lengths of "[INFO]" and of "[ERROR]", "[FATAL]"
          Text,      \* lengths of what is to be logged
          PerDay,    \* moments of a day
          MaxTime    \* bound: the last moment at which the clock is read

VARIABLES log_enabled,
          clock,     \* the time
          tm,        \* the struct of gmtime()
          at,        \* where each thread is
          now,       \* what it has read from the clock
          stamp,     \* the day and the time of day in its buffer
          i,         \* what it has counted in its buffer
          put,       \* history: what it has really put there
          others     \* history: another thread called gmtime() before it was done

vars == <<log_enabled, clock, tm, at, now, stamp, i, put, others>>

Day(m) == m \div PerDay
TimeOfDay(m) == m % PerDay

NoStamp == [day |-> 0, time |-> 0]

Init ==
  /\ log_enabled \in BOOLEAN
  /\ clock = 0 /\ tm = 0
  /\ at = [t \in Thread |-> "idle"]
  /\ now = [t \in Thread |-> 0]
  /\ stamp = [t \in Thread |-> NoStamp]
  /\ i = [t \in Thread |-> 0] /\ put = [t \in Thread |-> 0]
  /\ others = [t \in Thread |-> FALSE]

\* Thread t goes on; after a write beyond a buffer nothing is known.
Go(t, here, there) ==
  /\ \A u \in Thread : at[u] # "overrun"
  /\ at[t] = here
  /\ at' = [at EXCEPT ![t] = there]

Tick ==
  /\ clock < MaxTime
  /\ clock' = clock + 1
  /\ UNCHANGED <<log_enabled, tm, at, now, stamp, i, put, others>>

ReadClock(t) ==
  /\ Go(t, "idle", "timed")
  /\ log_enabled
  /\ now' = [now EXCEPT ![t] = clock]
  /\ UNCHANGED <<log_enabled, clock, tm, stamp, i, put, others>>

\* gmtime() writes the struct all threads read.
Convert(t) ==
  /\ Go(t, "timed", "converted")
  /\ tm' = now[t]
  /\ others' = [u \in Thread |->
                  u # t /\ (others[u] \/ at[u] \in {"converted", "dated"})]
  /\ UNCHANGED <<log_enabled, clock, now, stamp, i, put>>

\* Mutant of PrintDay: prints the day of the clock.
PrintDayOfClock(t) ==
  /\ Go(t, "converted", "dated")
  /\ stamp' = [stamp EXCEPT ![t].day = Day(clock)]
  /\ UNCHANGED <<log_enabled, clock, tm, now, i, put, others>>

PrintDay(t) ==
  /\ Go(t, "converted", "dated")
  /\ stamp' = [stamp EXCEPT ![t].day = Day(tm)]
  /\ UNCHANGED <<log_enabled, clock, tm, now, i, put, others>>

PrintTime(t) ==
  /\ Go(t, "dated", "stamped")
  /\ stamp' = [stamp EXCEPT ![t].time = TimeOfDay(tm)]
  /\ i' = [i EXCEPT ![t] = Stamp]
  /\ put' = [put EXCEPT ![t] = Stamp]
  /\ UNCHANGED <<log_enabled, clock, tm, now, others>>

\* Mutant of Printed: vsnprintf() is told the size of the buffer.
PrintedToSize(n) == IF n < Size THEN n ELSE Size - 1

\* What vsnprintf() puts into its room, beside the end of the string.
Printed(n) == IF n < Room THEN n ELSE Room - 1

\* sprintf() and vsnprintf() of a line of n bytes.
PrintText(t) ==
  /\ Go(t, "stamped", "printed")
  /\ \E g \in Tag, n \in Text :
       /\ i' = [i EXCEPT ![t] = @ + g + n]
       /\ put' = [put EXCEPT ![t] = @ + g + Printed(n)]
  /\ UNCHANGED <<log_enabled, clock, tm, now, stamp, others>>

\* Mutant of EndLine: counts the end of the string, too.
EndLineCounting(t) ==
  /\ Go(t, "printed", "ended")
  /\ i[t] < Size
  /\ put' = [put EXCEPT ![t] = @ + 1]
  /\ i' = [i EXCEPT ![t] = @ + 2]
  /\ UNCHANGED <<log_enabled, clock, tm, now, stamp, others>>

\* The line feed after what was counted.
EndLine(t) ==
  /\ Go(t, "printed", "ended")
  /\ i[t] < Size
  /\ put' = [put EXCEPT ![t] = @ + 1]
  /\ i' = [i EXCEPT ![t] = @ + 1]
  /\ UNCHANGED <<log_enabled, clock, tm, now, stamp, others>>

\* It would be beyond the buffer.
Overrun(t) ==
  /\ Go(t, "printed", "overrun")
  /\ i[t] >= Size
  /\ UNCHANGED <<log_enabled, clock, tm, now, stamp, i, put, others>>

\* One write() of what was counted; the buffer is gone with the call.
Write(t) ==
  /\ Go(t, "ended", "idle")
  /\ now' = [now EXCEPT ![t] = 0]
  /\ stamp' = [stamp EXCEPT ![t] = NoStamp]
  /\ i' = [i EXCEPT ![t] = 0] /\ put' = [put EXCEPT ![t] = 0]
  /\ others' = [others EXCEPT ![t] = FALSE]
  /\ UNCHANGED <<log_enabled, clock, tm>>

Next ==
  \/ Tick
  \/ \E t \in Thread :
       \/ ReadClock(t) \/ Convert(t) \/ PrintDay(t) \/ PrintTime(t)
       \/ PrintText(t) \/ EndLine(t) \/ Overrun(t) \/ Write(t)

Spec == Init /\ [][Next]_vars
-----------------------------------------------------------------------------
Moment == 0 .. MaxTime

Stamps == [day : {Day(m) : m \in Moment}, time : {TimeOfDay(m) : m \in Moment}]

Longest == CHOOSE n \in Text : \A k \in Text : k <= n

TypeOK ==
  /\ log_enabled \in BOOLEAN
  /\ clock \in Moment /\ tm \in Moment
  /\ at \in [Thread -> {"idle", "timed", "converted", "dated", "stamped",
                        "printed", "ended", "overrun"}]
  /\ now \in [Thread -> Moment]
  /\ stamp \in [Thread -> Stamps]
  /\ i \in [Thread -> 0 .. Size + Longest]
  /\ put \in [Thread -> 0 .. Size]
  /\ others \in [Thread -> BOOLEAN]

\* A line longer than vsnprintf() has room for is padded with what lay on the
\* stack, to the length it would have had: shorter lines are written as they are.
StaleOnlyLong ==
  \A t \in Thread :
    at[t] = "ended" /\ i[t] # put[t] =>
      \E g \in Tag, n \in Text : n >= Room /\ i[t] = Stamp + g + n + 1

\* The line feed falls outside the buffer only after a text that was cut: no text
\* vsnprintf() has room for can push it there.
OverrunOnlyCut == \A t \in Thread : at[t] = "overrun" => put[t] < i[t]

\* The time in a line about to be written is that its thread has read, unless
\* another thread called gmtime() meanwhile: then it may be one that nobody has
\* read, or that is still to come.
StampOfOwnTime ==
  \A t \in Thread :
    at[t] = "ended" /\ ~others[t] =>
      stamp[t] = [day |-> Day(now[t]), time |-> TimeOfDay(now[t])]
=============================================================================
