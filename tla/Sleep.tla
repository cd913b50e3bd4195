------------------------------- MODULE Sleep --------------------------------
(***************************************************************************)
(* env_sleep (misc.c), the pause of the connect loop: sleep() and usleep() *)
(* are called again with what they return until they return 0.  sleep()    *)
(* returns the whole seconds a signal left unslept; usleep() returns -1,   *)
(* which as an unsigned int is the longest sleep there is.  Time is        *)
(* counted in ticks, which stand for the microseconds of the code.         *)
(***************************************************************************)
EXTENDS Integers

CONSTANTS PerSecond,   \* ticks of a second
          PerMs,       \* ticks of a millisecond
          UintMax,     \* the largest unsigned int
          Seconds,     \* what it may be called with
          MSeconds,
          MaxSignals   \* bound: signals up to which the time is counted

VARIABLES phase,     \* which of the two loops it is in
          seconds,   \* the arguments
          mseconds,
          left,      \* _seconds or _useconds
          slept,     \* history: ticks that have passed
          signals,   \* history: how often it was interrupted, and from
                     \* MaxSignals + 1 on only whether it was once more
          late       \* history: how often of these in usleep()

vars == <<phase, seconds, mseconds, left, slept, signals, late>>

Init ==
  /\ seconds \in Seconds /\ mseconds \in MSeconds
  /\ phase = "seconds"
  /\ left = seconds
  /\ slept = 0
  /\ signals = 0 /\ late = 0

\* mseconds * 1000 in an unsigned int.
USeconds(ms) == (ms * PerMs) % (UintMax + 1)

\* Time passes; it is counted up to the bound.
Passes(ticks) == slept' = IF signals' <= MaxSignals THEN slept + ticks ELSE slept

\* sleep() returns 0 after its whole time, and the second loop begins.
SecondsSlept ==
  /\ phase = "seconds"
  /\ UNCHANGED <<seconds, mseconds, signals, late>>
  /\ Passes(left * PerSecond)
  /\ phase' = "useconds"
  /\ left' = USeconds(mseconds)

\* A signal, of which there may be any number.
Interrupted ==
  signals' = IF signals <= MaxSignals + 1 THEN signals + 1 ELSE MaxSignals + 1

InterruptedLate ==
  /\ Interrupted
  /\ late' = IF signals' <= MaxSignals THEN late + 1 ELSE late

\* Mutant of SecondsInterrupted: begins anew with all seconds.
SecondsInterruptedAnew ==
  /\ phase = "seconds"
  /\ Interrupted
  /\ \E d \in 0 .. left * PerSecond - 1 : Passes(d)
  /\ UNCHANGED <<phase, seconds, mseconds, left, late>>

\* A signal after d ticks: the whole seconds that were left are slept next.
SecondsInterrupted ==
  /\ phase = "seconds"
  /\ Interrupted
  /\ \E d \in 0 .. left * PerSecond - 1 :
       LET unslept == (left * PerSecond - d) \div PerSecond IN
       /\ Passes(d)
       /\ \/ unslept > 0 /\ left' = unslept /\ UNCHANGED phase
          \/ unslept = 0 /\ left' = USeconds(mseconds) /\ phase' = "useconds"
  /\ UNCHANGED <<seconds, mseconds, late>>

\* Mutant of USecondsSlept: while what usleep() returns is at least 0.
USecondsSleptAgain ==
  /\ phase = "useconds"
  /\ UNCHANGED <<phase, seconds, mseconds, signals, late>>
  /\ Passes(left)
  /\ left' = 0

\* usleep() returns 0.
USecondsSlept ==
  /\ phase = "useconds"
  /\ UNCHANGED <<seconds, mseconds, signals, late>>
  /\ Passes(left)
  /\ left' = 0
  /\ phase' = "done"

\* Mutant of USecondsInterrupted: takes -1 for the end.
USecondsInterruptedDone ==
  /\ phase = "useconds"
  /\ InterruptedLate
  /\ \E d \in 0 .. left - 1 : Passes(d)
  /\ left' = 0
  /\ phase' = "done"
  /\ UNCHANGED <<seconds, mseconds>>

\* A signal after d ticks: usleep() returns -1, and is called with that.
USecondsInterrupted ==
  /\ phase = "useconds"
  /\ InterruptedLate
  /\ \E d \in 0 .. left - 1 : Passes(d)
  /\ left' = UintMax
  /\ UNCHANGED <<phase, seconds, mseconds>>

Next == \/ SecondsSlept \/ SecondsInterrupted
        \/ USecondsSlept \/ USecondsInterrupted

Spec == Init /\ [][Next]_vars

-----------------------------------------------------------------------------
TypeOK ==
  /\ phase \in {"seconds", "useconds", "done"}
  /\ seconds \in Seconds /\ mseconds \in MSeconds
  /\ left \in 0 .. UintMax
  /\ slept \in Nat
  /\ signals \in 0 .. MaxSignals + 2
  /\ late \in 0 .. signals /\ late <= MaxSignals

Asked == seconds * PerSecond + mseconds * PerMs

\* A pause is not cut short by more than a part of a second for each signal,
\* unless its milliseconds do not fit an unsigned int as microseconds.
NotShort ==
  phase = "done" /\ signals <= MaxSignals /\ mseconds * PerMs <= UintMax =>
    slept + signals * (PerSecond - 1) >= Asked

\* It lasts as long as asked, and longer only by an unsigned int for each signal
\* in usleep(): an interrupted pause of half a second may last over an hour.
NotLong == signals <= MaxSignals => slept <= Asked + late * UintMax
=============================================================================
