------------------------------ MODULE Startup -------------------------------
(***************************************************************************)
(* libfirebase_init (libfirebase.c) and what it sets up for all threads:   *)
(* the descriptor of the log (log.c) and the array of mutexes OpenSSL locks*)
(* through lock_callback (ssl.c).  Nothing keeps the application from      *)
(* calling it twice, from two threads, or while threads are in OpenSSL.    *)
(* An action makes one access to a shared variable whose order others can  *)
(* tell.  With mtx_nr and callback, which do not change once they are set, *)
(* it may read them besides; and what it does with a mutex it does where   *)
(* it reads ssl_mtx, since another array in between is none of its own.    *)
(***************************************************************************)
EXTENDS Integers, Sequences

CONSTANTS Thread,     \* the application's threads
          NumLocks,   \* CRYPTO_num_locks()
          MaxInits    \* bound: calls of libfirebase_init

ASSUME StartupAssumption ==
  /\ NumLocks \in Nat
  /\ MaxInits \in Nat

Lock == 0 .. NumLocks - 1

\* What a mutex is when no thread has locked it.
Free == "free"
Raw == "raw"          \* allocated and not initialised

ASSUME StatesAreNoThreads == Free \notin Thread /\ Raw \notin Thread

\* log_fd: standard output, a file that was opened, or -1.
Stdout == 0
File == 1
NoFd == -1

VARIABLES at,           \* where each thread is
          n,            \* the lock a thread uses, or i of env_ssl_init
          from,         \* the array a waiting thread has computed its mutex from
          mtx_nr,
          ssl_mtx,      \* the array in use, 0 for NULL
          arrays,       \* the mutexes of each array that was allocated
          callback,     \* the locking callback is registered
          log_enabled,
          log_fd,
          inits,        \* calls of libfirebase_init
          lost,         \* history: a line was written to no descriptor
          failed,       \* history: pthread_mutex_init has failed
          misused       \* history: OpenSSL in use during an initialisation,
                        \* or before one was complete

lockVars == <<n, from, mtx_nr, ssl_mtx, arrays, callback, failed>>
logVars == <<log_enabled, log_fd, lost>>
vars == <<at, lockVars, logVars, inits, misused>>

InLogInit == {"log", "opened", "refused", "unopened"}
InSslInit == {"ssl", "array", "mutexes"}
Logging == {"announce", "line"}
InOpenSSL == {"waiting", "inside"}

Init ==
  /\ at = [t \in Thread |-> "idle"]
  /\ n = [t \in Thread |-> 0]
  /\ from = [t \in Thread |-> 0]
  /\ mtx_nr = 0 /\ ssl_mtx = 0
  /\ arrays = <<>>
  /\ callback = FALSE
  /\ log_enabled = TRUE
  /\ log_fd = Stdout
  /\ inits = 0
  /\ lost = FALSE /\ failed = FALSE /\ misused = FALSE

Misuse ==
  \E t, u \in Thread : at[t] \in InOpenSSL /\ (at[u] \in InSslInit \/ ~callback)

\* Thread t goes on from one place to another.
Go(t, here, there) ==
  /\ at[t] = here
  /\ at' = [at EXCEPT ![t] = there]

-----------------------------------------------------------------------------
\* libfirebase_init(log_enabled, log_file), env_logInit first.
BeginInit(t) ==
  /\ Go(t, "idle", "log")
  /\ inits < MaxInits
  /\ inits' = inits + 1
  /\ log_enabled' \in BOOLEAN
  /\ UNCHANGED <<lockVars, log_fd, lost>>

\* No file is named.
LogToStdout(t) ==
  /\ Go(t, "log", "ssl")
  /\ log_fd' = Stdout
  /\ UNCHANGED <<lockVars, inits, log_enabled, lost>>

\* The result of open() is put where all threads see it.
OpenLog(t) ==
  /\ Go(t, "log", "opened")
  /\ log_fd' = File
  /\ UNCHANGED <<lockVars, inits, log_enabled, lost>>

OpenLogFails(t) ==
  /\ Go(t, "log", "refused")
  /\ log_fd' = NoFd
  /\ UNCHANGED <<lockVars, inits, log_enabled, lost>>

\* if(log_fd < 0), which by now may be the result of another thread's open().
LogOpened(t) ==
  /\ at[t] \in {"opened", "refused"}
  /\ at' = [at EXCEPT ![t] = "ssl"]
  /\ log_fd # NoFd
  /\ UNCHANGED <<lockVars, inits, logVars>>

LogUnopened(t) ==
  /\ at[t] \in {"opened", "refused"}
  /\ at' = [at EXCEPT ![t] = "unopened"]
  /\ log_fd = NoFd
  /\ UNCHANGED <<lockVars, inits, logVars>>

\* Mutant of LogFallsBack: returns with what open() has returned.
LogFallsBackNever(t) ==
  /\ Go(t, "unopened", "idle")
  /\ UNCHANGED <<lockVars, inits, logVars>>

\* Back to standard output; libfirebase_init returns -1.
LogFallsBack(t) ==
  /\ Go(t, "unopened", "idle")
  /\ log_fd' = Stdout
  /\ UNCHANGED <<lockVars, inits, log_enabled, lost>>

\* env_logWrite, of env_ssl_init or of any call, goes on if the log is enabled.
BeginLine(t) ==
  /\ at[t] \in {"idle", "announce"}
  /\ at' = [at EXCEPT ![t] = "line"]
  /\ log_enabled
  /\ UNCHANGED <<lockVars, inits, logVars>>

\* It is not: env_ssl_init returns.
SkipLine(t) ==
  /\ Go(t, "announce", "idle")
  /\ ~log_enabled
  /\ UNCHANGED <<lockVars, inits, logVars>>

\* The line is formatted, and written to what log_fd is now.
EndLine(t) ==
  /\ Go(t, "line", "idle")
  /\ lost' = (lost \/ log_fd = NoFd)
  /\ UNCHANGED <<lockVars, inits, log_enabled, log_fd>>

-----------------------------------------------------------------------------
\* env_ssl_init counts the mutexes
CountLocks(t) ==
  /\ Go(t, "ssl", "array")
  /\ mtx_nr' = NumLocks
  /\ UNCHANGED <<n, from, ssl_mtx, arrays, callback, failed, logVars, inits>>

\* and allocates them, over those there were.
Allocate(t) ==
  /\ Go(t, "array", "mutexes")
  /\ arrays' = Append(arrays, [l \in Lock |-> Raw])
  /\ ssl_mtx' = Len(arrays) + 1
  /\ n' = [n EXCEPT ![t] = 0]
  /\ UNCHANGED <<from, mtx_nr, callback, failed, logVars, inits>>

\* Mutant of InitMutex: one mutex too many.
InitMutexBeyond(t) ==
  /\ Go(t, "mutexes", "mutexes")
  /\ n[t] <= mtx_nr
  /\ arrays' = [arrays EXCEPT ![ssl_mtx] =
                  [l \in Lock |-> IF l = n[t] THEN Free ELSE @[l]]]
  /\ n' = [n EXCEPT ![t] = @ + 1]
  /\ UNCHANGED <<from, mtx_nr, ssl_mtx, callback, failed, logVars, inits>>

\* pthread_mutex_init(&ssl_mtx[i]), in the array that is in use now.
InitMutex(t) ==
  /\ Go(t, "mutexes", "mutexes")
  /\ n[t] < mtx_nr
  /\ arrays' = [arrays EXCEPT ![ssl_mtx][n[t]] = Free]
  /\ n' = [n EXCEPT ![t] = @ + 1]
  /\ UNCHANGED <<from, mtx_nr, ssl_mtx, callback, failed, logVars, inits>>

\* It fails: libfirebase_init returns -1.
InitMutexFails(t) ==
  /\ Go(t, "mutexes", "idle")
  /\ n[t] < mtx_nr
  /\ failed' = TRUE
  /\ n' = [n EXCEPT ![t] = 0]
  /\ UNCHANGED <<from, mtx_nr, ssl_mtx, arrays, callback, logVars, inits>>

\* Mutant of SetCallbacks: the callback is set before the last mutex is ready.
SetCallbacksEarly(t) ==
  /\ Go(t, "mutexes", "announce")
  /\ n[t] + 1 >= mtx_nr
  /\ callback' = TRUE
  /\ n' = [n EXCEPT ![t] = 0]
  /\ UNCHANGED <<from, mtx_nr, ssl_mtx, arrays, failed, logVars, inits>>

\* All are initialised: the callbacks are set.
SetCallbacks(t) ==
  /\ Go(t, "mutexes", "announce")
  /\ n[t] >= mtx_nr
  /\ callback' = TRUE
  /\ n' = [n EXCEPT ![t] = 0]
  /\ UNCHANGED <<from, mtx_nr, ssl_mtx, arrays, failed, logVars, inits>>

-----------------------------------------------------------------------------
\* lock_callback does nothing for a lock it has no mutex for.
Guarded(l) == callback /\ l < mtx_nr

\* OpenSSL enters a section that no callback guards.
EnterUnguarded(t, l) ==
  /\ Go(t, "idle", "inside")
  /\ ~Guarded(l)
  /\ n' = [n EXCEPT ![t] = l]
  /\ UNCHANGED <<from, mtx_nr, ssl_mtx, arrays, callback, failed, logVars, inits>>

\* lock_callback(CRYPTO_LOCK): &ssl_mtx[n] is computed.
LockCalled(t, l) ==
  /\ Go(t, "idle", "waiting")
  /\ Guarded(l)
  /\ n' = [n EXCEPT ![t] = l]
  /\ from' = [from EXCEPT ![t] = ssl_mtx]
  /\ UNCHANGED <<mtx_nr, ssl_mtx, arrays, callback, failed, logVars, inits>>

\* Mutant of Locked: pthread_mutex_trylock, its result not looked at.
LockedAnyway(t) ==
  /\ Go(t, "waiting", "inside")
  /\ arrays' = [arrays EXCEPT ![from[t]][n[t]] = t]
  /\ UNCHANGED <<n, from, mtx_nr, ssl_mtx, callback, failed, logVars, inits>>

\* pthread_mutex_lock returns.
Locked(t) ==
  /\ Go(t, "waiting", "inside")
  /\ arrays[from[t]][n[t]] = Free
  /\ arrays' = [arrays EXCEPT ![from[t]][n[t]] = t]
  /\ UNCHANGED <<n, from, mtx_nr, ssl_mtx, callback, failed, logVars, inits>>

\* What it does with a mutex that was not initialised is undefined, and its
\* result is not looked at: it may return at any time, with nobody kept out,
\* or never.
LockedRaw(t) ==
  /\ Go(t, "waiting", "inside")
  /\ arrays[from[t]][n[t]] = Raw
  /\ UNCHANGED <<lockVars, logVars, inits>>

\* Mutant of Leave: the bit CRYPTO_UNLOCK is tested in the wrong place.
LeaveLocked(t) ==
  /\ Go(t, "inside", "idle")
  /\ n' = [n EXCEPT ![t] = 0]
  /\ from' = [from EXCEPT ![t] = 0]
  /\ UNCHANGED <<mtx_nr, ssl_mtx, arrays, callback, failed, logVars, inits>>

\* lock_callback(CRYPTO_UNLOCK), on the array that is in use now, whoever has
\* locked its mutex.  A mutex that was not initialised stays so.
Leave(t) ==
  /\ Go(t, "inside", "idle")
  /\ arrays' = IF Guarded(n[t]) /\ arrays[ssl_mtx][n[t]] # Raw
               THEN [arrays EXCEPT ![ssl_mtx][n[t]] = Free] ELSE arrays
  /\ n' = [n EXCEPT ![t] = 0]
  /\ from' = [from EXCEPT ![t] = 0]
  /\ UNCHANGED <<mtx_nr, ssl_mtx, callback, failed, logVars, inits>>

Advance(t) ==
  \/ BeginInit(t) \/ LogToStdout(t) \/ OpenLog(t) \/ OpenLogFails(t)
  \/ LogOpened(t) \/ LogUnopened(t) \/ LogFallsBack(t)
  \/ BeginLine(t) \/ SkipLine(t) \/ EndLine(t)
  \/ CountLocks(t) \/ Allocate(t)
  \/ InitMutex(t) \/ InitMutexFails(t) \/ SetCallbacks(t)
  \/ \E l \in Lock : EnterUnguarded(t, l) \/ LockCalled(t, l)
  \/ Locked(t) \/ LockedRaw(t) \/ Leave(t)

Next ==
  /\ \E t \in Thread : Advance(t)
  /\ misused' = (misused \/ Misuse')

Spec == Init /\ [][Next]_vars
-----------------------------------------------------------------------------
TypeOK ==
  /\ at \in [Thread -> {"idle"} \cup InLogInit \cup InSslInit \cup Logging \cup InOpenSSL]
  /\ n \in [Thread -> 0 .. NumLocks]
  /\ from \in [Thread -> 0 .. Len(arrays)]
  /\ mtx_nr \in {0, NumLocks}
  /\ ssl_mtx = Len(arrays)
  /\ arrays \in Seq([Lock -> Thread \cup {Free, Raw}])
  /\ callback \in BOOLEAN
  /\ log_enabled \in BOOLEAN
  /\ log_fd \in {NoFd, Stdout, File}
  /\ inits \in 0 .. MaxInits
  /\ lost \in BOOLEAN /\ failed \in BOOLEAN /\ misused \in BOOLEAN

\* Two threads are in sections of the same lock only after OpenSSL was used
\* during an initialisation or before the first, or when an initialisation has
\* failed and left the mutex of that lock as malloc() gave it: initialising
\* again between two uses is safe, from any number of threads.
Exclusion ==
  \A t, u \in Thread :
    at[t] = "inside" /\ at[u] = "inside" /\ n[t] = n[u] /\ t # u =>
      misused \/ (failed /\ arrays[ssl_mtx][n[t]] = Raw)

\* Unless OpenSSL was used during an initialisation or before the first, a locked
\* mutex belongs to a thread that is inside its section: none is left locked for
\* others to wait for.
NoLockLeft ==
  ~misused => \A l \in Lock : ssl_mtx # 0 /\ arrays[ssl_mtx][l] \in Thread =>
    LET t == arrays[ssl_mtx][l] IN at[t] = "inside" /\ n[t] = l

\* When no initialisation runs and none has failed, all mutexes in use are
\* initialised, however the initialisations of several threads overlapped.
AllInitialised ==
  (\A t \in Thread : at[t] \notin InSslInit) /\ callback /\ ~failed =>
    \A l \in Lock : arrays[ssl_mtx][l] # Raw

\* A line is lost only while a thread that could not open its log, or took
\* another's failure for its own, has still to fall back: however the
\* initialisations overlap, log_fd is a descriptor once they have returned.
LinesReachLog ==
  [][lost' = lost \/ \E t \in Thread : at[t] \in {"refused", "unopened"}]_vars
=============================================================================
