--------------------------- MODULE StartupProofs ----------------------------
(***************************************************************************)
(* Startup for any number of threads, locks and initialisations.           *)
(***************************************************************************)
EXTENDS Startup, TLAPS

Mutex == Thread \cup {Free, Raw}
Array == [Lock -> Mutex]
Place == {"idle"} \cup InLogInit \cup InSslInit \cup Logging \cup InOpenSSL

Types ==
  /\ at \in [Thread -> Place]
  /\ n \in [Thread -> 0 .. NumLocks]
  /\ from \in [Thread -> 0 .. Len(arrays)]
  /\ mtx_nr \in {0, NumLocks}
  /\ ssl_mtx = Len(arrays)
  /\ arrays \in Seq(Array)
  /\ callback \in BOOLEAN
  /\ log_enabled \in BOOLEAN
  /\ log_fd \in {NoFd, Stdout, File}
  /\ inits \in 0 .. MaxInits
  /\ lost \in BOOLEAN /\ failed \in BOOLEAN /\ misused \in BOOLEAN

\* Where there is an array for what a thread does with it.
Allocated ==
  /\ callback => mtx_nr = NumLocks /\ ssl_mtx # 0
  /\ \A t \in Thread : at[t] = "array" => mtx_nr = NumLocks
  /\ \A t \in Thread : at[t] = "mutexes" => mtx_nr = NumLocks /\ ssl_mtx # 0
  /\ \A t \in Thread : at[t] = "waiting" => n[t] \in Lock /\ from[t] # 0
  /\ \A t \in Thread : at[t] = "inside" => n[t] \in Lock

\* A mutex that is not initialised is still to be, by a thread that has not
\* come so far.
Pending ==
  ~failed /\ ssl_mtx # 0 => \A l \in Lock : arrays[ssl_mtx][l] = Raw =>
    \E t \in Thread : at[t] = "mutexes" /\ n[t] <= l

\* Without misuse the locks are held by those inside, if they were initialised.
Held ==
  ~misused =>
    /\ ~Misuse
    /\ \A t \in Thread : at[t] = "waiting" => from[t] = ssl_mtx
    /\ \A t \in Thread : at[t] = "inside" => arrays[ssl_mtx][n[t]] \in {t, Raw}

LogFd == log_fd = NoFd => \E t \in Thread : at[t] \in {"refused", "unopened"}

Inv == Types /\ Allocated /\ Pending /\ Held /\ NoLockLeft /\ LogFd
-----------------------------------------------------------------------------
LEMMA InitInv == Init => Inv
<1> SUFFICES ASSUME Init PROVE Inv  OBVIOUS
<1>1. arrays = <<>> /\ Len(arrays) = 0 /\ arrays \in Seq(Array)  BY DEF Init
<1>2. 0 \in 0 .. NumLocks /\ 0 \in 0 .. MaxInits /\ 0 \in 0 .. Len(arrays)
  BY <1>1, StartupAssumption
<1>3. Types
  BY <1>1, <1>2 DEF Init, Types, Place
<1>4. Allocated /\ Pending /\ Held /\ NoLockLeft /\ LogFd
  BY DEF Init, Allocated, Pending, Held, Misuse, NoLockLeft, LogFd, InOpenSSL, Stdout, NoFd
<1> QED  BY <1>3, <1>4 DEF Inv

\* What every action does with the place of its thread.
LEMMA GoFacts ==
  ASSUME Types, NEW t \in Thread, NEW here, NEW there, Go(t, here, there)
  PROVE  /\ at[t] = here /\ at'[t] = there
         /\ \A u \in Thread \ {t} : at'[u] = at[u]
         /\ at' = [at EXCEPT ![t] = there]
BY DEF Types, Go

\* An array with one mutex changed.
LEMMA ArrayUpdate ==
  ASSUME arrays \in Seq(Array), NEW a \in 1 .. Len(arrays), NEW l \in Lock,
         NEW v \in Mutex, arrays' = [arrays EXCEPT ![a][l] = v]
  PROVE  /\ arrays' \in Seq(Array)
         /\ Len(arrays') = Len(arrays)
         /\ arrays'[a] = [arrays[a] EXCEPT ![l] = v]
         /\ \A b \in 1 .. Len(arrays) : b # a => arrays'[b] = arrays[b]
<1>1. arrays[a] \in Array  OBVIOUS
<1>2. [arrays[a] EXCEPT ![l] = v] \in Array  BY <1>1 DEF Array
<1> DEFINE w == [arrays[a] EXCEPT ![l] = v]
<1>3. arrays' = [arrays EXCEPT ![a] = w]  OBVIOUS
<1> HIDE DEF w
<1>4. arrays' \in Seq(Array) /\ Len(arrays') = Len(arrays)
  BY <1>2, <1>3 DEF w
<1>5. arrays'[a] = w /\ \A b \in 1 .. Len(arrays) : b # a => arrays'[b] = arrays[b]
  BY <1>3
<1> QED  BY <1>4, <1>5 DEF w

\* An array more.
LEMMA ArrayNew ==
  ASSUME arrays \in Seq(Array), arrays' = Append(arrays, [l \in Lock |-> Raw])
  PROVE  /\ arrays' \in Seq(Array)
         /\ Len(arrays') = Len(arrays) + 1 /\ Len(arrays) \in Nat
         /\ \A l \in Lock : arrays'[Len(arrays) + 1][l] = Raw
<1>1. [l \in Lock |-> Raw] \in Array  BY DEF Array, Mutex
<1> DEFINE w == [l \in Lock |-> Raw]
<1>2. w \in Array /\ arrays' = Append(arrays, w)  BY <1>1
<1>3. \A l \in Lock : w[l] = Raw  OBVIOUS
<1> HIDE DEF w
<1>4. /\ arrays' \in Seq(Array) /\ Len(arrays') = Len(arrays) + 1
      /\ arrays'[Len(arrays) + 1] = w /\ Len(arrays) \in Nat
  BY <1>2
<1> QED  BY <1>3, <1>4

\* The steps of the log.
LogStep(t) ==
  \/ BeginInit(t) \/ LogToStdout(t) \/ OpenLog(t) \/ OpenLogFails(t)
  \/ LogOpened(t) \/ LogUnopened(t) \/ LogFallsBack(t)
  \/ BeginLine(t) \/ SkipLine(t) \/ EndLine(t)

\* They leave the locks alone, and a thread where it needs no lock.
LEMMA LogStepFacts ==
  ASSUME Inv, NEW t \in Thread, LogStep(t)
  PROVE  /\ UNCHANGED lockVars
         /\ \E there \in {"idle", "line", "ssl"} \cup InLogInit :
              /\ at[t] \in {"idle"} \cup InLogInit \cup Logging
              /\ at' = [at EXCEPT ![t] = there]
              /\ log_fd' = NoFd => there \in {"refused", "unopened"} \/ log_fd = NoFd
              /\ at[t] \in {"refused", "unopened"} /\ log_fd' = NoFd => there = "unopened"
         /\ inits' \in 0 .. MaxInits
         /\ log_enabled' \in BOOLEAN /\ lost' \in BOOLEAN
         /\ log_fd' \in {NoFd, Stdout, File}
<1>1. CASE BeginInit(t)
  BY <1>1, StartupAssumption DEF BeginInit, Go, Inv, Types, InLogInit
<1>2. CASE LogToStdout(t)
  BY <1>2 DEF LogToStdout, Go, Inv, Types, InLogInit, Stdout, NoFd
<1>3. CASE OpenLog(t)
  BY <1>3 DEF OpenLog, Go, Inv, Types, InLogInit, File, NoFd
<1>4. CASE OpenLogFails(t)
  BY <1>4 DEF OpenLogFails, Go, Inv, Types, InLogInit
<1>5. CASE LogOpened(t)
  BY <1>5 DEF LogOpened, logVars, Inv, Types, InLogInit
<1>6. CASE LogUnopened(t)
  BY <1>6 DEF LogUnopened, logVars, Inv, Types, InLogInit
<1>7. CASE LogFallsBack(t)
  BY <1>7 DEF LogFallsBack, Go, Inv, Types, InLogInit, Stdout, NoFd
<1>8. CASE BeginLine(t)
  BY <1>8 DEF BeginLine, logVars, Inv, Types, Logging
<1>9. CASE SkipLine(t)
  BY <1>9 DEF SkipLine, Go, logVars, Inv, Types, Logging
<1>10. CASE EndLine(t)
  BY <1>10 DEF EndLine, Go, Inv, Types, Logging
<1> QED
  BY <1>1, <1>2, <1>3, <1>4, <1>5, <1>6, <1>7, <1>8, <1>9, <1>10 DEF LogStep

LEMMA LogInv ==
  ASSUME Inv, NEW t \in Thread, misused' = (misused \/ Misuse'), LogStep(t)
  PROVE  Inv'
<1>1. UNCHANGED lockVars  BY LogStepFacts
<1>2. PICK there \in {"idle", "line", "ssl"} \cup InLogInit :
        /\ at[t] \in {"idle"} \cup InLogInit \cup Logging
        /\ at' = [at EXCEPT ![t] = there]
        /\ log_fd' = NoFd => there \in {"refused", "unopened"} \/ log_fd = NoFd
        /\ at[t] \in {"refused", "unopened"} /\ log_fd' = NoFd => there = "unopened"
  BY LogStepFacts
<1>3. at'[t] = there /\ \A u \in Thread \ {t} : at'[u] = at[u]
  BY <1>2 DEF Inv, Types
<1>4. \A u \in Thread :
        /\ at'[u] \in InOpenSSL \cup {"array", "mutexes"} => at'[u] = at[u]
        /\ at[u] \in InOpenSSL \cup {"array", "mutexes"} => at'[u] = at[u]
  BY <1>2, <1>3 DEF InLogInit, InOpenSSL, Logging
<1>5. Types'
  <2>1. there \in Place  BY DEF Place, Logging, InSslInit
  <2>2. at' \in [Thread -> Place]  BY <1>2, <2>1 DEF Inv, Types
  <2>3. misused' \in BOOLEAN  BY DEF Inv, Types, Misuse
  <2> QED  BY <1>1, <2>2, <2>3, LogStepFacts DEF Inv, Types, lockVars
<1>6. Allocated'
  BY <1>1, <1>4 DEF Inv, Allocated, lockVars, InOpenSSL
<1>7. Pending'
  BY <1>1, <1>4 DEF Inv, Pending, lockVars
<1>8. Held'
  BY <1>1, <1>4 DEF Inv, Held, lockVars, InOpenSSL
<1>9. NoLockLeft'
  <2> SUFFICES ASSUME ~misused', NEW l \in Lock, ssl_mtx # 0, arrays[ssl_mtx][l] \in Thread
               PROVE  at'[arrays[ssl_mtx][l]] = "inside" /\ n[arrays[ssl_mtx][l]] = l
    BY <1>1 DEF NoLockLeft, lockVars
  <2>1. ~misused  OBVIOUS
  <2>2. at[arrays[ssl_mtx][l]] = "inside" /\ n[arrays[ssl_mtx][l]] = l
    BY <2>1 DEF Inv, NoLockLeft
  <2> QED  BY <1>4, <2>2 DEF InOpenSSL
<1>10. LogFd'
  <2> SUFFICES ASSUME log_fd' = NoFd
               PROVE  \E u \in Thread : at'[u] \in {"refused", "unopened"}
    BY DEF LogFd
  <2>1. CASE there \in {"refused", "unopened"}  BY <1>3, <2>1
  <2>2. CASE there \notin {"refused", "unopened"}
    <3>1. PICK u \in Thread : at[u] \in {"refused", "unopened"}
      BY <1>2, <2>2 DEF Inv, LogFd
    <3>2. u # t  BY <1>2, <2>2, <3>1
    <3> QED  BY <1>3, <3>1, <3>2
  <2> QED  BY <2>1, <2>2
<1> QED  BY <1>5, <1>6, <1>7, <1>8, <1>9, <1>10 DEF Inv

LEMMA CountLocksInv ==
  ASSUME Inv, NEW t \in Thread, misused' = (misused \/ Misuse'), CountLocks(t)
  PROVE  Inv'
<1>1. /\ at[t] = "ssl" /\ at' = [at EXCEPT ![t] = "array"] /\ mtx_nr' = NumLocks
      /\ UNCHANGED <<n, from, ssl_mtx, arrays, callback, failed, logVars, inits>>
  BY DEF CountLocks, Go
<1>2. at'[t] = "array" /\ \A u \in Thread \ {t} : at'[u] = at[u]
  BY <1>1 DEF Inv, Types
<1>3. misused' \in BOOLEAN /\ (~misused' => ~misused /\ ~Misuse')
  BY DEF Inv, Types, Misuse
<1>4. Types'
  <2>1. at' \in [Thread -> Place]  BY <1>1 DEF Inv, Types, Place, InSslInit
  <2> QED  BY <1>1, <1>3, <2>1 DEF Inv, Types, logVars
<1>5. Allocated' /\ Pending'
  BY <1>1, <1>2 DEF Inv, Allocated, Pending
<1>6. Held'
  BY <1>1, <1>2, <1>3 DEF Inv, Held
<1>7. NoLockLeft'
  <2> SUFFICES ASSUME ~misused', ssl_mtx # 0, NEW l \in Lock, arrays[ssl_mtx][l] \in Thread
               PROVE  at'[arrays[ssl_mtx][l]] = "inside" /\ n[arrays[ssl_mtx][l]] = l
    BY <1>1 DEF NoLockLeft
  <2>1. at[arrays[ssl_mtx][l]] = "inside" /\ n[arrays[ssl_mtx][l]] = l
    BY <1>3 DEF Inv, NoLockLeft
  <2> QED  BY <1>1, <1>2, <2>1
<1>8. LogFd'
  BY <1>1, <1>2 DEF Inv, LogFd, logVars
<1> QED  BY <1>4, <1>5, <1>6, <1>7, <1>8 DEF Inv

LEMMA AllocateInv ==
  ASSUME Inv, NEW t \in Thread, misused' = (misused \/ Misuse'), Allocate(t)
  PROVE  Inv'
<1>1. /\ at[t] = "array" /\ at' = [at EXCEPT ![t] = "mutexes"]
      /\ ssl_mtx' = Len(arrays) + 1
      /\ n' = [n EXCEPT ![t] = 0]
      /\ UNCHANGED <<from, mtx_nr, callback, failed, logVars, inits>>
  BY DEF Allocate, Go
<1>2. /\ arrays' \in Seq(Array)
      /\ Len(arrays') = Len(arrays) + 1 /\ Len(arrays) \in Nat
      /\ \A l \in Lock : arrays'[ssl_mtx'][l] = Raw
  BY <1>1, ArrayNew DEF Allocate, Inv, Types
<1>3. at'[t] = "mutexes" /\ n'[t] = 0 /\ \A u \in Thread \ {t} : at'[u] = at[u] /\ n'[u] = n[u]
  BY <1>1 DEF Inv, Types
<1>4. misused' \in BOOLEAN /\ (~misused' => ~misused /\ ~Misuse')
  BY DEF Inv, Types, Misuse
<1>5. ~misused' => \A u \in Thread : at'[u] \notin InOpenSSL
  BY <1>3, <1>4 DEF Misuse, InSslInit
<1>6. Types'
  <2>1. at' \in [Thread -> Place]
    BY <1>1 DEF Inv, Types, Place, InSslInit
  <2>2. n' \in [Thread -> 0 .. NumLocks]  BY <1>1, StartupAssumption DEF Inv, Types
  <2>3. from' \in [Thread -> 0 .. Len(arrays')]  BY <1>1, <1>2 DEF Inv, Types
  <2> QED  BY <1>1, <1>2, <1>4, <2>1, <2>2, <2>3 DEF Inv, Types, logVars
<1>7. Allocated'
  BY <1>1, <1>2, <1>3 DEF Inv, Types, Allocated
<1>8. Pending'
  <2>1. \A l \in Lock : n'[t] <= l  BY <1>3, StartupAssumption DEF Lock
  <2> QED  BY <1>3, <2>1 DEF Pending
<1>9. Held'
  BY <1>4, <1>5 DEF Held, InOpenSSL
<1>10. NoLockLeft'
  BY <1>2, StatesAreNoThreads DEF NoLockLeft
<1>11. LogFd'
  BY <1>1, <1>3 DEF Inv, LogFd, logVars
<1> QED  BY <1>6, <1>7, <1>8, <1>9, <1>10, <1>11 DEF Inv

LEMMA InitMutexInv ==
  ASSUME Inv, NEW t \in Thread, misused' = (misused \/ Misuse'), InitMutex(t)
  PROVE  Inv'
<1>1. /\ at[t] = "mutexes" /\ at' = [at EXCEPT ![t] = "mutexes"] /\ n[t] < mtx_nr
      /\ arrays' = [arrays EXCEPT ![ssl_mtx][n[t]] = Free]
      /\ n' = [n EXCEPT ![t] = n[t] + 1]
      /\ UNCHANGED <<from, mtx_nr, ssl_mtx, callback, failed, logVars, inits>>
  BY DEF InitMutex, Go
<1>2. at' = at  BY <1>1 DEF Inv, Types
<1>3. mtx_nr = NumLocks /\ ssl_mtx # 0  BY <1>1 DEF Inv, Allocated
<1>4. n[t] \in Lock /\ n[t] \in Nat  BY <1>1, <1>3, StartupAssumption DEF Inv, Types, Lock
<1>5. ssl_mtx \in 1 .. Len(arrays) /\ ssl_mtx = Len(arrays)
  BY <1>3 DEF Inv, Types
<1>6. Free \in Mutex  BY DEF Mutex
<1>7. /\ arrays' \in Seq(Array) /\ Len(arrays') = Len(arrays)
      /\ arrays'[ssl_mtx] = [arrays[ssl_mtx] EXCEPT ![n[t]] = Free]
      /\ \A b \in 1 .. Len(arrays) : b # ssl_mtx => arrays'[b] = arrays[b]
  <2>1. arrays \in Seq(Array)  BY DEF Inv, Types
  <2>2. arrays' = [arrays EXCEPT ![ssl_mtx][n[t]] = Free]  BY <1>1
  <2>3. n[t] \in Lock /\ ssl_mtx \in 1 .. Len(arrays)  BY <1>4, <1>5
  <2> QED  BY <1>6, <2>1, <2>2, <2>3, ArrayUpdate, Zenon
<1>8. arrays[ssl_mtx] \in Array  BY <1>5 DEF Inv, Types
<1>9. \A l \in Lock : arrays'[ssl_mtx][l] = IF l = n[t] THEN Free ELSE arrays[ssl_mtx][l]
  BY <1>7, <1>8 DEF Array
<1>10. n'[t] = n[t] + 1 /\ \A u \in Thread \ {t} : n'[u] = n[u]  BY <1>1 DEF Inv, Types
<1>11. misused' \in BOOLEAN /\ (~misused' => ~misused /\ ~Misuse')
  BY DEF Inv, Types, Misuse
<1>12. ~misused' => \A u \in Thread : at[u] \notin InOpenSSL
  BY <1>1, <1>11, <1>2 DEF Misuse, InSslInit
<1>13. Types'
  <2>1. n[t] + 1 \in 0 .. NumLocks  BY <1>4, StartupAssumption DEF Lock
  <2>2. n' \in [Thread -> 0 .. NumLocks]  BY <1>1, <2>1 DEF Inv, Types
  <2>3. from' \in [Thread -> 0 .. Len(arrays')]  BY <1>1, <1>7 DEF Inv, Types
  <2> QED  BY <1>1, <1>2, <1>7, <1>11, <2>2, <2>3 DEF Inv, Types, logVars
<1>14. Allocated'
  BY <1>1, <1>2, <1>10 DEF Inv, Allocated
<1>15. Pending'
  <2> SUFFICES ASSUME ~failed, NEW l \in Lock, arrays'[ssl_mtx][l] = Raw
               PROVE  \E u \in Thread : at[u] = "mutexes" /\ n'[u] <= l
    BY <1>1, <1>2 DEF Pending
  <2>1. l # n[t] /\ arrays[ssl_mtx][l] = Raw  BY <1>9 DEF Free, Raw
  <2>2. PICK u \in Thread : at[u] = "mutexes" /\ n[u] <= l
    BY <1>3, <2>1 DEF Inv, Pending
  <2>3. CASE u = t
    BY <1>4, <1>10, <2>1, <2>2, <2>3 DEF Lock
  <2>4. CASE u # t  BY <1>10, <2>2, <2>4
  <2> QED  BY <2>3, <2>4
<1>16. Held'
  BY <1>2, <1>11, <1>12 DEF Held, InOpenSSL
<1>17. NoLockLeft'
  <2> SUFFICES ASSUME ~misused', NEW l \in Lock, arrays'[ssl_mtx][l] \in Thread
               PROVE  FALSE
    BY <1>1 DEF NoLockLeft
  <2>1. arrays[ssl_mtx][l] \in Thread  BY <1>9, StatesAreNoThreads
  <2>2. at[arrays[ssl_mtx][l]] = "inside"  BY <1>3, <1>11, <2>1 DEF Inv, NoLockLeft
  <2> QED  BY <1>12, <2>1, <2>2 DEF InOpenSSL
<1>18. LogFd'
  BY <1>1, <1>2 DEF Inv, LogFd, logVars
<1> QED  BY <1>13, <1>14, <1>15, <1>16, <1>17, <1>18 DEF Inv

\* The mutexes stay as they are, and t leaves the initialisation.
LEMMA EndsInv ==
  ASSUME Inv, NEW t \in Thread, misused' = (misused \/ Misuse'),
         InitMutexFails(t) \/ SetCallbacks(t)
  PROVE  Inv'
<1>1. /\ at[t] = "mutexes"
      /\ \E there \in {"idle", "announce"} : at' = [at EXCEPT ![t] = there]
      /\ n' = [n EXCEPT ![t] = 0]
      /\ UNCHANGED <<from, mtx_nr, ssl_mtx, arrays, logVars, inits>>
      /\ callback' \in {callback, TRUE} /\ failed' \in {failed, TRUE}
      /\ ~failed' => n[t] >= mtx_nr /\ ~failed
  BY DEF InitMutexFails, SetCallbacks, Go, Inv, Types
<1>2. at'[t] \in {"idle", "announce"} /\ n'[t] = 0 /\ \A u \in Thread \ {t} : at'[u] = at[u] /\ n'[u] = n[u]
  BY <1>1 DEF Inv, Types
<1>3. mtx_nr = NumLocks /\ ssl_mtx # 0  BY <1>1 DEF Inv, Allocated
<1>4. misused' \in BOOLEAN /\ (~misused' => ~misused /\ ~Misuse')
  BY DEF Inv, Types, Misuse
<1>5. ~misused' => \A u \in Thread : at[u] \notin InOpenSSL
  BY <1>1, <1>4 DEF Inv, Held, Misuse, InSslInit
<1>6. Types'
  <2>1. at' \in [Thread -> Place]
    BY <1>1 DEF Inv, Types, Place, Logging
  <2>2. n' \in [Thread -> 0 .. NumLocks]  BY <1>1, StartupAssumption DEF Inv, Types
  <2>3. callback' \in BOOLEAN /\ failed' \in BOOLEAN  BY <1>1 DEF Inv, Types
  <2> QED  BY <1>1, <1>4, <2>1, <2>2, <2>3 DEF Inv, Types, logVars
<1>7. Allocated'
  BY <1>1, <1>2, <1>3 DEF Inv, Allocated
<1>8. Pending'
  <2> SUFFICES ASSUME ~failed', NEW l \in Lock, arrays[ssl_mtx][l] = Raw
               PROVE  \E u \in Thread : at'[u] = "mutexes" /\ n'[u] <= l
    BY <1>1 DEF Pending
  <2>1. ~failed /\ n[t] >= NumLocks  BY <1>1, <1>3
  <2>2. PICK u \in Thread : at[u] = "mutexes" /\ n[u] <= l
    BY <1>3, <2>1 DEF Inv, Pending
  <2>3. n[t] \in Nat /\ l \in Nat /\ l < NumLocks /\ NumLocks \in Nat
    BY StartupAssumption DEF Inv, Types, Lock
  <2>4. u # t  BY <2>1, <2>2, <2>3
  <2> QED  BY <1>2, <2>2, <2>4
<1>9. Held'
  BY <1>2, <1>4, <1>5 DEF Held, InOpenSSL
<1>10. NoLockLeft'
  <2> SUFFICES ASSUME ~misused', NEW l \in Lock, arrays[ssl_mtx][l] \in Thread
               PROVE  FALSE
    BY <1>1 DEF NoLockLeft
  <2>1. at[arrays[ssl_mtx][l]] = "inside"  BY <1>3, <1>4 DEF Inv, NoLockLeft
  <2> QED  BY <1>5, <2>1 DEF InOpenSSL
<1>11. LogFd'
  BY <1>1, <1>2 DEF Inv, LogFd, logVars
<1> QED  BY <1>6, <1>7, <1>8, <1>9, <1>10, <1>11 DEF Inv

\* OpenSSL calls, or would call, the callback for a lock.
LEMMA CalledInv ==
  ASSUME Inv, NEW t \in Thread, NEW l \in Lock, misused' = (misused \/ Misuse'),
         EnterUnguarded(t, l) \/ LockCalled(t, l)
  PROVE  Inv'
<1>1. /\ at[t] = "idle"
      /\ \/ at' = [at EXCEPT ![t] = "inside"] /\ ~Guarded(l) /\ from' = from
         \/ at' = [at EXCEPT ![t] = "waiting"] /\ Guarded(l)
              /\ from' = [from EXCEPT ![t] = ssl_mtx]
      /\ n' = [n EXCEPT ![t] = l]
      /\ UNCHANGED <<mtx_nr, ssl_mtx, arrays, callback, failed, logVars, inits>>
  BY DEF EnterUnguarded, LockCalled, Go
<1>2. /\ at'[t] \in {"inside", "waiting"}
      /\ n'[t] = l /\ \A u \in Thread \ {t} : at'[u] = at[u] /\ n'[u] = n[u]
  BY <1>1 DEF Inv, Types
<1>3. misused' \in BOOLEAN /\ (~misused' => ~misused /\ ~Misuse')
  BY DEF Inv, Types, Misuse
<1>4. Guarded(l) <=> callback
  BY StartupAssumption DEF Guarded, Inv, Allocated, Lock
<1>5. ~misused' => callback /\ at'[t] = "waiting" /\ from'[t] = ssl_mtx
  BY <1>1, <1>2, <1>3, <1>4 DEF Misuse, InOpenSSL, Inv, Types
<1>6. Types'
  <2>1. at' \in [Thread -> Place]
    BY <1>1 DEF Inv, Types, Place, InOpenSSL
  <2>2. l \in 0 .. NumLocks  BY StartupAssumption DEF Lock
  <2>3. n' \in [Thread -> 0 .. NumLocks]  BY <1>1, <2>2 DEF Inv, Types
  <2>4. ssl_mtx \in 0 .. Len(arrays)  BY DEF Inv, Types
  <2>5. from' \in [Thread -> 0 .. Len(arrays)]  BY <1>1, <2>4 DEF Inv, Types
  <2> QED  BY <1>1, <1>3, <2>1, <2>3, <2>5 DEF Inv, Types, logVars
<1>7. \A u \in Thread \ {t} : from'[u] = from[u]  BY <1>1 DEF Inv, Types
<1>8. Allocated'
  <2>1. at'[t] = "waiting" => from'[t] # 0
    BY <1>1, <1>4 DEF Inv, Types, Allocated
  <2> QED  BY <1>1, <1>2, <1>7, <2>1 DEF Inv, Allocated
<1>9. Pending'
  <2> SUFFICES ASSUME ~failed, ssl_mtx # 0, NEW k \in Lock, arrays[ssl_mtx][k] = Raw
               PROVE  \E u \in Thread : at'[u] = "mutexes" /\ n'[u] <= k
    BY <1>1 DEF Pending
  <2>1. PICK u \in Thread : at[u] = "mutexes" /\ n[u] <= k  BY DEF Inv, Pending
  <2> QED  BY <1>1, <1>2, <2>1
<1>10. Held'
  <2> SUFFICES ASSUME ~misused' PROVE Held'  BY DEF Held
  <2>1. \A u \in Thread : at'[u] = "waiting" => from'[u] = ssl_mtx
    BY <1>2, <1>3, <1>5, <1>7 DEF Inv, Held
  <2>2. \A u \in Thread : at'[u] = "inside" => arrays[ssl_mtx][n'[u]] \in {u, Raw}
    BY <1>2, <1>3, <1>5 DEF Inv, Held
  <2> QED  BY <1>1, <1>3, <2>1, <2>2 DEF Held
<1>11. NoLockLeft'
  <2> SUFFICES ASSUME ~misused', ssl_mtx # 0, NEW k \in Lock, arrays[ssl_mtx][k] \in Thread
               PROVE  at'[arrays[ssl_mtx][k]] = "inside" /\ n'[arrays[ssl_mtx][k]] = k
    BY <1>1 DEF NoLockLeft
  <2>1. at[arrays[ssl_mtx][k]] = "inside" /\ n[arrays[ssl_mtx][k]] = k
    BY <1>3 DEF Inv, NoLockLeft
  <2> QED  BY <1>1, <1>2, <2>1
<1>12. LogFd'
  BY <1>1, <1>2 DEF Inv, LogFd, logVars
<1> QED  BY <1>6, <1>8, <1>9, <1>10, <1>11, <1>12 DEF Inv

LEMMA LockedInv ==
  ASSUME Inv, NEW t \in Thread, misused' = (misused \/ Misuse'), Locked(t)
  PROVE  Inv'
<1>1. /\ at[t] = "waiting" /\ at' = [at EXCEPT ![t] = "inside"]
      /\ arrays[from[t]][n[t]] = Free
      /\ arrays' = [arrays EXCEPT ![from[t]][n[t]] = t]
      /\ UNCHANGED <<n, from, mtx_nr, ssl_mtx, callback, failed, logVars, inits>>
  BY DEF Locked, Go
<1>2. at'[t] = "inside" /\ \A u \in Thread \ {t} : at'[u] = at[u]
  BY <1>1 DEF Inv, Types
<1>3. n[t] \in Lock /\ from[t] \in 1 .. Len(arrays)
  BY <1>1 DEF Inv, Types, Allocated
<1>4. t \in Mutex  BY DEF Mutex
<1>5. /\ arrays' \in Seq(Array) /\ Len(arrays') = Len(arrays)
      /\ arrays'[from[t]] = [arrays[from[t]] EXCEPT ![n[t]] = t]
      /\ \A b \in 1 .. Len(arrays) : b # from[t] => arrays'[b] = arrays[b]
  <2>1. arrays \in Seq(Array)  BY DEF Inv, Types
  <2>2. arrays' = [arrays EXCEPT ![from[t]][n[t]] = t]  BY <1>1
  <2> QED  BY <1>3, <1>4, <2>1, <2>2, ArrayUpdate, Zenon
<1>6. \A b \in 1 .. Len(arrays) : arrays[b] \in Array  BY DEF Inv, Types
<1>7. \A b \in 1 .. Len(arrays) : \A l \in Lock :
        arrays'[b][l] = IF b = from[t] /\ l = n[t] THEN t ELSE arrays[b][l]
  BY <1>3, <1>5, <1>6 DEF Array
<1>8. misused' \in BOOLEAN /\ (~misused' => ~misused /\ ~Misuse')
  BY DEF Inv, Types, Misuse
<1>9. ssl_mtx = Len(arrays)  BY DEF Inv, Types
<1>10. Types'
  <2>1. at' \in [Thread -> Place]
    BY <1>1 DEF Inv, Types, Place, InOpenSSL
  <2> QED  BY <1>1, <1>5, <1>8, <2>1 DEF Inv, Types, logVars
<1>11. Allocated'
  BY <1>1, <1>2, <1>3 DEF Inv, Allocated
<1>12. ssl_mtx # 0 => ssl_mtx \in 1 .. Len(arrays)  BY <1>9, <1>3
<1>13. Pending'
  <2> SUFFICES ASSUME ~failed, ssl_mtx # 0, NEW k \in Lock, arrays'[ssl_mtx][k] = Raw
               PROVE  \E u \in Thread : at'[u] = "mutexes" /\ n[u] <= k
    BY <1>1 DEF Pending
  <2>1. arrays[ssl_mtx][k] = Raw  BY <1>7, <1>12, StatesAreNoThreads
  <2>2. PICK u \in Thread : at[u] = "mutexes" /\ n[u] <= k  BY <2>1 DEF Inv, Pending
  <2> QED  BY <1>1, <1>2, <2>2
<1>14. Held'
  <2> SUFFICES ASSUME ~misused' PROVE Held'  BY DEF Held
  <2>1. \A u \in Thread : at'[u] = "waiting" => from[u] = ssl_mtx
    BY <1>2, <1>8 DEF Inv, Held
  <2>2. from[t] = ssl_mtx  BY <1>1, <1>8 DEF Inv, Held
  <2>3. ASSUME NEW u \in Thread, at'[u] = "inside" PROVE arrays'[ssl_mtx][n[u]] \in {u, Raw}
    <3>1. CASE u = t  BY <1>3, <1>7, <2>2, <3>1
    <3>2. CASE u # t
      <4>1. at[u] = "inside" /\ n[u] \in Lock /\ arrays[ssl_mtx][n[u]] \in {u, Raw}
        BY <1>2, <1>8, <2>3, <3>2 DEF Inv, Held, Allocated
      <4>2. n[u] # n[t]  BY <1>1, <2>2, <4>1, StatesAreNoThreads DEF Free, Raw
      <4> QED  BY <1>3, <1>7, <2>2, <4>1, <4>2
    <3> QED  BY <3>1, <3>2
  <2> QED  BY <1>1, <1>8, <2>1, <2>3 DEF Held
<1>15. NoLockLeft'
  <2> SUFFICES ASSUME ~misused', ssl_mtx # 0, NEW k \in Lock, arrays'[ssl_mtx][k] \in Thread
               PROVE  at'[arrays'[ssl_mtx][k]] = "inside" /\ n[arrays'[ssl_mtx][k]] = k
    BY <1>1 DEF NoLockLeft
  <2>1. CASE ssl_mtx = from[t] /\ k = n[t]
    BY <1>2, <1>3, <1>7, <2>1
  <2>2. CASE ~(ssl_mtx = from[t] /\ k = n[t])
    <3>1. arrays'[ssl_mtx][k] = arrays[ssl_mtx][k]  BY <1>7, <1>12, <2>2
    <3>2. at[arrays[ssl_mtx][k]] = "inside" /\ n[arrays[ssl_mtx][k]] = k
      BY <1>8, <3>1 DEF Inv, NoLockLeft
    <3> QED  BY <1>1, <1>2, <3>1, <3>2
  <2> QED  BY <2>1, <2>2
<1>16. LogFd'
  BY <1>1, <1>2 DEF Inv, LogFd, logVars
<1> QED  BY <1>10, <1>11, <1>13, <1>14, <1>15, <1>16 DEF Inv

\* Nobody is kept out, and nobody keeps others out.
LEMMA LockedRawInv ==
  ASSUME Inv, NEW t \in Thread, misused' = (misused \/ Misuse'), LockedRaw(t)
  PROVE  Inv'
<1>1. /\ at[t] = "waiting" /\ at' = [at EXCEPT ![t] = "inside"]
      /\ arrays[from[t]][n[t]] = Raw
      /\ UNCHANGED <<lockVars, logVars, inits>>
  BY DEF LockedRaw, Go
<1>2. at'[t] = "inside" /\ \A u \in Thread \ {t} : at'[u] = at[u]
  BY <1>1 DEF Inv, Types
<1>3. misused' \in BOOLEAN /\ (~misused' => ~misused /\ ~Misuse')
  BY DEF Inv, Types, Misuse
<1>4. Types'
  <2>1. at' \in [Thread -> Place]  BY <1>1 DEF Inv, Types, Place, InOpenSSL
  <2> QED  BY <1>1, <1>3, <2>1 DEF Inv, Types, lockVars, logVars
<1>5. Allocated' /\ Pending'
  BY <1>1, <1>2 DEF Inv, Allocated, Pending, lockVars
<1>6. Held'
  BY <1>1, <1>2, <1>3 DEF Inv, Held, lockVars
<1>7. NoLockLeft'
  <2> SUFFICES ASSUME ~misused', ssl_mtx # 0, NEW l \in Lock, arrays[ssl_mtx][l] \in Thread
               PROVE  at'[arrays[ssl_mtx][l]] = "inside" /\ n[arrays[ssl_mtx][l]] = l
    BY <1>1 DEF NoLockLeft, lockVars
  <2>1. at[arrays[ssl_mtx][l]] = "inside" /\ n[arrays[ssl_mtx][l]] = l
    BY <1>3 DEF Inv, NoLockLeft
  <2> QED  BY <1>2, <2>1
<1>8. LogFd'
  BY <1>1, <1>2 DEF Inv, LogFd, logVars
<1> QED  BY <1>4, <1>5, <1>6, <1>7, <1>8 DEF Inv

LEMMA LeaveInv ==
  ASSUME Inv, NEW t \in Thread, misused' = (misused \/ Misuse'), Leave(t)
  PROVE  Inv'
<1> DEFINE Unlocks == Guarded(n[t]) /\ arrays[ssl_mtx][n[t]] # Raw
<1>1. /\ at[t] = "inside" /\ at' = [at EXCEPT ![t] = "idle"]
      /\ arrays' = IF Unlocks THEN [arrays EXCEPT ![ssl_mtx][n[t]] = Free] ELSE arrays
      /\ n' = [n EXCEPT ![t] = 0] /\ from' = [from EXCEPT ![t] = 0]
      /\ UNCHANGED <<mtx_nr, ssl_mtx, callback, failed, logVars, inits>>
  BY DEF Leave, Go
<1>2. /\ at'[t] = "idle"
      /\ \A u \in Thread \ {t} : at'[u] = at[u] /\ n'[u] = n[u] /\ from'[u] = from[u]
  BY <1>1 DEF Inv, Types
<1>3. n[t] \in Lock  BY <1>1 DEF Inv, Allocated
<1>4. Guarded(n[t]) => ssl_mtx \in 1 .. Len(arrays)
  BY DEF Guarded, Inv, Allocated, Types
<1>5. ssl_mtx = Len(arrays)  BY DEF Inv, Types
<1>6. Free \in Mutex  BY DEF Mutex
<1>7. \A b \in 1 .. Len(arrays) : arrays[b] \in Array  BY DEF Inv, Types
<1>8. /\ arrays' \in Seq(Array) /\ Len(arrays') = Len(arrays)
      /\ ssl_mtx # 0 => \A l \in Lock : arrays'[ssl_mtx][l] =
           IF Unlocks /\ l = n[t] THEN Free ELSE arrays[ssl_mtx][l]
  <2>1. CASE Unlocks
    <3>1. arrays \in Seq(Array)  BY DEF Inv, Types
    <3>2. arrays' = [arrays EXCEPT ![ssl_mtx][n[t]] = Free]  BY <1>1, <2>1
    <3>3. ssl_mtx \in 1 .. Len(arrays)  BY <1>4, <2>1
    <3>4. /\ arrays' \in Seq(Array) /\ Len(arrays') = Len(arrays)
          /\ arrays'[ssl_mtx] = [arrays[ssl_mtx] EXCEPT ![n[t]] = Free]
          /\ \A b \in 1 .. Len(arrays) : b # ssl_mtx => arrays'[b] = arrays[b]
      BY <1>3, <1>6, <3>1, <3>2, <3>3, ArrayUpdate, Zenon
    <3> QED  BY <1>3, <1>7, <2>1, <3>3, <3>4 DEF Array
  <2>2. CASE ~Unlocks
    BY <1>1, <2>2 DEF Inv, Types
  <2> QED  BY <2>1, <2>2
<1>9. misused' \in BOOLEAN /\ (~misused' => ~misused /\ ~Misuse')
  BY DEF Inv, Types, Misuse
<1>10. ~misused' => Guarded(n[t]) /\ ssl_mtx # 0
  <2> SUFFICES ASSUME ~misused' PROVE callback
    BY <1>3, StartupAssumption DEF Guarded, Inv, Allocated, Lock
  <2>1. ~Misuse  BY <1>9 DEF Inv, Held
  <2> QED  BY <1>1, <2>1 DEF Misuse, InOpenSSL
<1>11. Types'
  <2>1. at' \in [Thread -> Place]
    BY <1>1 DEF Inv, Types, Place
  <2>2. n' \in [Thread -> 0 .. NumLocks]  BY <1>1, StartupAssumption DEF Inv, Types
  <2>3. 0 \in 0 .. Len(arrays)  BY DEF Inv, Types
  <2>4. from' \in [Thread -> 0 .. Len(arrays')]  BY <1>1, <1>8, <2>3 DEF Inv, Types
  <2> QED  BY <1>1, <1>8, <1>9, <2>1, <2>2, <2>4 DEF Inv, Types, logVars
<1>12. Allocated'
  BY <1>1, <1>2 DEF Inv, Allocated
<1>13. Pending'
  <2> SUFFICES ASSUME ~failed, ssl_mtx # 0, NEW k \in Lock, arrays'[ssl_mtx][k] = Raw
               PROVE  \E u \in Thread : at'[u] = "mutexes" /\ n'[u] <= k
    BY <1>1 DEF Pending
  <2>1. arrays[ssl_mtx][k] = Raw  BY <1>8 DEF Free, Raw
  <2>2. PICK u \in Thread : at[u] = "mutexes" /\ n[u] <= k  BY <2>1 DEF Inv, Pending
  <2> QED  BY <1>1, <1>2, <2>2
<1>14. Held'
  <2> SUFFICES ASSUME ~misused' PROVE Held'  BY DEF Held
  <2>1. \A u \in Thread : at'[u] = "waiting" => from'[u] = ssl_mtx
    BY <1>2, <1>9 DEF Inv, Held
  <2>2. ASSUME NEW u \in Thread, at'[u] = "inside" PROVE arrays'[ssl_mtx][n'[u]] \in {u, Raw}
    <3>1. u # t /\ at[u] = "inside" /\ n'[u] = n[u]  BY <1>2, <2>2
    <3>2. /\ n[u] \in Lock /\ arrays[ssl_mtx][n[u]] \in {u, Raw}
          /\ arrays[ssl_mtx][n[t]] \in {t, Raw}
      BY <1>1, <1>9, <3>1 DEF Inv, Held, Allocated
    <3> QED  BY <1>8, <1>10, <3>1, <3>2, StatesAreNoThreads
  <2> QED  BY <1>1, <1>9, <2>1, <2>2 DEF Held
<1>15. NoLockLeft'
  <2> SUFFICES ASSUME ~misused', ssl_mtx # 0, NEW k \in Lock, arrays'[ssl_mtx][k] \in Thread
               PROVE  at'[arrays'[ssl_mtx][k]] = "inside" /\ n'[arrays'[ssl_mtx][k]] = k
    BY <1>1 DEF NoLockLeft
  <2>1. k # n[t] /\ arrays'[ssl_mtx][k] = arrays[ssl_mtx][k]
    BY <1>8, <1>10, StatesAreNoThreads
  <2>2. at[arrays[ssl_mtx][k]] = "inside" /\ n[arrays[ssl_mtx][k]] = k
    BY <1>9, <2>1 DEF Inv, NoLockLeft
  <2> QED  BY <1>2, <2>1, <2>2
<1>16. LogFd'
  BY <1>1, <1>2 DEF Inv, LogFd, logVars
<1> QED  BY <1>11, <1>12, <1>13, <1>14, <1>15, <1>16 DEF Inv

LEMMA NextInv == Inv /\ [Next]_vars => Inv'
<1> SUFFICES ASSUME Inv, [Next]_vars PROVE Inv'  OBVIOUS
<1>1. CASE Next
  <2>1. PICK t \in Thread : Advance(t)  BY <1>1 DEF Next
  <2>2. misused' = (misused \/ Misuse')  BY <1>1 DEF Next
  <2>3. CASE LogStep(t)  BY <2>2, <2>3, LogInv
  <2>4. CASE Allocate(t)  BY <2>2, <2>4, AllocateInv
  <2>5. CASE InitMutex(t)  BY <2>2, <2>5, InitMutexInv
  <2>6. CASE InitMutexFails(t) \/ SetCallbacks(t)  BY <2>2, <2>6, EndsInv
  <2>7. CASE \E l \in Lock : EnterUnguarded(t, l) \/ LockCalled(t, l)
    BY <2>2, <2>7, CalledInv
  <2>8. CASE Locked(t)  BY <2>2, <2>8, LockedInv
  <2>9. CASE Leave(t)  BY <2>2, <2>9, LeaveInv
  <2>10. CASE CountLocks(t)  BY <2>2, <2>10, CountLocksInv
  <2>11. CASE LockedRaw(t)  BY <2>2, <2>11, LockedRawInv
  <2> QED
    BY <2>1, <2>3, <2>4, <2>5, <2>6, <2>7, <2>8, <2>9, <2>10, <2>11 DEF Advance, LogStep
<1>2. CASE UNCHANGED vars
  BY <1>2 DEF vars, lockVars, logVars, Inv, Types, Allocated, Pending, Held, Misuse,
     NoLockLeft, LogFd
<1> QED  BY <1>1, <1>2

LEMMA Invariance == Spec => []Inv
<1> QED  BY InitInv, NextInv, PTL DEF Spec
-----------------------------------------------------------------------------
\* The types, with the current array always the last that was allocated.
THEOREM TypeCorrect == Spec => []TypeOK
<1>1. Inv => TypeOK  BY DEF Inv, Types, TypeOK, Array, Mutex, Place
<1> QED  BY <1>1, Invariance, PTL

\* Sections of one lock exclude each other, unless OpenSSL is in use while the
\* library is initialised, or before it is, or the mutex is one an
\* initialisation that failed has not come to: however many threads initialise
\* again between two uses, and whatever an uninitialised mutex lets through.
THEOREM SectionsExclude == Spec => []Exclusion
<1>1. Inv => Exclusion
  <2> SUFFICES ASSUME Inv, NEW t \in Thread, NEW u \in Thread, t # u, n[t] = n[u],
                      at[t] = "inside", at[u] = "inside", ~misused
               PROVE  failed /\ arrays[ssl_mtx][n[t]] = Raw
    BY DEF Exclusion, Inv, Types
  <2>1. arrays[ssl_mtx][n[t]] \in {t, Raw} /\ arrays[ssl_mtx][n[t]] \in {u, Raw}
    BY DEF Inv, Held
  <2>2. arrays[ssl_mtx][n[t]] = Raw  BY <2>1
  <2>3. callback /\ \A v \in Thread : at[v] # "mutexes"
    BY DEF Inv, Held, Misuse, InOpenSSL, InSslInit
  <2>4. ssl_mtx # 0 /\ n[t] \in Lock  BY <2>3 DEF Inv, Allocated
  <2>5. failed  BY <2>2, <2>3, <2>4 DEF Inv, Pending, Types
  <2> QED  BY <2>2, <2>5
<1> QED  BY <1>1, Invariance, PTL

\* No mutex is left locked.
THEOREM NoLockIsLeft == Spec => []NoLockLeft
<1>1. Inv => NoLockLeft  BY DEF Inv
<1> QED  BY <1>1, Invariance, PTL

\* Initialisations that overlap leave no mutex of the last array out.
THEOREM MutexesInitialised == Spec => []AllInitialised
<1>1. Inv => AllInitialised
  BY DEF Inv, Allocated, Pending, AllInitialised, InSslInit
<1> QED  BY <1>1, Invariance, PTL

\* Lines are lost only while a thread that found no log has still to fall back,
\* whichever thread's result of open() each takes for its own.
THEOREM LinesAreWritten == Spec => LinesReachLog
<1>1. Inv /\ [Next]_vars =>
        [lost' = lost \/ \E t \in Thread : at[t] \in {"refused", "unopened"}]_vars
  <2> SUFFICES ASSUME Inv, Next
               PROVE  lost' = lost \/ \E t \in Thread : at[t] \in {"refused", "unopened"}
    OBVIOUS
  <2>1. PICK t \in Thread : Advance(t)  BY DEF Next
  <2>2. CASE EndLine(t)
    BY <2>2 DEF EndLine, Inv, LogFd, Types
  <2>3. CASE ~EndLine(t)
    BY <2>1, <2>3 DEF Advance, BeginInit, LogToStdout, OpenLog, OpenLogFails, LogOpened,
       LogUnopened, LogFallsBack, BeginLine, SkipLine, CountLocks, Allocate,
       InitMutex, InitMutexFails, SetCallbacks, EnterUnguarded, LockCalled, Locked,
       LockedRaw, Leave, logVars
  <2> QED  BY <2>2, <2>3
<1> QED  BY <1>1, Invariance, PTL DEF Spec, LinesReachLog
=============================================================================
