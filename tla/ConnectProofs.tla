--------------------------- MODULE ConnectProofs ----------------------------
(***************************************************************************)
(* Connect for every number of addresses a lookup may give: its types, that*)
(* nothing is kept, that it fails only when exhausted, and that its steps  *)
(* are steps of FcmClient.                                                 *)
(***************************************************************************)
EXTENDS Connect, TLAPS

\* What the attempts on the current list have used of the sockets.
Here ==
  IF phase \in InList
  THEN 2 * (it - 1) + attempt + (IF phase = "socket" THEN 0 ELSE 1) ELSE 0

Places ==
  /\ phase \in InList => addrs \in Lists /\ it \in 1 .. Len(addrs) /\ round < 2
  /\ phase \in {"options", "connecting", "connected"} => sock \in Fd
  /\ phase = "failed" => round = 2

\* The sockets created are at most two for each address tried.
Used ==
  /\ phase # "connected" /\ round = 0 => made <= Here
  /\ phase # "connected" /\ round = 1 => made <= 2 * MaxAddrs + Here
  /\ phase # "connected" /\ round = 2 => made <= 4 * MaxAddrs

Untried(r) == given[r] = 0 /\ \A k \in 1 .. MaxAddrs : refused[r][k] = 0
Untouched(r) == missed[r] = 0 /\ Untried(r)

\* The rounds that are over are used up, the later ones not begun; of the
\* current one the histories tell where the loops are.
Progress ==
  \A r \in {0, 1} :
    /\ phase # "connected" /\ r < round => Exhausted(r)
    /\ r > round => Untouched(r)
    /\ r = round /\ phase \in {"lookup"} \cup InList => missed[r] = lookups
    /\ r = round /\ phase = "lookup" => Untried(r)
    /\ r = round /\ phase \in InList =>
         /\ given[r] = Len(addrs)
         /\ \A k \in 1 .. MaxAddrs :
              refused[r][k] = IF k < it THEN 2 ELSE IF k = it THEN attempt ELSE 0

Inv == TypeOK /\ NothingKept /\ Places /\ Used /\ Progress

-----------------------------------------------------------------------------
\* A list of addresses is a sequence of one to MaxAddrs of them.
LEMMA ListShape ==
  ASSUME NEW l \in Lists
  PROVE  /\ Len(l) \in Nat
         /\ Len(l) \in 1 .. MaxAddrs
         /\ \A k \in 1 .. Len(l) : l[k] \in Family
<1>1. PICK n \in 1 .. MaxAddrs : l \in [1 .. n -> Family]  BY DEF Lists
<1>2. n \in Nat  BY <1>1, ConnectAssumption
<1>3. Len(l) = n
  BY <1>1, <1>2
<1> QED  BY <1>1, <1>2, <1>3

\* The empty list has no address.
LEMMA EmptyList == Len(<<>>) = 0
OBVIOUS

LEMMA InitInv == Init => Inv
<1> SUFFICES ASSUME Init PROVE Inv  OBVIOUS
<1>0. MaxAddrs \in Nat /\ MaxAddrs > 0  BY ConnectAssumption
<1>1. TypeOK
  BY <1>0 DEF Init, TypeOK, Round, Rounds, Lookups, Attempts
<1>2. NothingKept /\ Places  BY DEF Init, NothingKept, Places, InList
<1>3. Used
  BY <1>0 DEF Init, Used, InList, Here
<1>4. Progress
  BY <1>0 DEF Init, Progress, Untried, Untouched, Round, Rounds, InList
<1> QED  BY <1>1, <1>2, <1>3, <1>4 DEF Inv

\* A round whose histories are not written stays as it is.
LEMMA OtherRound ==
  ASSUME NEW r \in {0, 1},
         missed'[r] = missed[r], given'[r] = given[r], refused'[r] = refused[r]
  PROVE  /\ Exhausted(r) <=> Exhausted(r)'
         /\ Untouched(r) <=> Untouched(r)'
         /\ Untried(r) <=> Untried(r)'
BY DEF Exhausted, Untouched, Untried

LEMMA LookupSucceedsInv == Inv /\ LookupSucceeds => Inv'
<1> SUFFICES ASSUME Inv, LookupSucceeds PROVE Inv'  OBVIOUS
<1>0. MaxAddrs \in Nat /\ MaxAddrs > 0  BY ConnectAssumption
<1>1. PICK l \in Lists : addrs' = l /\ given' = [given EXCEPT ![round] = Len(l)]
  BY DEF LookupSucceeds
<1>2. Len(l) \in Nat /\ Len(l) \in 1 .. MaxAddrs  BY ListShape
<1>3. /\ phase = "lookup" /\ phase' = "socket" /\ it' = 1 /\ attempt' = 0
      /\ lists' = lists + 1 /\ round < 2
      /\ UNCHANGED <<round, lookups, sock, open, made, missed, refused>>
  BY DEF LookupSucceeds, Rounds
<1>4. lists = 0 /\ open = {}  BY <1>3 DEF Inv, NothingKept, TypeOK, InList
<1>5. round \in {0, 1} /\ lookups \in Nat /\ given \in [{0, 1} -> 0 .. MaxAddrs]
  BY <1>3 DEF Inv, TypeOK, Round, Rounds, Lookups
<1>6. TypeOK'
  <2>1. given' \in [{0, 1} -> 0 .. MaxAddrs]  BY <1>0, <1>1, <1>2, <1>5
  <2>2. it' \in 0 .. MaxAddrs /\ attempt' \in 0 .. 1 /\ lists' \in {0, 1} /\ addrs' \in Lists
    BY <1>0, <1>1, <1>3, <1>4
  <2>3. Round = {0, 1}  BY DEF Round, Rounds
  <2> QED  BY <1>3, <2>1, <2>2, <2>3 DEF Inv, TypeOK, InList, Attempts
<1>7. NothingKept' /\ Places'
  BY <1>1, <1>2, <1>3, <1>4 DEF NothingKept, Places, InList
<1>8. Used'
  BY <1>0, <1>3, <1>5 DEF Inv, TypeOK, Used, Here, InList
<1>9. Progress'
  <2> SUFFICES ASSUME NEW r \in {0, 1}
               PROVE  /\ phase' # "connected" /\ r < round' => Exhausted(r)'
                      /\ r > round' => Untouched(r)'
                      /\ r = round' => missed'[r] = lookups'
                      /\ r = round' => given'[r] = Len(addrs')
                      /\ r = round' => \A k \in 1 .. MaxAddrs : refused'[r][k] =
                           IF k < it' THEN 2 ELSE IF k = it' THEN attempt' ELSE 0
    BY <1>3 DEF Progress, InList
  <2>1. CASE r = round
    BY <1>0, <1>1, <1>3, <1>5, <2>1 DEF Inv, Progress, Untried
  <2>2. CASE r # round
    <3>1. given'[r] = given[r]  BY <1>1, <1>5, <2>2
    <3> QED  BY <1>3, <2>2, <3>1, OtherRound DEF Inv, Progress
  <2> QED  BY <2>1, <2>2
<1> QED  BY <1>6, <1>7, <1>8, <1>9 DEF Inv

LEMMA LookupFailsInv == Inv /\ LookupFails => Inv'
<1> SUFFICES ASSUME Inv, LookupFails PROVE Inv'  OBVIOUS
<1>0. MaxAddrs \in Nat /\ MaxAddrs > 0  BY ConnectAssumption
<1>1. /\ phase = "lookup" /\ phase' = "lookup" /\ round \in {0, 1} /\ lookups \in 0 .. 3
      /\ missed' = [missed EXCEPT ![round] = Counted(@, 4)]
      /\ \/ lookups < 3 /\ lookups' = lookups + 1 /\ round' = round
         \/ lookups = 3 /\ round' = round + 1 /\ lookups' = 0
      /\ UNCHANGED <<addrs, it, attempt, sock, open, lists, made, given, refused>>
  BY DEF LookupFails, EndRound, Rounds, Lookups, Inv, TypeOK
<1>2. made \in Nat /\ missed \in [{0, 1} -> 0 .. 4]
  BY DEF Inv, TypeOK, Round, Rounds, Lookups
<1>3. missed'[round] = lookups + 1
  BY <1>1, <1>2 DEF Inv, Progress, Counted
<1>4. TypeOK'
  <2>1. missed' \in [{0, 1} -> 0 .. 4]  BY <1>1, <1>2 DEF Counted
  <2>2. round' \in 0 .. 2 /\ lookups' \in 0 .. 3  BY <1>1
  <2>3. Round = {0, 1}  BY DEF Round, Rounds
  <2> QED  BY <1>1, <2>1, <2>2, <2>3 DEF Inv, TypeOK, InList, Rounds, Lookups
<1>5. NothingKept' /\ Places'
  BY <1>1 DEF Inv, NothingKept, Places, InList
<1>6. Used'
  BY <1>0, <1>1, <1>2 DEF Inv, Used, Here, InList
<1>7. Progress'
  <2> SUFFICES ASSUME NEW r \in {0, 1}
               PROVE  /\ r < round' => Exhausted(r)'
                      /\ r > round' => Untouched(r)'
                      /\ r = round' => missed'[r] = lookups' /\ Untried(r)'
    BY <1>1 DEF Progress, InList
  <2>1. Untried(r)' <=> Untried(r)  BY <1>1 DEF Untried
  <2>2. CASE r = round
    BY <1>1, <1>3, <2>1, <2>2 DEF Inv, Progress, Exhausted, Lookups
  <2>3. CASE r # round
    <3>1. missed'[r] = missed[r] /\ given'[r] = given[r] /\ refused'[r] = refused[r]
      BY <1>1, <1>2, <2>3
    <3> QED  BY <1>1, <2>3, <3>1, OtherRound DEF Inv, Progress, Untouched
  <2> QED  BY <2>2, <2>3
<1> QED  BY <1>4, <1>5, <1>6, <1>7 DEF Inv

\* Nothing is tried: the rounds stand where they stood.
LEMMA ProgressKept ==
  ASSUME Inv, UNCHANGED <<round, tried>>,
         \/ /\ phase \in InList /\ phase' \in InList
            /\ UNCHANGED <<lookups, addrs, it, attempt>>
         \/ phase' = "connected" /\ phase \in InList
         \/ phase' = "failed" /\ phase = "lookup"
  PROVE  Progress'
<1> SUFFICES ASSUME NEW r \in {0, 1}
             PROVE  /\ phase' # "connected" /\ r < round' => Exhausted(r)'
                    /\ r > round' => Untouched(r)'
                    /\ r = round' /\ phase' \in {"lookup"} \cup InList => missed'[r] = lookups'
                    /\ r = round' /\ phase' = "lookup" => Untried(r)'
                    /\ r = round' /\ phase' \in InList =>
                         /\ given'[r] = Len(addrs')
                         /\ \A k \in 1 .. MaxAddrs : refused'[r][k] =
                              IF k < it' THEN 2 ELSE IF k = it' THEN attempt' ELSE 0
  BY DEF Progress, InList
<1>1. /\ Exhausted(r)' <=> Exhausted(r)
      /\ Untouched(r)' <=> Untouched(r)
      /\ missed' = missed /\ given' = given /\ refused' = refused
  BY DEF Exhausted, Untouched, Untried, tried
<1> QED  BY <1>1 DEF Inv, Progress, InList

LEMMA GiveUpInv == Inv /\ GiveUp => Inv'
<1> SUFFICES ASSUME Inv, GiveUp PROVE Inv'  OBVIOUS
<1>1. /\ phase = "lookup" /\ phase' = "failed" /\ round = 2
      /\ UNCHANGED <<round, lookups, addrs, it, attempt, sock, open, lists, made, tried>>
  BY DEF GiveUp, Rounds
<1>2. TypeOK'  BY <1>1 DEF Inv, TypeOK, InList, tried
<1>3. NothingKept' /\ Places'  BY <1>1 DEF Inv, NothingKept, Places, InList
<1>4. Used'  BY <1>1 DEF Inv, Used, Here, InList
<1>5. Progress'  BY <1>1, ProgressKept
<1> QED  BY <1>2, <1>3, <1>4, <1>5 DEF Inv

LEMMA SocketCreatedInv == Inv /\ SocketCreated => Inv'
<1> SUFFICES ASSUME Inv, SocketCreated PROVE Inv'  OBVIOUS
<1>0. MaxAddrs \in Nat /\ MaxAddrs > 0  BY ConnectAssumption
<1>1. /\ phase = "socket" /\ phase' = "options" /\ made' = made + 1
      /\ UNCHANGED <<round, lookups, addrs, it, attempt, lists, tried>>
  BY DEF SocketCreated
<1>2. open = {}  BY <1>1 DEF Inv, NothingKept
<1>3. sock' \in Fd /\ open' = {sock'}  BY <1>2 DEF SocketCreated
<1>4. addrs \in Lists /\ it \in 1 .. Len(addrs) /\ round < 2
  BY <1>1 DEF Inv, Places, InList
<1>5. Len(addrs) \in 1 .. MaxAddrs /\ Len(addrs) \in Nat  BY <1>4, ListShape
<1>6. round \in {0, 1} /\ made \in Nat /\ attempt \in {0, 1} /\ it \in Nat /\ it <= MaxAddrs
  BY <1>0, <1>4, <1>5 DEF Inv, TypeOK, Rounds, Attempts
<1>7. Used'
  BY <1>0, <1>1, <1>4, <1>6 DEF Inv, Used, Here, InList
<1>8. made' <= 4 * MaxAddrs
  BY <1>0, <1>1, <1>6 DEF Inv, Used, Here, InList
<1>9. TypeOK'
  <2>1. made' \in 0 .. Rounds * Attempts * MaxAddrs
    BY <1>0, <1>1, <1>6, <1>8 DEF Rounds, Attempts
  <2>2. sock' \in Fd \cup {Invalid} /\ open' \subseteq Fd  BY <1>3
  <2> QED  BY <1>1, <2>1, <2>2 DEF Inv, TypeOK, InList, tried
<1>10. NothingKept' /\ Places'
  BY <1>1, <1>3 DEF Inv, NothingKept, Places, InList
<1>11. Progress'  BY <1>1, ProgressKept DEF InList
<1> QED  BY <1>7, <1>9, <1>10, <1>11 DEF Inv

LEMMA OptionsSetInv == Inv /\ OptionsSet => Inv'
<1> SUFFICES ASSUME Inv, OptionsSet PROVE Inv'  OBVIOUS
<1>1. /\ phase = "options" /\ phase' = "connecting"
      /\ UNCHANGED <<round, lookups, addrs, it, attempt, sock, open, lists, made, tried>>
  BY DEF OptionsSet
<1>2. TypeOK'  BY <1>1 DEF Inv, TypeOK, InList, tried
<1>3. NothingKept' /\ Places'  BY <1>1 DEF Inv, NothingKept, Places, InList
<1>4. Used'  BY <1>1 DEF Inv, Used, Here, InList
<1>5. Progress'  BY <1>1, ProgressKept DEF InList
<1> QED  BY <1>2, <1>3, <1>4, <1>5 DEF Inv

LEMMA ConnectedInv == Inv /\ Connected => Inv'
<1> SUFFICES ASSUME Inv, Connected PROVE Inv'  OBVIOUS
<1>1. /\ phase = "connecting" /\ phase' = "connected" /\ lists' = lists - 1
      /\ addrs' = <<>> /\ it' = 0 /\ attempt' = 0
      /\ UNCHANGED <<round, lookups, sock, open, made, tried>>
  BY DEF Connected
<1>2. lists = 1  BY <1>1 DEF Inv, NothingKept, InList
<1>3. TypeOK'
  BY <1>1, <1>2, ConnectAssumption DEF Inv, TypeOK, InList, Attempts, tried
<1>4. NothingKept' /\ Places'  BY <1>1, <1>2 DEF Inv, NothingKept, Places, InList
<1>5. Used'  BY <1>1 DEF Used, Here, InList
<1>6. Progress'  BY <1>1, ProgressKept DEF InList
<1> QED  BY <1>3, <1>4, <1>5, <1>6 DEF Inv

\* An attempt that fails, wherever: its socket is closed.
Failing ==
  /\ phase \in InList
  /\ AttemptFails /\ Refusal
  /\ open' = {} /\ sock' \in Fd \cup {Invalid}
  /\ made' = made

LEMMA FailingInv == Inv /\ Failing => Inv'
<1> SUFFICES ASSUME Inv, Failing PROVE Inv'  OBVIOUS
<1>0. MaxAddrs \in Nat /\ MaxAddrs > 0  BY ConnectAssumption
<1>1. phase \in InList /\ addrs \in Lists /\ it \in 1 .. Len(addrs) /\ round < 2 /\ lists = 1
  BY DEF Failing, Inv, Places, NothingKept
<1>2. Len(addrs) \in 1 .. MaxAddrs /\ Len(addrs) \in Nat
  BY <1>1, ListShape
<1>3. /\ round \in {0, 1} /\ made \in Nat /\ attempt \in {0, 1} /\ it \in Nat
      /\ it \in 1 .. MaxAddrs /\ lookups \in 0 .. 3
      /\ refused \in [{0, 1} -> [1 .. MaxAddrs -> 0 .. 2]]
  BY <1>0, <1>1, <1>2 DEF Inv, TypeOK, Round, Rounds, Attempts, Lookups
<1>4. /\ open' = {} /\ sock' \in Fd \cup {Invalid} /\ made' = made
      /\ missed' = missed /\ given' = given
      /\ refused' = [refused EXCEPT ![round][it] = Counted(@, 2)]
  BY DEF Failing, Refusal, Attempts
<1>5. /\ missed[round] = lookups /\ given[round] = Len(addrs)
      /\ \A k \in 1 .. MaxAddrs : refused[round][k] =
           IF k < it THEN 2 ELSE IF k = it THEN attempt ELSE 0
  BY <1>1, <1>3 DEF Inv, Progress
<1>6. /\ refused' \in [{0, 1} -> [1 .. MaxAddrs -> 0 .. 2]]
      /\ \A k \in 1 .. MaxAddrs : refused'[round][k] =
           IF k < it THEN 2 ELSE IF k = it THEN attempt + 1 ELSE 0
      /\ \A r \in {0, 1} : r # round => refused'[r] = refused[r]
  <2>1. refused'[round] = [refused[round] EXCEPT ![it] = Counted(@, 2)]  BY <1>3, <1>4
  <2>2. Counted(refused[round][it], 2) = attempt + 1  BY <1>3, <1>5 DEF Counted
  <2>3. attempt + 1 \in 0 .. 2  BY <1>3
  <2>4. refused[round] \in [1 .. MaxAddrs -> 0 .. 2]  BY <1>3
  <2>5. refused'[round] = [refused[round] EXCEPT ![it] = attempt + 1]
    BY <2>1, <2>2, <2>4
  <2>6. refused'[round] \in [1 .. MaxAddrs -> 0 .. 2]  BY <2>3, <2>4, <2>5
  <2>7. refused' = [refused EXCEPT ![round] = [refused[round] EXCEPT ![it] = Counted(@, 2)]]
    BY <1>4
  <2>8. refused' \in [{0, 1} -> [1 .. MaxAddrs -> 0 .. 2]]
    BY <1>3, <2>1, <2>6, <2>7
  <2>9. \A r \in {0, 1} : r # round => refused'[r] = refused[r]  BY <1>3, <2>7
  <2>10. ASSUME NEW k \in 1 .. MaxAddrs
         PROVE  refused'[round][k] = IF k < it THEN 2 ELSE IF k = it THEN attempt + 1 ELSE 0
    <3>1. CASE k = it
      <4>1. refused'[round][k] = attempt + 1  BY <2>4, <2>5, <3>1
      <4>2. ~(k < it)  BY <1>3, <3>1
      <4> QED  BY <3>1, <4>1, <4>2
    <3>2. CASE k # it
      <4>1. refused'[round][k] = refused[round][k]  BY <2>4, <2>5, <3>2
      <4> QED  BY <1>5, <3>2, <4>1
    <3> QED  BY <3>1, <3>2
  <2> QED  BY <2>8, <2>9, <2>10
<1>7. Round = {0, 1}  BY DEF Round, Rounds
<1>8. CASE /\ phase' = "socket" /\ lists' = lists /\ addrs' = addrs
           /\ round' = round /\ lookups' = lookups
           /\ \/ attempt = 0 /\ attempt' = 1 /\ it' = it
              \/ attempt = 1 /\ it < Len(addrs) /\ it' = it + 1 /\ attempt' = 0
  <2>1. it' \in 1 .. Len(addrs) /\ attempt' \in {0, 1}  BY <1>1, <1>2, <1>3, <1>8
  <2>2. it' \in 0 .. MaxAddrs  BY <1>0, <1>2, <2>1
  <2>3. TypeOK'
    BY <1>3, <1>4, <1>6, <1>7, <1>8, <2>1, <2>2 DEF Inv, TypeOK, InList, Attempts
  <2>4. NothingKept' /\ Places'
    BY <1>1, <1>4, <1>8, <2>1 DEF NothingKept, Places, InList
  <2>5. Used'
    BY <1>0, <1>1, <1>2, <1>3, <1>4, <1>8 DEF Inv, Used, Here, InList
  <2>6. Progress'
    <3> SUFFICES ASSUME NEW r \in {0, 1}
                 PROVE  /\ r < round' => Exhausted(r)'
                        /\ r > round' => Untouched(r)'
                        /\ r = round' => missed'[r] = lookups' /\ given'[r] = Len(addrs')
                        /\ r = round' => \A k \in 1 .. MaxAddrs : refused'[r][k] =
                             IF k < it' THEN 2 ELSE IF k = it' THEN attempt' ELSE 0
      BY <1>8 DEF Progress, InList
    <3>1. CASE r = round
      <4>1. \A k \in 1 .. MaxAddrs : refused'[round][k] =
              IF k < it' THEN 2 ELSE IF k = it' THEN attempt' ELSE 0
        BY <1>3, <1>6, <1>8
      <4> QED  BY <1>3, <1>4, <1>5, <1>8, <3>1, <4>1
    <3>2. CASE r # round
      BY <1>1, <1>4, <1>6, <1>8, <3>2, OtherRound DEF Inv, Progress, InList
    <3> QED  BY <3>1, <3>2
  <2> QED  BY <2>3, <2>4, <2>5, <2>6 DEF Inv
<1>9. CASE /\ phase' = "lookup" /\ lists' = lists - 1 /\ addrs' = <<>> /\ it' = 0
           /\ round' = round + 1 /\ lookups' = 0 /\ attempt' = 0
           /\ attempt = 1 /\ it = Len(addrs)
  <2>1. TypeOK'
    BY <1>0, <1>1, <1>3, <1>4, <1>6, <1>7, <1>9
       DEF Inv, TypeOK, InList, Attempts, Rounds, Lookups
  <2>2. NothingKept' /\ Places'
    BY <1>1, <1>4, <1>9 DEF NothingKept, Places, InList
  <2>3. Used'
    BY <1>0, <1>1, <1>2, <1>3, <1>4, <1>9 DEF Inv, Used, Here, InList
  <2>4. given'[round] > 0 /\ \A k \in 1 .. given'[round] : refused'[round][k] = 2
    <3>1. given'[round] = Len(addrs) /\ Len(addrs) > 0  BY <1>2, <1>4, <1>5
    <3>2. \A k \in 1 .. Len(addrs) : refused'[round][k] = 2
      BY <1>0, <1>2, <1>3, <1>6, <1>9
    <3> QED  BY <1>2, <3>1, <3>2
  <2>5. Progress'
    <3> SUFFICES ASSUME NEW r \in {0, 1}
                 PROVE  /\ r < round' => Exhausted(r)'
                        /\ r >= round' => Untouched(r)'
      BY <1>3, <1>9 DEF Progress, InList, Untouched
    <3>1. CASE r = round  BY <1>3, <1>9, <2>4, <3>1 DEF Exhausted, Attempts
    <3>2. CASE r # round
      BY <1>1, <1>3, <1>4, <1>6, <1>9, <3>2, OtherRound DEF Inv, Progress, InList
    <3> QED  BY <3>1, <3>2
  <2> QED  BY <2>1, <2>2, <2>3, <2>5 DEF Inv
<1>10. QED
  BY <1>3, <1>8, <1>9 DEF Failing, AttemptFails, ListEnds, EndRound, Attempts

LEMMA FailuresInv == Inv /\ (SocketFails \/ OptionsFail \/ Refused) => Inv'
<1> SUFFICES ASSUME Inv, SocketFails \/ OptionsFail \/ Refused PROVE Inv'  OBVIOUS
<1>1. CASE SocketFails
  BY <1>1, FailingInv DEF SocketFails, Failing, Inv, NothingKept, TypeOK, InList
<1>2. CASE OptionsFail
  BY <1>2, FailingInv DEF OptionsFail, CloseSocket, Failing, Inv, NothingKept, InList
<1>3. CASE Refused
  BY <1>3, FailingInv DEF Refused, CloseSocket, Failing, Inv, NothingKept, InList
<1> QED  BY <1>1, <1>2, <1>3

LEMMA NextInv == Inv /\ [Next]_vars => Inv'
<1> SUFFICES ASSUME Inv, [Next]_vars PROVE Inv'  OBVIOUS
<1>1. CASE Next
  BY <1>1, LookupSucceedsInv, LookupFailsInv, SocketCreatedInv, FailuresInv,
     OptionsSetInv, ConnectedInv, GiveUpInv DEF Next
<1>2. CASE UNCHANGED vars
  BY <1>2 DEF vars, tried, Inv, TypeOK, NothingKept, Places, Used, Here, Progress,
     Exhausted, Untouched, Untried
<1> QED  BY <1>1, <1>2

LEMMA Invariance == Spec => []Inv
<1> QED  BY InitInv, NextInv, PTL DEF Spec

\* The types, and among them that no list is freed twice and that the sockets
\* of one call are bounded by the addresses.
THEOREM TypeCorrect == Spec => []TypeOK
<1>1. Inv => TypeOK  BY DEF Inv
<1> QED  BY <1>1, Invariance, PTL

\* Lists are freed and sockets closed on every way out.
THEOREM KeepsNothing == Spec => []NothingKept
<1>1. Inv => NothingKept  BY DEF Inv
<1> QED  BY <1>1, Invariance, PTL

\* However long the lists, it fails only when both rounds are used up: in each
\* four lookups failed, or every address of the list was tried twice.
THEOREM ExhaustsFirst == Spec => []FailsOnlyExhausted
<1>1. Inv => FailsOnlyExhausted
  BY DEF Inv, Progress, Places, FailsOnlyExhausted, Round, Rounds
<1> QED  BY <1>1, Invariance, PTL
-----------------------------------------------------------------------------
\* FcmClient sees nothing of a step that creates, closes and returns nothing.
LEMMA Invisible ==
  ASSUME UNCHANGED <<sock, open, made>>,
         \/ phase \in {"lookup", "socket"} /\ phase' \in {"lookup", "socket"}
         \/ phase \in {"options", "connecting"} /\ phase' \in {"options", "connecting"}
  PROVE  UNCHANGED Client!vars
BY DEF Client!vars, PcOf

LEMMA Creating == Inv /\ Inv' /\ SocketCreated => Client!CreateSocket(Caller)
<1> SUFFICES ASSUME Inv, Inv', SocketCreated PROVE Client!CreateSocket(Caller)
  OBVIOUS
<1>1. phase = "socket" /\ phase' = "options" /\ made' = made + 1
  BY DEF SocketCreated
<1>2. open = {}  BY <1>1 DEF Inv, NothingKept
<1>3. PICK f \in Fd : sock' = f /\ open' = {f}  BY <1>2 DEF SocketCreated
<1>4. made < Rounds * Attempts * MaxAddrs
  BY <1>1, ConnectAssumption DEF Inv, TypeOK, Rounds, Attempts
<1> QED
  BY <1>1, <1>2, <1>3, <1>4 DEF PcOf, Client!CreateSocket, Client!Step, Client!callVars, Client!NoCall

LEMMA Refusing == Inv /\ (OptionsFail \/ Refused) => Client!ConnectRefused(Caller)
<1> SUFFICES ASSUME Inv, OptionsFail \/ Refused PROVE Client!ConnectRefused(Caller)
  OBVIOUS
<1>1. /\ phase \in {"options", "connecting"} /\ phase' \in {"lookup", "socket"}
      /\ sock' = Invalid /\ open' = open \ {sock} /\ made' = made
  BY DEF OptionsFail, Refused, CloseSocket, AttemptFails, ListEnds, EndRound
<1>2. open = {sock} /\ sock \in Fd  BY <1>1 DEF Inv, NothingKept, Places
<1>3. phase # "failed" /\ phase' # "failed"  BY <1>1
<1>4. Client!Step(Caller, "connecting", "connect")  BY <1>1 DEF Client!Step, PcOf
<1>5. [f \in Fd |-> IF f \in open' THEN 1 ELSE 0]
        = [[f \in Fd |-> IF f \in open THEN 1 ELSE 0] EXCEPT ![sock] = 0]
  BY <1>1, <1>2
<1> QED
  BY <1>1, <1>3, <1>4, <1>5 DEF Client!ConnectRefused, Client!callVars, Client!NoCall

LEMMA Connecting == Inv /\ Connected => Client!Connect(Caller)
<1> SUFFICES ASSUME Inv, Connected PROVE Client!Connect(Caller)  OBVIOUS
<1>1. phase = "connecting" /\ phase' = "connected" /\ UNCHANGED <<sock, open, made>>
  BY DEF Connected
<1> QED
  BY <1>1 DEF PcOf, Client!Connect, Client!Step, Client!My, Client!callVars, Request

LEMMA GivingUp == Inv /\ GiveUp => Client!ConnectFails(Caller)
<1> SUFFICES ASSUME Inv, GiveUp PROVE Client!ConnectFails(Caller)  OBVIOUS
<1>1. phase = "lookup" /\ phase' = "failed" /\ UNCHANGED <<sock, open, made>>
  BY DEF GiveUp
<1>2. Client!Header(Caller) = {"header"}  BY DEF Client!Header, Client!My, Request
<1>3. Client!Memory(Caller, {}, {"header"})  BY <1>1 DEF Client!Memory, Client!Block
<1>4. Client!Step(Caller, "connect", "return")  BY <1>1 DEF Client!Step, PcOf
<1> QED
  BY <1>1, <1>2, <1>3, <1>4 DEF Client!ConnectFails, Client!connVars, Client!callVars

\* env_connect_to_url does what FcmClient takes it to do: its sockets are
\* bounded, each is closed before the next, and it hands over one or none.
THEOREM ConnectStepsOfClient == Spec => StepsOfClient
<1>1. Inv /\ Inv' /\ [Next]_vars => [Client!Advance(Caller)]_(Client!vars)
  <2> SUFFICES ASSUME Inv, Inv', [Next]_vars
               PROVE  Client!Advance(Caller) \/ UNCHANGED Client!vars
    OBVIOUS
  <2>1. CASE LookupSucceeds  BY <2>1, Invisible DEF LookupSucceeds
  <2>2. CASE LookupFails  BY <2>2, Invisible DEF LookupFails, EndRound
  <2>3. CASE SocketCreated  BY <2>3, Creating DEF Client!Advance
  <2>4. CASE SocketFails
    BY <2>4, Invisible DEF SocketFails, AttemptFails, ListEnds, EndRound
  <2>5. CASE OptionsSet  BY <2>5, Invisible DEF OptionsSet
  <2>6. CASE OptionsFail \/ Refused  BY <2>6, Refusing DEF Client!Advance
  <2>7. CASE Connected  BY <2>7, Connecting DEF Client!Advance
  <2>8. CASE GiveUp  BY <2>8, GivingUp DEF Client!Advance
  <2>9. CASE UNCHANGED vars  BY <2>9 DEF vars, Client!vars
  <2> QED  BY <2>1, <2>2, <2>3, <2>4, <2>5, <2>6, <2>7, <2>8, <2>9 DEF Next
<1> QED  BY <1>1, Invariance, PTL DEF Spec, StepsOfClient
=============================================================================
