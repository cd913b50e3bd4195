-------------------------- MODULE FcmClientProofs ---------------------------
(***************************************************************************)
(* What FcmClient.cfg checks for two threads, two descriptors and three    *)
(* calls, proved for any number of each.  The invariant is built in layers,*)
(* each inductive with those before it: which thread is in which call      *)
(* (CallInv), which descriptor belongs to which call (FdInv), what each    *)
(* server has received (SrvInv), and which blocks of each call are         *)
(* allocated (HeapInv).  From the first three follows that FcmClient       *)
(* implements FcmApi.                                                      *)
(***************************************************************************)
EXTENDS FcmClient, TLAPS

-----------------------------------------------------------------------------
\* Types of the variables that are the same in every step but a few.
CallTypes ==
  /\ pc \in [Thread -> Places]
  /\ cur \in [Thread -> Call \cup {NoCall}]
  /\ attempts \in [Thread -> 0 .. MaxAttempts]
  /\ dead \in [Thread -> BOOLEAN]
  /\ ret \in [Thread -> {0, 1}]
  /\ begun \in 0 .. MaxCalls
  /\ req \in [Call -> Requests]
  /\ leaked \subseteq Call
  /\ out \in [Call -> {"none", "running", "response", "null", "freed"}]
  /\ process \in {"up", "segv", "sigpipe", "exited"}

\* A thread is in a call of its own, one that has begun and not yet returned.
CallInv ==
  /\ CallTypes
  /\ \A t \in Thread : pc[t] = "idle" <=> cur[t] = NoCall
  /\ \A t \in Thread : cur[t] <= begun
  /\ \A t \in Thread : pc[t] # "idle" => out[cur[t]] = "running"
  /\ \A t, u \in Thread : t # u /\ cur[t] = cur[u] => cur[t] = NoCall
  /\ \A c \in Call : out[c] = "none" <=> c > begun

\* The steps of a call that return to the application.
Settling(t) == ParseFails(t) \/ EncryptFails(t) \/ Return(t)

\* The steps that stay inside the call.
Inner(t) ==
  \/ ParseCrashes(t) \/ ParseSucceeds(t)
  \/ Decode(t) \/ DecodeCrashes(t) \/ Encrypt(t)
  \/ EncryptCrashes(t) \/ BuildHeader(t)
  \/ CreateSocket(t) \/ ConnectRefused(t) \/ Connect(t) \/ ConnectFails(t)
  \/ Handshake(t) \/ HandshakeFails(t) \/ HandshakeCrashes(t)
  \/ SendHeader(t) \/ SendHeaderCrashes(t) \/ SendHeaderFails(t)
  \/ SendPayload(t) \/ SendPayloadFails(t) \/ SendKilled(t)
  \/ Receive(t) \/ ReceiveFails(t)
  \/ Close(t) \/ OutOfMemory(t)

LEMMA AdvanceCases ==
  ASSUME NEW t, Advance(t)
  PROVE  Settling(t) \/ Inner(t)
<1> QED
  BY DEF Advance, Settling, Inner

\* Calls are numbers, and none of them is NoCall.
LEMMA CallFacts ==
  /\ Call \subseteq Nat \ {0}
  /\ NoCall = 0 /\ NoCall \notin Call
<1> QED
  BY DEF Call, NoCall

-----------------------------------------------------------------------------
(* The first layer. *)

\* An inner step moves its thread from one place of a call to another.
LEMMA InnerFrame ==
  ASSUME CallTypes, NEW t \in Thread, Inner(t)
  PROVE  /\ UNCHANGED <<cur, begun, req, out>>
         /\ process = "up"
         /\ pc[t] # "idle"
         /\ \E to \in Places \ {"idle"} : pc' = [pc EXCEPT ![t] = to]
<1> USE DEF Step, connVars, callVars, Places, Connected, CallTypes
<1>1. CASE ParseSucceeds(t) \/ Decode(t) \/ DecodeCrashes(t) \/ Encrypt(t)
             \/ EncryptCrashes(t) \/ BuildHeader(t)
             \/ ParseCrashes(t) \/ HandshakeCrashes(t)
  BY <1>1 DEF ParseSucceeds, Decode, DecodeCrashes, Encrypt,
              EncryptCrashes, BuildHeader, ParseCrashes, HandshakeCrashes
<1>2. CASE CreateSocket(t) \/ ConnectRefused(t) \/ Connect(t) \/ ConnectFails(t)
  BY <1>2 DEF CreateSocket, ConnectRefused, Connect, ConnectFails
<1>3. CASE Handshake(t) \/ HandshakeFails(t) \/ SendHeader(t)
             \/ SendHeaderCrashes(t) \/ SendHeaderFails(t)
  BY <1>3 DEF Handshake, HandshakeFails, SendHeader, SendHeaderCrashes,
              SendHeaderFails
<1>4. CASE SendPayload(t) \/ SendPayloadFails(t) \/ SendKilled(t)
  BY <1>4 DEF SendPayload, SendPayloadFails, SendKilled
<1>5. CASE Receive(t) \/ ReceiveFails(t) \/ Close(t) \/ OutOfMemory(t)
  BY <1>5 DEF Receive, ReceiveFails, Close, OutOfMemory
<1> QED
  BY <1>1, <1>2, <1>3, <1>4, <1>5 DEF Inner

\* An inner step keeps the types of what it changes.
LEMMA InnerTypes ==
  ASSUME CallTypes, NEW t \in Thread, Inner(t), cur[t] \in Call
  PROVE  /\ attempts' \in [Thread -> 0 .. MaxAttempts]
         /\ dead' \in [Thread -> BOOLEAN]
         /\ ret' \in [Thread -> {0, 1}]
         /\ leaked' \subseteq Call
         /\ process' \in {"up", "segv", "sigpipe", "exited"}
<1> USE ClientAssumption DEF connVars, callVars, CallTypes
<1>1. CASE ParseSucceeds(t) \/ Decode(t) \/ DecodeCrashes(t) \/ Encrypt(t)
             \/ EncryptCrashes(t) \/ BuildHeader(t)
             \/ ParseCrashes(t) \/ HandshakeCrashes(t)
  BY <1>1 DEF ParseSucceeds, Decode, DecodeCrashes, Encrypt,
              EncryptCrashes, BuildHeader, ParseCrashes, HandshakeCrashes
<1>2. CASE CreateSocket(t)
  BY <1>2 DEF CreateSocket
<1>3. CASE ConnectRefused(t) \/ Connect(t) \/ ConnectFails(t)
  BY <1>3 DEF ConnectRefused, Connect, ConnectFails
<1>4. CASE Handshake(t) \/ HandshakeFails(t) \/ SendHeader(t)
             \/ SendHeaderCrashes(t) \/ SendHeaderFails(t)
  BY <1>4 DEF Handshake, HandshakeFails, SendHeader, SendHeaderCrashes,
              SendHeaderFails
<1>5. CASE SendPayload(t) \/ SendPayloadFails(t) \/ SendKilled(t)
  BY <1>5 DEF SendPayload, SendPayloadFails, SendKilled
<1>6. CASE Receive(t) \/ ReceiveFails(t) \/ Close(t) \/ OutOfMemory(t)
  BY <1>6 DEF Receive, ReceiveFails, Close, OutOfMemory
<1> QED
  BY <1>1, <1>2, <1>3, <1>4, <1>5, <1>6 DEF Inner

\* A settling step ends the call of its thread and touches no other variable
\* of the first layer.
LEMMA SettlingFrame ==
  ASSUME NEW t \in Thread, Settling(t)
  PROVE  /\ process = "up" /\ pc[t] # "idle"
         /\ pc' = [pc EXCEPT ![t] = "idle"]
         /\ cur' = [cur EXCEPT ![t] = NoCall]
         /\ \E r \in {"response", "null"} :
              /\ out' = [out EXCEPT ![cur[t]] = r]
              /\ r = "response" => pc[t] = "return" /\ ret[t] = 0
         /\ UNCHANGED <<attempts, dead, ret, begun, req, leaked, process,
                        sock, kfd, srv>>
<1> USE DEF Settling, ParseFails, EncryptFails, Return, Step, Settle, connVars
<1>1. CASE ParseFails(t)
  BY <1>1
<1>2. CASE EncryptFails(t)
  BY <1>2
<1>3. CASE Return(t)
  BY <1>3
<1> QED
  BY <1>1, <1>2, <1>3

LEMMA InvokePreservesCallInv ==
  ASSUME CallInv, NEW t \in Thread, Invoke(t)
  PROVE  CallInv'
<1>1. begun + 1 \in Call /\ begun \in Nat
  BY ClientAssumption DEF CallInv, CallTypes, Invoke, Call
<1>2. CallTypes'
  BY <1>1, ClientAssumption
     DEF CallInv, CallTypes, Invoke, Step, connVars, Places, Call
<1>3. /\ cur' = [cur EXCEPT ![t] = begun + 1]
      /\ out' = [out EXCEPT ![begun + 1] = "running"]
      /\ pc' = [pc EXCEPT ![t] = "parse"]
      /\ begun' = begun + 1 /\ pc[t] = "idle"
  BY DEF Invoke, Step
<1>4. \A u \in Thread : cur[u] \in Nat /\ cur[u] <= begun /\ cur[u] # begun + 1
  <2> SUFFICES ASSUME NEW u \in Thread
               PROVE  cur[u] \in Nat /\ cur[u] <= begun /\ cur[u] # begun + 1
    OBVIOUS
  <2>1. cur[u] \in Nat
    BY ClientAssumption DEF CallInv, CallTypes, Call, NoCall
  <2>2. cur[u] <= begun
    BY DEF CallInv
  <2> QED
    BY <1>1, <2>1, <2>2
<1>5. \A u \in Thread : u # t => pc'[u] = pc[u] /\ cur'[u] = cur[u]
  BY <1>3 DEF CallInv, CallTypes
<1>6. pc'[t] = "parse" /\ cur'[t] = begun + 1 /\ out'[begun + 1] = "running"
  BY <1>1, <1>3 DEF CallInv, CallTypes
<1>7. \A c \in Call : c # begun + 1 => out'[c] = out[c]
  BY <1>3 DEF CallInv, CallTypes
<1>8. \A u \in Thread : pc'[u] = "idle" <=> cur'[u] = NoCall
  BY <1>1, <1>5, <1>6, CallFacts DEF CallInv
<1>9. \A u \in Thread : cur'[u] <= begun'
  BY <1>1, <1>3, <1>4, <1>5, <1>6
<1>10. \A u \in Thread : pc'[u] # "idle" => out'[cur'[u]] = "running"
  BY <1>4, <1>5, <1>6, <1>7, CallFacts DEF CallInv, CallTypes
<1>11. \A u, v \in Thread : u # v /\ cur'[u] = cur'[v] => cur'[u] = NoCall
  BY <1>4, <1>5, <1>6 DEF CallInv
<1>12. \A c \in Call : out'[c] = "none" <=> c > begun'
  BY <1>1, <1>3, <1>6, <1>7, CallFacts DEF CallInv
<1> QED
  BY <1>2, <1>8, <1>9, <1>10, <1>11, <1>12 DEF CallInv

LEMMA SettlingPreservesCallInv ==
  ASSUME CallInv, NEW t \in Thread, Settling(t)
  PROVE  CallInv'
<1>1. cur[t] \in Call /\ out[cur[t]] = "running" /\ NoCall \in Call \cup {NoCall}
  BY SettlingFrame DEF CallInv, CallTypes
<1>2. PICK r \in {"response", "null"} : out' = [out EXCEPT ![cur[t]] = r]
  BY SettlingFrame
<1>3. /\ pc' = [pc EXCEPT ![t] = "idle"]
      /\ cur' = [cur EXCEPT ![t] = NoCall]
      /\ UNCHANGED <<attempts, dead, ret, begun, req, leaked, process>>
  BY SettlingFrame
<1>4. CallTypes'
  BY <1>1, <1>2, <1>3 DEF CallInv, CallTypes, Places
<1>5. \A u \in Thread : u # t => pc'[u] = pc[u] /\ cur'[u] = cur[u]
  BY <1>3 DEF CallInv, CallTypes
<1>6. pc'[t] = "idle" /\ cur'[t] = NoCall /\ out'[cur[t]] = r
  BY <1>1, <1>2, <1>3 DEF CallInv, CallTypes
<1>7. \A c \in Call : c # cur[t] => out'[c] = out[c]
  BY <1>2 DEF CallInv, CallTypes
<1>8. \A u \in Thread : /\ pc'[u] = "idle" <=> cur'[u] = NoCall
                        /\ pc'[u] # "idle" => out'[cur'[u]] = "running"
  BY <1>1, <1>5, <1>6, <1>7 DEF CallInv, CallTypes
<1>9. \A u \in Thread : cur'[u] <= begun'
  BY <1>3, <1>5, <1>6, ClientAssumption DEF CallInv, CallTypes, NoCall
<1>10. \A u, v \in Thread : u # v /\ cur'[u] = cur'[v] => cur'[u] = NoCall
  BY <1>5, <1>6 DEF CallInv
<1>11. \A c \in Call : out'[c] = "none" <=> c > begun'
  BY <1>1, <1>3, <1>6, <1>7 DEF CallInv
<1> QED
  BY <1>4, <1>8, <1>9, <1>10, <1>11 DEF CallInv

LEMMA InnerPreservesCallInv ==
  ASSUME CallInv, NEW t \in Thread, Inner(t)
  PROVE  CallInv'
<1>1. CallTypes /\ cur[t] \in Call
  BY InnerFrame DEF CallInv, CallTypes
<1>2. PICK to \in Places \ {"idle"} : pc' = [pc EXCEPT ![t] = to]
  BY <1>1, InnerFrame
<1>3. UNCHANGED <<cur, begun, req, out>> /\ pc[t] # "idle"
  BY <1>1, InnerFrame
<1>4. CallTypes'
  BY <1>1, <1>2, <1>3, InnerTypes DEF CallTypes
<1>5. \A u \in Thread : pc'[u] = "idle" <=> pc[u] = "idle"
  BY <1>1, <1>2, <1>3 DEF CallTypes
<1> QED
  BY <1>3, <1>4, <1>5 DEF CallInv

LEMMA FreePreservesCallInv ==
  ASSUME CallInv, NEW c \in Call, FreeResponse(c)
  PROVE  CallInv'
<1>1. /\ out[c] = "response" /\ out' = [out EXCEPT ![c] = "freed"]
      /\ UNCHANGED <<pc, cur, attempts, dead, ret, begun, req, leaked, process>>
  BY DEF FreeResponse, connVars
<1>2. CallTypes'
  BY <1>1 DEF CallInv, CallTypes
<1>3. /\ out'[c] = "freed"
      /\ \A d \in Call : d # c => out'[d] = out[d]
  BY <1>1 DEF CallInv, CallTypes
<1>4. \A t \in Thread : pc[t] # "idle" => cur[t] \in Call /\ cur[t] # c
  BY <1>1 DEF CallInv, CallTypes
<1> QED
  BY <1>1, <1>2, <1>3, <1>4 DEF CallInv

\* Every step, and stuttering, is one of these.
LEMMA StepCases ==
  ASSUME [Next]_vars
  PROVE  \/ \E t \in Thread : Invoke(t) \/ Settling(t) \/ Inner(t)
         \/ \E c \in Call : FreeResponse(c)
         \/ UNCHANGED vars
<1> QED
  BY AdvanceCases DEF Next

THEOREM CallInvariance == Spec => []CallInv
<1>1. Init => CallInv
  BY ClientAssumption
     DEF Init, CallInv, CallTypes, Places, Connected, Call, NoCall
<1>2. ASSUME CallInv, [Next]_vars
      PROVE  CallInv'
  <2>1. CASE UNCHANGED vars
    BY <1>2, <2>1 DEF vars, CallInv, CallTypes
  <2> QED
    BY <1>2, <2>1, StepCases, InvokePreservesCallInv, SettlingPreservesCallInv,
       InnerPreservesCallInv, FreePreservesCallInv
<1> QED
  BY <1>1, <1>2, PTL DEF Spec

-----------------------------------------------------------------------------
(* The second layer. *)

\* A thread has a descriptor exactly where it is connected, and the kernel
\* holds it for the call the thread is in.
FdInv ==
  /\ sock \in [Thread -> Fd \cup {Invalid}]
  /\ kfd \in [Fd -> Call \cup {NoCall}]
  /\ \A t \in Thread :
       pc[t] \in Connected => sock[t] \in Fd /\ kfd[sock[t]] = cur[t]
  /\ \A t \in Thread : pc[t] \notin Connected => sock[t] = Invalid
  /\ DescriptorsAccounted

\* The steps that open, close or abandon a descriptor.
Descriptor(t) ==
  CreateSocket(t) \/ ConnectRefused(t) \/ HandshakeFails(t) \/ Close(t)

\* All other inner steps leave descriptors alone and keep their thread
\* connected or not.
LEMMA InnerDescriptors ==
  ASSUME CallTypes, NEW t \in Thread, Inner(t), ~Descriptor(t)
  PROVE  /\ UNCHANGED <<sock, kfd, leaked>>
         /\ \E to \in Places :
              /\ pc' = [pc EXCEPT ![t] = to]
              /\ to \in Connected <=> pc[t] \in Connected
<1> USE DEF Step, connVars, Places, Connected, CallTypes, Descriptor
<1>1. CASE ParseSucceeds(t) \/ Decode(t) \/ DecodeCrashes(t) \/ Encrypt(t)
             \/ EncryptCrashes(t) \/ BuildHeader(t)
             \/ ParseCrashes(t) \/ HandshakeCrashes(t)
  BY <1>1 DEF ParseSucceeds, Decode, DecodeCrashes, Encrypt,
              EncryptCrashes, BuildHeader, ParseCrashes, HandshakeCrashes
<1>2. CASE Connect(t) \/ ConnectFails(t)
  BY <1>2 DEF Connect, ConnectFails
<1>3. CASE Handshake(t) \/ SendHeader(t) \/ SendHeaderCrashes(t)
             \/ SendHeaderFails(t)
  BY <1>3 DEF Handshake, SendHeader, SendHeaderCrashes, SendHeaderFails
<1>4. CASE SendPayload(t) \/ SendPayloadFails(t) \/ SendKilled(t)
  BY <1>4 DEF SendPayload, SendPayloadFails, SendKilled
<1>5. CASE Receive(t) \/ ReceiveFails(t) \/ OutOfMemory(t)
  BY <1>5 DEF Receive, ReceiveFails, OutOfMemory
<1> QED
  BY <1>1, <1>2, <1>3, <1>4, <1>5 DEF Inner

\* Steps that change neither descriptors nor who is connected keep FdInv.
LEMMA QuietPreservesFdInv ==
  ASSUME FdInv, UNCHANGED <<sock, kfd, leaked>>,
         \A u \in Thread : pc'[u] \in Connected <=> pc[u] \in Connected,
         \A u \in Thread : pc[u] \in Connected => cur'[u] = cur[u]
  PROVE  FdInv'
<1> QED
  BY DEF FdInv, DescriptorsAccounted

\* Two connected threads hold different descriptors.
LEMMA DistinctDescriptors ==
  ASSUME CallInv, FdInv
  PROVE  \A t, u \in Thread :
           pc[t] \in Connected /\ t # u => sock[u] # sock[t]
<1> QED
  BY ClientAssumption, CallFacts DEF CallInv, FdInv, Connected

LEMMA CreateSocketPreservesFdInv ==
  ASSUME CallInv, FdInv, NEW t \in Thread, CreateSocket(t)
  PROVE  FdInv'
<1>1. PICK f \in Fd : /\ kfd[f] = NoCall
                      /\ kfd' = [kfd EXCEPT ![f] = cur[t]]
                      /\ sock' = [sock EXCEPT ![t] = f]
  BY DEF CreateSocket
<1>2. /\ pc' = [pc EXCEPT ![t] = "connecting"] /\ pc[t] = "connect"
      /\ UNCHANGED <<cur, leaked>>
  BY DEF CreateSocket, Step, callVars
<1>3. /\ sock' \in [Thread -> Fd \cup {Invalid}]
      /\ kfd' \in [Fd -> Call \cup {NoCall}]
  BY <1>1 DEF FdInv, CallInv, CallTypes
<1>4. /\ pc'[t] = "connecting" /\ sock'[t] = f /\ kfd'[f] = cur[t]
      /\ \A u \in Thread : u # t => pc'[u] = pc[u] /\ sock'[u] = sock[u]
      /\ \A g \in Fd : g # f => kfd'[g] = kfd[g]
  BY <1>1, <1>2 DEF FdInv, CallInv, CallTypes
<1>5. \A u \in Thread : pc[u] \in Connected => sock[u] # f
  BY <1>1, CallFacts DEF FdInv, CallInv, Connected
<1>6. "connecting" \in Connected
  BY DEF Connected
<1>7. \A u \in Thread : pc'[u] \in Connected
        => sock'[u] \in Fd /\ kfd'[sock'[u]] = cur'[u]
  BY <1>2, <1>4, <1>5 DEF FdInv
<1>8. \A u \in Thread : pc'[u] \notin Connected => sock'[u] = Invalid
  BY <1>4, <1>6 DEF FdInv
<1>9. DescriptorsAccounted'
  BY <1>2, <1>4, <1>6 DEF FdInv, DescriptorsAccounted, Connected
<1> QED
  BY <1>3, <1>7, <1>8, <1>9 DEF FdInv

LEMMA ClosingPreservesFdInv ==
  ASSUME CallInv, FdInv, NEW t \in Thread, ConnectRefused(t) \/ Close(t)
  PROVE  FdInv'
<1>1. /\ kfd' = [kfd EXCEPT ![sock[t]] = NoCall]
      /\ sock' = [sock EXCEPT ![t] = Invalid]
      /\ pc[t] \in Connected
      /\ UNCHANGED <<cur, leaked>>
  BY DEF ConnectRefused, Close, Step, callVars, Connected
<1>2. PICK to \in {"connect", "return"} : pc' = [pc EXCEPT ![t] = to]
  BY DEF ConnectRefused, Close, Step
<1>3. to \notin Connected
  BY DEF Connected
<1>4. /\ sock' \in [Thread -> Fd \cup {Invalid}]
      /\ kfd' \in [Fd -> Call \cup {NoCall}]
  BY <1>1 DEF FdInv
<1>5. sock[t] \in Fd
  BY <1>1 DEF FdInv
<1>6. /\ pc'[t] = to /\ sock'[t] = Invalid /\ kfd'[sock[t]] = NoCall
      /\ \A u \in Thread : u # t => pc'[u] = pc[u] /\ sock'[u] = sock[u]
      /\ \A g \in Fd : g # sock[t] => kfd'[g] = kfd[g]
  BY <1>1, <1>2, <1>5 DEF FdInv, CallInv, CallTypes
<1>7. \A u \in Thread : u # t => sock[u] # sock[t]
  BY <1>1, DistinctDescriptors
<1>8. \A u \in Thread : /\ pc'[u] \in Connected
                           => sock'[u] \in Fd /\ kfd'[sock'[u]] = cur'[u]
                        /\ pc'[u] \notin Connected => sock'[u] = Invalid
  BY <1>1, <1>3, <1>6, <1>7 DEF FdInv
<1>9. DescriptorsAccounted'
  BY <1>1, <1>3, <1>6, <1>7 DEF FdInv, DescriptorsAccounted
<1> QED
  BY <1>4, <1>8, <1>9 DEF FdInv

LEMMA AbandonPreservesFdInv ==
  ASSUME CallInv, FdInv, NEW t \in Thread, HandshakeFails(t)
  PROVE  FdInv'
<1>1. /\ pc' = [pc EXCEPT ![t] = "return"] /\ pc[t] = "tls"
      /\ sock' = [sock EXCEPT ![t] = Invalid]
      /\ leaked' = leaked \cup {cur[t]}
      /\ UNCHANGED <<cur, kfd>>
  BY DEF HandshakeFails, Step, callVars
<1>2. /\ pc'[t] = "return" /\ sock'[t] = Invalid
      /\ \A u \in Thread : u # t => pc'[u] = pc[u] /\ sock'[u] = sock[u]
  BY <1>1 DEF FdInv, CallInv, CallTypes
<1>3. "return" \notin Connected
  BY DEF Connected
<1>4. sock' \in [Thread -> Fd \cup {Invalid}]
  BY <1>1 DEF FdInv
<1> QED
  BY <1>1, <1>2, <1>3, <1>4 DEF FdInv, DescriptorsAccounted

THEOREM FdInvariance == Spec => []FdInv
<1>1. Init => FdInv
  BY DEF Init, FdInv, DescriptorsAccounted, Connected
<1>2. ASSUME CallInv, FdInv, [Next]_vars
      PROVE  FdInv'
  <2>1. ASSUME NEW t \in Thread, Invoke(t)
        PROVE  FdInv'
    <3>1. /\ UNCHANGED <<sock, kfd, leaked>> /\ pc[t] = "idle"
          /\ pc' = [pc EXCEPT ![t] = "parse"]
          /\ cur' = [cur EXCEPT ![t] = begun + 1]
      BY <2>1 DEF Invoke, Step, connVars
    <3> QED
      BY <1>2, <3>1, QuietPreservesFdInv DEF CallInv, CallTypes, Connected
  <2>2. ASSUME NEW t \in Thread, Settling(t)
        PROVE  FdInv'
    <3>1. pc[t] \notin Connected
      BY <2>2 DEF Settling, ParseFails, EncryptFails, Return, Step, Connected
    <3> QED
      BY <1>2, <2>2, <3>1, SettlingFrame, QuietPreservesFdInv
         DEF CallInv, CallTypes, Connected
  <2>3. ASSUME NEW t \in Thread, Inner(t)
        PROVE  FdInv'
    <3>1. CASE Descriptor(t)
      BY <1>2, <3>1, CreateSocketPreservesFdInv, ClosingPreservesFdInv,
         AbandonPreservesFdInv DEF Descriptor
    <3>2. CASE ~Descriptor(t)
      <4>1. UNCHANGED <<sock, kfd, leaked>> /\ UNCHANGED cur
        BY <1>2, <2>3, <3>2, InnerDescriptors, InnerFrame DEF CallInv
      <4>2. \A u \in Thread : pc'[u] \in Connected <=> pc[u] \in Connected
        BY <1>2, <2>3, <3>2, InnerDescriptors DEF CallInv, CallTypes
      <4> QED
        BY <1>2, <4>1, <4>2, QuietPreservesFdInv
    <3> QED
      BY <3>1, <3>2
  <2>4. ASSUME NEW c \in Call, FreeResponse(c)
        PROVE  FdInv'
    BY <1>2, <2>4, QuietPreservesFdInv DEF FreeResponse, connVars
  <2>5. CASE UNCHANGED vars
    BY <1>2, <2>5, QuietPreservesFdInv DEF vars
  <2> QED
    BY <1>2, <2>1, <2>2, <2>3, <2>4, <2>5, StepCases
<1> QED
  BY <1>1, <1>2, CallInvariance, PTL DEF Spec

\* While a call holds a descriptor, it is open and its own, and nobody else
\* holds it, for any number of threads, descriptors and calls.
THEOREM DescriptorsOwned == Spec => []OwnDescriptor
<1>1. CallInv /\ FdInv => OwnDescriptor
  BY DistinctDescriptors DEF FdInv, OwnDescriptor
<1> QED
  BY <1>1, CallInvariance, FdInvariance, PTL

\* An open descriptor belongs to a call that uses it or whose TLS handshake
\* has failed.
THEOREM DescriptorsAreAccounted == Spec => []DescriptorsAccounted
<1>1. FdInv => DescriptorsAccounted
  BY DEF FdInv
<1> QED
  BY <1>1, FdInvariance, PTL

-----------------------------------------------------------------------------
(* The third layer. *)

\* The places of a call before anything was sent.
Unsent == {"parse", "decode", "encrypt", "build", "connect", "connecting", "tls",
           "header"}

\* What the server of thread t's call has received.
SrvAt(t) ==
  /\ pc[t] \in Unsent => srv[cur[t]] = <<>>
  /\ pc[t] = "payload" => srv[cur[t]] = << <<cur[t], "header">> >>
  /\ pc[t] = "receive" => srv[cur[t]] = Whole(cur[t])
  /\ pc[t] \in {"close", "return"} /\ ret[t] = 0 => srv[cur[t]] = Whole(cur[t])

\* A server has what its call has sent, all of it once there is a response.
SrvInv ==
  /\ srv \in [Call -> Seq(Call \X {"header", "payload"})]
  /\ NoCrossTalk
  /\ \A t \in Thread : SrvAt(t)
  /\ \A c \in Call : out[c] = "none" => srv[c] = <<>>
  /\ \A c \in Call : out[c] \in {"response", "freed"} => srv[c] = Whole(c)

\* What a server can have received has the type of it.
LEMMA WholeFacts ==
  ASSUME NEW c \in Call
  PROVE  {<<>>, << <<c, "header">> >>, Whole(c)}
           \subseteq Seq(Call \X {"header", "payload"})
<1> DEFINE Part == Call \X {"header", "payload"}
           h == <<c, "header">>
           p == <<c, "payload">>
<1>1. h \in Part /\ p \in Part
  OBVIOUS
<1>2. <<>> \in Seq(Part) /\ <<h>> \in Seq(Part) /\ <<h, p>> \in Seq(Part)
  <2> HIDE DEF Part, h, p
  <2> QED
    BY <1>1
<1>3. Whole(c) = <<h, p>> \/ Whole(c) = <<h>>
  BY DEF Whole
<1> QED
  BY <1>2, <1>3, Zenon

\* Appending to a sequence of one element.
LEMMA AppendOne ==
  ASSUME NEW a, NEW b
  PROVE  Append(<<a>>, b) = <<a, b>>
<1> DEFINE S == {a, b}
           s == Append(<<a>>, b)
<1>1. <<a>> \in Seq(S) /\ b \in S
  OBVIOUS
<1>2. s \in Seq(S) /\ Len(s) = 2 /\ s[1] = a /\ s[2] = b
  BY <1>1
<1>3. /\ <<a, b>> \in Seq(S) /\ Len(<<a, b>>) = 2
      /\ <<a, b>>[1] = a /\ <<a, b>>[2] = b
  OBVIOUS
<1>4. \A q, r \in Seq(S) :
        Len(q) = 2 /\ Len(r) = 2 /\ q[1] = r[1] /\ q[2] = r[2] => q = r
  OBVIOUS
<1>5. s = <<a, b>>
  BY <1>2, <1>3, <1>4, Zenon
<1> QED
  BY <1>5

\* A step of thread t inside its call keeps SrvInv if it leaves the other
\* servers and threads alone and its own server as its new place says.
LEMMA LocalPreservesSrvInv ==
  ASSUME CallInv, SrvInv, NEW t \in Thread, cur[t] \in Call,
         UNCHANGED <<cur, req, out>>, out[cur[t]] = "running",
         \A u \in Thread : u # t => pc'[u] = pc[u] /\ ret'[u] = ret[u],
         srv' \in [Call -> {srv'[c] : c \in Call}],
         \A c \in Call : c # cur[t] => srv'[c] = srv[c],
         srv'[cur[t]] \in {<<>>, << <<cur[t], "header">> >>, Whole(cur[t])},
         SrvAt(t)'
  PROVE  SrvInv'
<1>1. \A c \in Call : Whole(c)' = Whole(c)
  BY DEF Whole
<1>2. \A c \in Call : srv'[c] \in {<<>>, << <<c, "header">> >>, Whole(c)}
  BY DEF SrvInv, NoCrossTalk
<1>3. srv' \in [Call -> Seq(Call \X {"header", "payload"})]
  BY <1>2, WholeFacts
<1>4. NoCrossTalk'
  BY <1>1, <1>2 DEF NoCrossTalk
<1>5. \A u \in Thread : SrvAt(u)'
  <2> SUFFICES ASSUME NEW u \in Thread, u # t
               PROVE  SrvAt(u)'
    OBVIOUS
  <2>1. CASE pc[u] = "idle"
    BY <2>1 DEF SrvAt, Unsent
  <2>2. CASE pc[u] # "idle"
    <3>1. cur[u] \in Call /\ cur[u] # cur[t]
      BY <2>2, CallFacts DEF CallInv, CallTypes
    <3> QED
      BY <1>1, <3>1 DEF SrvAt, SrvInv
  <2> QED
    BY <2>1, <2>2
<1>6. \A c \in Call : /\ out'[c] = "none" => srv'[c] = <<>>
                      /\ out'[c] \in {"response", "freed"} => srv'[c] = Whole(c)
  BY DEF SrvInv
<1> QED
  BY <1>1, <1>3, <1>4, <1>5, <1>6 DEF SrvInv

\* What a connected thread sends reaches the server of its own call.
LEMMA ReceivesFacts ==
  ASSUME CallInv, FdInv, SrvInv, NEW t \in Thread, NEW part,
         pc[t] \in Connected, Receives(t, part)
  PROVE  /\ srv' = [srv EXCEPT ![cur[t]] = Append(srv[cur[t]], <<cur[t], part>>)]
         /\ cur[t] \in Call
<1>1. cur[t] \in Call /\ kfd[sock[t]] = cur[t]
  BY DEF CallInv, CallTypes, FdInv, Connected
<1> QED
  BY <1>1, CallFacts DEF Receives

LEMMA SendHeaderPreservesSrvInv ==
  ASSUME CallInv, FdInv, SrvInv, NEW t \in Thread, SendHeader(t)
  PROVE  SrvInv'
<1>1. /\ pc' = [pc EXCEPT ![t] = "payload"] /\ pc[t] = "header"
      /\ UNCHANGED <<cur, req, out, ret>> /\ Receives(t, "header")
  BY DEF SendHeader, Step, callVars
<1>2. /\ srv' = [srv EXCEPT ![cur[t]] = Append(srv[cur[t]], <<cur[t], "header">>)]
      /\ cur[t] \in Call
  BY <1>1, ReceivesFacts DEF Connected
<1>3. srv[cur[t]] = <<>>
  BY <1>1 DEF SrvInv, SrvAt, Unsent
<1>4. Append(srv[cur[t]], <<cur[t], "header">>) = << <<cur[t], "header">> >>
  BY <1>3
<1>5. /\ srv'[cur[t]] = << <<cur[t], "header">> >>
      /\ \A c \in Call : c # cur[t] => srv'[c] = srv[c]
      /\ srv' \in [Call -> {srv'[c] : c \in Call}]
  BY <1>2, <1>4 DEF SrvInv
<1>6. pc'[t] = "payload" /\ (\A u \in Thread : u # t => pc'[u] = pc[u])
  BY <1>1 DEF CallInv, CallTypes
<1>7. SrvAt(t)'
  BY <1>1, <1>5, <1>6 DEF SrvAt, Unsent
<1> QED
  BY <1>1, <1>2, <1>5, <1>6, <1>7, LocalPreservesSrvInv DEF CallInv

LEMMA SendPayloadPreservesSrvInv ==
  ASSUME CallInv, FdInv, SrvInv, NEW t \in Thread, SendPayload(t)
  PROVE  SrvInv'
<1>1. /\ pc' = [pc EXCEPT ![t] = "receive"] /\ pc[t] = "payload"
      /\ UNCHANGED <<cur, req, out, ret>>
  BY DEF SendPayload, Step, callVars
<1>2. cur[t] \in Call /\ srv[cur[t]] = << <<cur[t], "header">> >>
  BY <1>1 DEF CallInv, CallTypes, SrvInv, SrvAt
<1>3. /\ srv'[cur[t]] = Whole(cur[t])
      /\ \A c \in Call : c # cur[t] => srv'[c] = srv[c]
      /\ srv' \in [Call -> {srv'[c] : c \in Call}]
  <2>1. CASE My(t).message
    <3>1. srv' = [srv EXCEPT ![cur[t]] = Append(srv[cur[t]], <<cur[t], "payload">>)]
      BY <1>1, <2>1, ReceivesFacts DEF SendPayload, Connected
    <3> DEFINE h == <<cur[t], "header">>
               p == <<cur[t], "payload">>
    <3>2. Append(srv[cur[t]], p) = <<h, p>>
      <4>1. srv[cur[t]] = <<h>>
        BY <1>2
      <4>2. Append(<<h>>, p) = <<h, p>>
        BY AppendOne, Zenon
      <4> QED
        BY <4>1, <4>2, Zenon
    <3>3. Whole(cur[t]) = <<h, p>>
      BY <2>1 DEF Whole, My
    <3> QED
      BY <1>2, <3>1, <3>2, <3>3 DEF SrvInv
  <2>2. CASE ~My(t).message
    <3>1. srv' = srv
      BY <2>2 DEF SendPayload
    <3> QED
      BY <1>2, <2>2, <3>1 DEF Whole, My, SrvInv
  <2> QED
    BY <2>1, <2>2
<1>4. pc'[t] = "receive" /\ (\A u \in Thread : u # t => pc'[u] = pc[u])
  BY <1>1 DEF CallInv, CallTypes
<1>5. SrvAt(t)'
  <2>1. Whole(cur[t])' = Whole(cur[t])
    BY <1>1 DEF Whole
  <2> QED
    BY <1>1, <1>3, <1>4, <2>1 DEF SrvAt, Unsent
<1> QED
  BY <1>1, <1>2, <1>3, <1>4, <1>5, LocalPreservesSrvInv DEF CallInv

\* The steps that send nothing leave the call where its server still has the
\* right part of the request: failing sets ret.
LEMMA SilentSteps ==
  ASSUME CallTypes, NEW t \in Thread, Inner(t), ~SendHeader(t), ~SendPayload(t)
  PROVE  /\ srv' = srv
         /\ \A u \in Thread : u # t => ret'[u] = ret[u]
         /\ \/ pc'[t] \in Unsent /\ pc[t] \in Unsent
            \/ pc'[t] \in {"close", "return"} /\ ret'[t] = 1
            \/ pc'[t] = "close" /\ pc[t] = "receive"
            \/ pc'[t] = "return" /\ pc[t] = "close" /\ ret'[t] = ret[t]
            \/ pc'[t] = pc[t] /\ ret'[t] = ret[t]
<1> USE DEF Step, CallTypes, Unsent
<1>1. CASE ParseSucceeds(t) \/ Decode(t) \/ DecodeCrashes(t) \/ Encrypt(t)
             \/ EncryptCrashes(t) \/ BuildHeader(t)
             \/ ParseCrashes(t) \/ HandshakeCrashes(t)
  BY <1>1 DEF ParseSucceeds, Decode, DecodeCrashes, Encrypt,
              EncryptCrashes, BuildHeader, ParseCrashes, HandshakeCrashes
<1>2. CASE CreateSocket(t) \/ ConnectRefused(t) \/ Connect(t) \/ ConnectFails(t)
  BY <1>2 DEF CreateSocket, ConnectRefused, Connect, ConnectFails
<1>3. CASE Handshake(t) \/ HandshakeFails(t)
             \/ SendHeaderCrashes(t) \/ SendHeaderFails(t)
  BY <1>3 DEF Handshake, HandshakeFails, SendHeaderCrashes, SendHeaderFails
<1>4. CASE SendPayloadFails(t) \/ SendKilled(t)
  BY <1>4 DEF SendPayloadFails, SendKilled
<1>5. CASE Receive(t) \/ ReceiveFails(t) \/ Close(t) \/ OutOfMemory(t)
  BY <1>5 DEF Receive, ReceiveFails, Close, OutOfMemory
<1> QED
  BY <1>1, <1>2, <1>3, <1>4, <1>5 DEF Inner

LEMMA SilentPreservesSrvInv ==
  ASSUME CallInv, SrvInv, NEW t \in Thread, Inner(t), ~SendHeader(t),
         ~SendPayload(t)
  PROVE  SrvInv'
<1>1. CallTypes
  BY DEF CallInv
<1>2. /\ UNCHANGED <<cur, req, out>> /\ pc[t] # "idle"
      /\ \A u \in Thread : u # t => pc'[u] = pc[u]
  BY <1>1, InnerFrame DEF CallTypes
<1>3. cur[t] \in Call /\ out[cur[t]] = "running"
  BY <1>2 DEF CallInv, CallTypes
<1>4. srv' = srv /\ (\A u \in Thread : u # t => ret'[u] = ret[u])
  BY <1>1, SilentSteps
<1>5. Whole(cur[t])' = Whole(cur[t])
  BY <1>2 DEF Whole
<1>6. SrvAt(t)'
  <2>1. SrvAt(t) /\ srv'[cur'[t]] = srv[cur[t]]
    BY <1>2, <1>4 DEF SrvInv
  <2>2. CASE pc'[t] \in Unsent /\ pc[t] \in Unsent
    BY <2>1, <2>2 DEF SrvAt, Unsent
  <2>3. CASE pc'[t] \in {"close", "return"} /\ ret'[t] = 1
    BY <2>3 DEF SrvAt, Unsent
  <2>4. CASE pc'[t] = "close" /\ pc[t] = "receive"
    BY <1>2, <1>5, <2>1, <2>4 DEF SrvAt, Unsent
  <2>5. CASE pc'[t] = "return" /\ pc[t] = "close" /\ ret'[t] = ret[t]
    BY <1>2, <1>5, <2>1, <2>5 DEF SrvAt, Unsent
  <2>6. CASE pc'[t] = pc[t] /\ ret'[t] = ret[t]
    BY <1>2, <1>5, <2>1, <2>6 DEF SrvAt
  <2> QED
    BY <1>1, <2>2, <2>3, <2>4, <2>5, <2>6, SilentSteps
<1>7. /\ srv'[cur[t]] \in {<<>>, << <<cur[t], "header">> >>, Whole(cur[t])}
      /\ srv' \in [Call -> {srv'[c] : c \in Call}]
  BY <1>3, <1>4 DEF SrvInv, NoCrossTalk
<1> QED
  BY <1>2, <1>3, <1>4, <1>6, <1>7, LocalPreservesSrvInv

\* The steps at the ends of a call keep SrvInv: a response is given out only
\* from the place where the server has the whole request.
LEMMA InvokePreservesSrvInv ==
  ASSUME CallInv, SrvInv, NEW t \in Thread, Invoke(t)
  PROVE  SrvInv'
<1>1. /\ begun + 1 \in Call /\ out[begun + 1] = "none"
      /\ UNCHANGED <<srv, req, ret>>
      /\ pc' = [pc EXCEPT ![t] = "parse"]
      /\ cur' = [cur EXCEPT ![t] = begun + 1]
      /\ out' = [out EXCEPT ![begun + 1] = "running"]
  BY ClientAssumption DEF CallInv, CallTypes, Invoke, Step, Call
<1>2. \A c \in Call : Whole(c)' = Whole(c)
  BY <1>1 DEF Whole
<1>3. /\ pc'[t] = "parse" /\ cur'[t] = begun + 1
      /\ \A u \in Thread : u # t => pc'[u] = pc[u] /\ cur'[u] = cur[u]
      /\ out'[begun + 1] = "running"
      /\ \A c \in Call : c # begun + 1 => out'[c] = out[c]
  BY <1>1 DEF CallInv, CallTypes
<1>4. srv[begun + 1] = <<>>
  BY <1>1 DEF SrvInv
<1>5. SrvAt(t)'
  BY <1>1, <1>3, <1>4 DEF SrvAt, Unsent
<1>6. \A u \in Thread : u # t => SrvAt(u)'
  <2> SUFFICES ASSUME NEW u \in Thread, u # t
               PROVE  SrvAt(u)'
    OBVIOUS
  <2>1. SrvAt(u) /\ pc'[u] = pc[u] /\ cur'[u] = cur[u]
    BY <1>3 DEF SrvInv
  <2>2. CASE pc[u] = "idle"
    BY <2>1, <2>2 DEF SrvAt, Unsent
  <2>3. CASE pc[u] # "idle"
    <3>1. cur[u] \in Call
      BY <2>3 DEF CallInv, CallTypes
    <3> QED
      BY <1>1, <1>2, <2>1, <3>1 DEF SrvAt
  <2> QED
    BY <2>2, <2>3
<1>7. NoCrossTalk'
  BY <1>1, <1>2 DEF SrvInv, NoCrossTalk
<1>8. \A c \in Call : /\ out'[c] = "none" => srv'[c] = <<>>
                      /\ out'[c] \in {"response", "freed"} => srv'[c] = Whole(c)'
  BY <1>1, <1>2, <1>3 DEF SrvInv
<1> QED
  BY <1>1, <1>5, <1>6, <1>7, <1>8 DEF SrvInv

LEMMA SettlingPreservesSrvInv ==
  ASSUME CallInv, SrvInv, NEW t \in Thread, Settling(t)
  PROVE  SrvInv'
<1>1. /\ cur[t] \in Call
      /\ pc' = [pc EXCEPT ![t] = "idle"]
      /\ cur' = [cur EXCEPT ![t] = NoCall]
      /\ UNCHANGED <<srv, req, ret>>
  BY SettlingFrame DEF CallInv, CallTypes
<1>2. PICK r \in {"response", "null"} :
        /\ out' = [out EXCEPT ![cur[t]] = r]
        /\ r = "response" => pc[t] = "return" /\ ret[t] = 0
  BY SettlingFrame
<1>3. /\ pc'[t] = "idle"
      /\ \A u \in Thread : u # t => pc'[u] = pc[u] /\ cur'[u] = cur[u]
      /\ out'[cur[t]] = r
      /\ \A c \in Call : c # cur[t] => out'[c] = out[c]
  BY <1>1, <1>2 DEF CallInv, CallTypes
<1>4. \A c \in Call : Whole(c)' = Whole(c)
  BY <1>1 DEF Whole
<1>5. \A u \in Thread : SrvAt(u)'
  <2> SUFFICES ASSUME NEW u \in Thread
               PROVE  SrvAt(u)'
    OBVIOUS
  <2>1. CASE pc'[u] = "idle"
    BY <2>1 DEF SrvAt, Unsent
  <2>2. CASE pc'[u] # "idle"
    <3>1. u # t /\ SrvAt(u) /\ pc'[u] = pc[u] /\ cur'[u] = cur[u]
      BY <1>3, <2>2 DEF SrvInv
    <3>2. cur[u] \in Call
      BY <2>2, <3>1 DEF CallInv, CallTypes
    <3> QED
      BY <1>1, <1>4, <3>1, <3>2 DEF SrvAt
  <2> QED
    BY <2>1, <2>2
<1>6. NoCrossTalk'
  BY <1>1, <1>4 DEF SrvInv, NoCrossTalk
<1>7. r = "response" => srv[cur[t]] = Whole(cur[t])
  BY <1>2 DEF SrvInv, SrvAt
<1>8. \A c \in Call : /\ out'[c] = "none" => srv'[c] = <<>>
                      /\ out'[c] \in {"response", "freed"} => srv'[c] = Whole(c)'
  BY <1>1, <1>3, <1>4, <1>7 DEF SrvInv
<1> QED
  BY <1>1, <1>5, <1>6, <1>8 DEF SrvInv

LEMMA QuietPreservesSrvInv ==
  ASSUME CallInv, SrvInv, UNCHANGED <<pc, cur, ret, req, srv>>,
         \A c \in Call : \/ out'[c] = out[c]
                         \/ out[c] = "response" /\ out'[c] = "freed"
  PROVE  SrvInv'
<1>1. \A c \in Call : Whole(c)' = Whole(c)
  BY DEF Whole
<1>2. \A u \in Thread : SrvAt(u)'
  <2> SUFFICES ASSUME NEW u \in Thread
               PROVE  SrvAt(u)'
    OBVIOUS
  <2>1. SrvAt(u) /\ (pc[u] = "idle" \/ cur[u] \in Call)
    BY DEF SrvInv, CallInv, CallTypes
  <2> QED
    BY <1>1, <2>1 DEF SrvAt, Unsent
<1>3. NoCrossTalk'
  BY <1>1 DEF SrvInv, NoCrossTalk
<1> QED
  BY <1>1, <1>2, <1>3 DEF SrvInv

THEOREM SrvInvariance == Spec => []SrvInv
<1>1. Init => SrvInv
  BY DEF Init, SrvInv, SrvAt, NoCrossTalk, Unsent
<1>2. ASSUME CallInv, FdInv, SrvInv, [Next]_vars
      PROVE  SrvInv'
  <2>1. ASSUME NEW t \in Thread, Inner(t)
        PROVE  SrvInv'
    BY <1>2, <2>1, SendHeaderPreservesSrvInv, SendPayloadPreservesSrvInv,
       SilentPreservesSrvInv
  <2>2. ASSUME NEW c \in Call, FreeResponse(c)
        PROVE  SrvInv'
    <3>1. /\ UNCHANGED <<pc, cur, ret, req, srv>>
          /\ \A d \in Call : \/ out'[d] = out[d]
                             \/ out[d] = "response" /\ out'[d] = "freed"
      BY <1>2, <2>2 DEF FreeResponse, CallInv, CallTypes
    <3> QED
      BY <1>2, <3>1, QuietPreservesSrvInv
  <2>3. CASE UNCHANGED vars
    BY <1>2, <2>3, QuietPreservesSrvInv DEF vars
  <2> QED
    BY <1>2, <2>1, <2>2, <2>3, StepCases, InvokePreservesSrvInv,
       SettlingPreservesSrvInv
<1> QED
  BY <1>1, <1>2, CallInvariance, FdInvariance, PTL DEF Spec

\* A server receives the request of the call that connected to it or its
\* beginning, whatever the other threads do with the descriptor table.
THEOREM ServersSeeOwnCalls == Spec => []NoCrossTalk
<1>1. SrvInv => NoCrossTalk
  BY DEF SrvInv
<1> QED
  BY <1>1, SrvInvariance, PTL

-----------------------------------------------------------------------------
(* FcmClient implements FcmApi: what an application sees of each state. *)
Result == [c \in Call |-> IF out[c] = "freed" THEN "response" ELSE out[c]]
Delivered == {c \in Call : srv[c] = Whole(c)}

\* Steps of the client that an application cannot see.
Unseen == Result' = Result /\ Delivered' = Delivered /\ process' = process

LEMMA UnseenStutters ==
  ASSUME Unseen
  PROVE  UNCHANGED Api!apiVars
<1> QED
  BY DEF Unseen, Result, Delivered, Api!apiVars

\* No prefix of a request is the whole of it.
LEMMA PrefixesDiffer ==
  ASSUME NEW c \in Call
  PROVE  /\ <<>> # Whole(c)
         /\ req[c].message => << <<c, "header">> >> # Whole(c)
<1> DEFINE h == <<c, "header">>
           p == <<c, "payload">>
<1>1. Len(<<>>) = 0 /\ Len(<<h>>) = 1 /\ Len(<<h, p>>) = 2
  <2> HIDE DEF h, p
  <2> QED
    OBVIOUS
<1>2. <<>> # <<h>> /\ <<>> # <<h, p>> /\ <<h>> # <<h, p>>
  <2> HIDE DEF h, p
  <2> QED
    BY <1>1
<1> QED
  BY <1>2, Zenon DEF Whole

\* A step that sends changes what one server has, the one of a running call
\* that did not have the whole request.
LEMMA SendingSteps ==
  ASSUME CallInv, FdInv, SrvInv, NEW t \in Thread, SendHeader(t) \/ SendPayload(t)
  PROVE  /\ cur[t] \in Call /\ out[cur[t]] = "running"
         /\ UNCHANGED <<req, out, process>> /\ process = "up"
         /\ \A c \in Call : c # cur[t] => srv'[c] = srv[c]
         /\ srv' = srv \/ srv[cur[t]] # Whole(cur[t])
<1>1. /\ UNCHANGED <<req, out, process>> /\ process = "up"
      /\ pc[t] \in {"header", "payload"}
  BY DEF SendHeader, SendPayload, Step, callVars
<1>2. cur[t] \in Call /\ out[cur[t]] = "running"
  BY <1>1 DEF CallInv, CallTypes
<1>3. CASE SendHeader(t)
  <2>1. pc[t] = "header" /\ Receives(t, "header")
    BY <1>3 DEF SendHeader, Step
  <2>2. \A c \in Call : c # cur[t] => srv'[c] = srv[c]
    BY <2>1, ReceivesFacts DEF Connected, SrvInv
  <2>3. srv[cur[t]] = <<>>
    BY <2>1 DEF SrvInv, SrvAt, Unsent
  <2> QED
    BY <1>1, <1>2, <2>2, <2>3, PrefixesDiffer
<1>4. CASE SendPayload(t) /\ My(t).message
  <2>1. pc[t] = "payload" /\ Receives(t, "payload")
    BY <1>4 DEF SendPayload, Step
  <2>2. \A c \in Call : c # cur[t] => srv'[c] = srv[c]
    BY <2>1, ReceivesFacts DEF Connected, SrvInv
  <2>3. srv[cur[t]] = << <<cur[t], "header">> >>
    BY <2>1 DEF SrvInv, SrvAt
  <2>4. req[cur[t]].message
    BY <1>4 DEF My
  <2> QED
    BY <1>1, <1>2, <2>2, <2>3, <2>4, PrefixesDiffer
<1>5. CASE SendPayload(t) /\ ~My(t).message
  BY <1>1, <1>2, <1>5 DEF SendPayload
<1> QED
  BY <1>3, <1>4, <1>5

LEMMA SendingRefines ==
  ASSUME CallInv, FdInv, SrvInv, NEW t \in Thread, SendHeader(t) \/ SendPayload(t)
  PROVE  Unseen \/ Api!ApiNext
<1>1. /\ cur[t] \in Call /\ out[cur[t]] = "running"
      /\ UNCHANGED <<req, out, process>> /\ process = "up"
      /\ \A c \in Call : c # cur[t] => srv'[c] = srv[c]
      /\ srv' = srv \/ srv[cur[t]] # Whole(cur[t])
  BY SendingSteps
<1>2. Result' = Result /\ (\A c \in Call : Whole(c)' = Whole(c))
  BY <1>1 DEF Result, Whole
<1>3. CASE srv' = srv \/ srv'[cur[t]] # Whole(cur[t])
  <2>1. Delivered' = Delivered
    BY <1>1, <1>2, <1>3 DEF Delivered
  <2> QED
    BY <1>1, <1>2, <2>1 DEF Unseen
<1>4. CASE srv[cur[t]] # Whole(cur[t]) /\ srv'[cur[t]] = Whole(cur[t])
  <2>1. Delivered' = Delivered \cup {cur[t]} /\ cur[t] \notin Delivered
    BY <1>1, <1>2, <1>4 DEF Delivered
  <2>2. Result[cur[t]] = "running"
    BY <1>1 DEF Result
  <2>3. PICK c \in Call : c = cur[t]
    BY <1>1
  <2>4. Api!Deliver(c)
    BY <1>1, <1>2, <2>1, <2>2, <2>3 DEF Api!Deliver, Result, Delivered
  <2> QED
    BY <2>4 DEF Api!ApiNext
<1> QED
  BY <1>1, <1>3, <1>4

\* The other inner steps are unseen, or end the process.
LEMMA SilentRefines ==
  ASSUME CallInv, NEW t \in Thread, Inner(t), ~SendHeader(t), ~SendPayload(t)
  PROVE  Unseen \/ Api!Stop
<1>1. UNCHANGED <<req, out, srv>> /\ process = "up"
  BY InnerFrame, SilentSteps DEF CallInv
<1>2. Result' = Result /\ Delivered' = Delivered
  BY <1>1 DEF Result, Delivered, Whole
<1>3. CASE process' = "up"
  BY <1>1, <1>2, <1>3 DEF Unseen
<1>4. CASE process' # "up"
  BY <1>1, <1>2, <1>4 DEF Api!Stop, Result, Delivered
<1> QED
  BY <1>3, <1>4

LEMMA InvokeRefines ==
  ASSUME CallInv, NEW t \in Thread, Invoke(t)
  PROVE  Api!ApiNext
<1>1. /\ begun + 1 \in Call /\ out[begun + 1] = "none"
      /\ UNCHANGED <<srv, req, process>> /\ process = "up"
      /\ out' = [out EXCEPT ![begun + 1] = "running"]
  BY ClientAssumption DEF CallInv, CallTypes, Invoke, Step, Call
<1>2. Delivered' = Delivered
  BY <1>1 DEF Delivered, Whole
<1>3. Result' = [Result EXCEPT ![begun + 1] = "running"]
  BY <1>1 DEF Result, CallInv, CallTypes
<1>4. Result[begun + 1] = "none"
  BY <1>1 DEF Result
<1>5. PICK c \in Call : c = begun + 1
  BY <1>1
<1>6. Api!Begin(c)
  BY <1>1, <1>2, <1>3, <1>4, <1>5 DEF Api!Begin, Result, Delivered
<1> QED
  BY <1>6 DEF Api!ApiNext

LEMMA SettlingRefines ==
  ASSUME CallInv, SrvInv, NEW t \in Thread, Settling(t)
  PROVE  Api!ApiNext
<1>1. /\ cur[t] \in Call /\ out[cur[t]] = "running"
      /\ UNCHANGED <<srv, req, process>> /\ process = "up"
  BY SettlingFrame DEF CallInv, CallTypes
<1>2. PICK r \in {"response", "null"} :
        /\ out' = [out EXCEPT ![cur[t]] = r]
        /\ r = "response" => pc[t] = "return" /\ ret[t] = 0
  BY SettlingFrame
<1>3. Delivered' = Delivered
  BY <1>1 DEF Delivered, Whole
<1>4. Result' = [Result EXCEPT ![cur[t]] = r]
  BY <1>1, <1>2 DEF Result, CallInv, CallTypes
<1>5. Result[cur[t]] = "running"
  BY <1>1 DEF Result
<1>6. r = "response" => cur[t] \in Delivered
  BY <1>1, <1>2 DEF SrvInv, SrvAt, Delivered
<1>7. PICK c \in Call : c = cur[t]
  BY <1>1
<1>8. Api!Settle(c)
  BY <1>1, <1>3, <1>4, <1>5, <1>6, <1>7 DEF Api!Settle, Result, Delivered
<1> QED
  BY <1>8 DEF Api!ApiNext

\* The library keeps the promise of its header file: every step of the client
\* is a step of FcmApi, or one the application cannot see.
THEOREM ClientImplementsApi == Spec => ImplementsApi
<1>1. Init => Api!ApiInit
  <2> SUFFICES ASSUME Init
               PROVE  Api!ApiInit
    OBVIOUS
  <2>1. Delivered = {}
    BY PrefixesDiffer DEF Init, Delivered
  <2>2. Result = [c \in Call |-> "none"] /\ process = "up"
    BY DEF Init, Result
  <2> QED
    BY <2>1, <2>2 DEF Api!ApiInit, Result, Delivered
<1>2. ASSUME CallInv, FdInv, SrvInv, [Next]_vars
      PROVE  [Api!ApiNext]_(Api!apiVars)
  <2>1. ASSUME NEW t \in Thread, Invoke(t)
        PROVE  Api!ApiNext
    BY <1>2, <2>1, InvokeRefines
  <2>2. ASSUME NEW t \in Thread, Settling(t)
        PROVE  Api!ApiNext
    BY <1>2, <2>2, SettlingRefines
  <2>3. ASSUME NEW t \in Thread, Inner(t)
        PROVE  [Api!ApiNext]_(Api!apiVars)
    <3>1. CASE SendHeader(t) \/ SendPayload(t)
      BY <1>2, <3>1, SendingRefines, UnseenStutters
    <3>2. CASE ~SendHeader(t) /\ ~SendPayload(t)
      BY <1>2, <2>3, <3>2, SilentRefines, UnseenStutters DEF Api!ApiNext
    <3> QED
      BY <3>1, <3>2
  <2>4. ASSUME NEW c \in Call, FreeResponse(c)
        PROVE  UNCHANGED Api!apiVars
    <3>1. /\ UNCHANGED <<srv, req, process>> /\ out[c] = "response"
          /\ out' = [out EXCEPT ![c] = "freed"]
      BY <2>4 DEF FreeResponse
    <3>2. Result' = Result
      BY <1>2, <3>1 DEF Result, CallInv, CallTypes
    <3>3. Delivered' = Delivered
      BY <3>1 DEF Delivered, Whole
    <3> QED
      BY <3>1, <3>2, <3>3, UnseenStutters DEF Unseen
  <2>5. CASE UNCHANGED vars
    <3>1. Unseen
      BY <2>5 DEF vars, Unseen, Result, Delivered, Whole
    <3> QED
      BY <3>1, UnseenStutters
  <2> QED
    BY <1>2, <2>1, <2>2, <2>3, <2>4, <2>5, StepCases
<1> QED
  BY <1>1, <1>2, CallInvariance, FdInvariance, SrvInvariance, PTL
     DEF Spec, ImplementsApi, Api!ApiSpec
-----------------------------------------------------------------------------
(***************************************************************************)
(* The fourth layer: which blocks of a call are allocated at each of its   *)
(* places.  It gives TypeOK, that no block is freed twice or allocated     *)
(* over another, and BlocksAccounted.                                      *)
(***************************************************************************)
\* The parts of a response.
OutParts == {"out->header", "out->body"}

\* What fcm.c has allocated around its http_do_post.
Base(t) ==
  {"response", "endpoint"}
    \cup (IF My(t).message THEN {"message_enc", "dh", "salt"} ELSE {})

\* The blocks of thread t's call at each place.  Of a response that was not
\* read to its end there may be parts, but only once the request has gone.
HeapAt(t) ==
  LET live == Live(cur[t]) IN
  /\ pc[t] = "parse" => live = {}
  /\ pc[t] = "decode" => live = {"response", "endpoint"}
  /\ pc[t] = "encrypt" => live = {"response", "endpoint", "p256_dec", "auth_dec"}
  /\ pc[t] \in {"decode", "encrypt"} => My(t).message
  /\ pc[t] = "build" => live = Base(t)
  /\ pc[t] \in {"connect", "connecting", "tls"} => live = Base(t) \cup Header(t)
  /\ pc[t] = "tls" => My(t).proto = "https"
  /\ pc[t] = "header" => live = Base(t) \cup Header(t) \cup Ssl(t)
  /\ pc[t] \in {"payload", "receive"} => live = Base(t) \cup Ssl(t)
  /\ pc[t] = "close" => live \ OutParts = Base(t) \cup Ssl(t)
  /\ pc[t] = "return" => live \ OutParts = Base(t)
  /\ pc[t] \in {"close", "return"} /\ ret[t] = 0 => OutParts \subseteq live
  /\ pc[t] \in {"close", "return"} /\ live \cap OutParts # {}
       => srv[cur[t]] = Whole(cur[t])

HeapTypes == heap \in [Call -> [Block -> {0, 1}]]

HeapInv ==
  /\ HeapTypes
  /\ \A t \in Thread : HeapAt(t)
  /\ BlocksAccounted

-----------------------------------------------------------------------------
\* What is allocated in the call of thread t after a step.
NewLive(t) == {b \in Block : heap'[cur[t]][b] = 1}

\* A step that allocates what is not allocated and frees what is.
Sound(t, news, olds) ==
  /\ Memory(t, news, olds)
  /\ news \subseteq Block /\ news \cap Live(cur[t]) = {}
  /\ olds \subseteq Live(cur[t])

LEMMA SoundMemory ==
  ASSUME HeapTypes, NEW t \in Thread, cur[t] \in Call, NEW news, NEW olds,
         Sound(t, news, olds)
  PROVE  /\ HeapTypes'
         /\ \A c \in Call : c # cur[t] => heap'[c] = heap[c]
         /\ NewLive(t) = (Live(cur[t]) \cup news) \ olds
<1>1. \A b \in Block : heap[cur[t]][b] \in {0, 1}
  BY DEF HeapTypes
<1>2. \A b \in Block : /\ b \in news => heap[cur[t]][b] = 0 /\ b \notin olds
                       /\ b \in olds => heap[cur[t]][b] = 1
  BY <1>1 DEF Sound, Live
<1> DEFINE after == [b \in Block |-> heap[cur[t]][b]
                                + (IF b \in news THEN 1 ELSE 0)
                                - (IF b \in olds THEN 1 ELSE 0)]
<1>3. \A b \in Block : after[b] \in {0, 1}
  BY <1>1, <1>2
<1>4. \A b \in Block :
        after[b] = 1 <=> (heap[cur[t]][b] = 1 \/ b \in news) /\ b \notin olds
  BY <1>1, <1>2
<1>5. after \in [Block -> {0, 1}]
  BY <1>3
<1>6. heap' = [heap EXCEPT ![cur[t]] = after]
  BY DEF Sound, Memory
<1> HIDE DEF after
<1>7. HeapTypes' /\ heap'[cur[t]] = after
  BY <1>5, <1>6 DEF HeapTypes
<1>8. \A c \in Call : c # cur[t] => heap'[c] = heap[c]
  BY <1>6 DEF HeapTypes
<1>9. NewLive(t) = (Live(cur[t]) \cup news) \ olds
  BY <1>4, <1>7 DEF NewLive, Live, Sound
<1> QED
  BY <1>7, <1>8, <1>9

\* What an inner step leaves alone.
Frame(t) ==
  /\ cur[t] \in Call /\ out[cur[t]] = "running" /\ pc[t] # "idle"
  /\ UNCHANGED <<cur, req, out>>
  /\ \A u \in Thread : u # t => pc'[u] = pc[u] /\ ret'[u] = ret[u]
  /\ \A c \in Call : c # cur[t] => srv'[c] = srv[c]

LEMMA InnerKeepsFrame ==
  ASSUME CallInv, FdInv, SrvInv, NEW t \in Thread, Inner(t)
  PROVE  Frame(t)
<1>1. CallTypes
  BY DEF CallInv
<1>2. /\ UNCHANGED <<cur, req, out>> /\ pc[t] # "idle"
      /\ \A u \in Thread : u # t => pc'[u] = pc[u]
  BY <1>1, InnerFrame DEF CallTypes
<1>3. cur[t] \in Call /\ out[cur[t]] = "running"
  BY <1>2 DEF CallInv, CallTypes
<1>4. CASE SendHeader(t) \/ SendPayload(t)
  <2>1. ret' = ret
    BY <1>4 DEF SendHeader, SendPayload
  <2> QED
    BY <1>2, <1>3, <1>4, <2>1, SendingSteps DEF Frame
<1>5. CASE ~SendHeader(t) /\ ~SendPayload(t)
  BY <1>1, <1>2, <1>3, <1>5, SilentSteps DEF Frame
<1> QED
  BY <1>4, <1>5

\* A thread whose call is left alone keeps its blocks.
LEMMA UntouchedCall ==
  ASSUME NEW u \in Thread, HeapAt(u), req' = req,
         pc'[u] = pc[u], ret'[u] = ret[u], cur'[u] = cur[u],
         heap'[cur[u]] = heap[cur[u]], srv'[cur[u]] = srv[cur[u]]
  PROVE  HeapAt(u)'
<1>1. /\ Live(cur[u])' = Live(cur[u]) /\ Whole(cur[u])' = Whole(cur[u])
      /\ My(u)' = My(u) /\ Base(u)' = Base(u) /\ Header(u)' = Header(u)
      /\ Ssl(u)' = Ssl(u)
  BY DEF Live, Whole, My, Base, Header, Ssl
<1> QED
  BY <1>1 DEF HeapAt

\* A step of thread t inside its call keeps HeapInv if the blocks of its call
\* are then those of its new place.
LEMMA LocalPreservesHeapInv ==
  ASSUME CallInv, HeapInv, NEW t \in Thread, Frame(t), HeapTypes',
         \A c \in Call : c # cur[t] => heap'[c] = heap[c],
         HeapAt(t)'
  PROVE  HeapInv'
<1>1. \A c \in Call : Whole(c)' = Whole(c)
  BY DEF Whole, Frame
<1>2. \A c \in Call : c # cur[t] => Live(c)' = Live(c)
  BY DEF Live
<1>3. \A u \in Thread : HeapAt(u)'
  <2> SUFFICES ASSUME NEW u \in Thread, u # t
               PROVE  HeapAt(u)'
    OBVIOUS
  <2>1. HeapAt(u) /\ pc'[u] = pc[u] /\ ret'[u] = ret[u] /\ cur'[u] = cur[u]
    BY DEF HeapInv, Frame
  <2>2. CASE pc[u] = "idle"
    BY <2>1, <2>2 DEF HeapAt
  <2>3. CASE pc[u] # "idle"
    <3>1. cur[u] \in Call /\ cur[u] # cur[t]
      BY <2>3, CallFacts DEF CallInv, CallTypes, Frame
    <3> QED
      BY <2>1, <3>1, UntouchedCall DEF Frame
  <2> QED
    BY <2>2, <2>3
<1>4. BlocksAccounted'
  <2> SUFFICES ASSUME NEW c \in Call
               PROVE  (/\ out[c] = "response"
                            => Live(c) = {"response", "out->header", "out->body"}
                       /\ out[c] \in {"none", "freed"} => Live(c) = {}
                       /\ out[c] = "null" /\ Live(c) # {} =>
                            /\ Live(c) \subseteq {"out->header", "out->body"}
                            /\ srv[c] = Whole(c))'
    BY DEF BlocksAccounted
  <2>1. CASE c = cur[t]
    BY <2>1 DEF Frame
  <2>2. CASE c # cur[t]
    BY <1>1, <1>2, <2>2 DEF HeapInv, BlocksAccounted, Frame
  <2> QED
    BY <2>1, <2>2
<1> QED
  BY <1>3, <1>4 DEF HeapInv

\* The same for a step that allocates and frees soundly.
LEMMA SoundStepPreserves ==
  ASSUME CallInv, HeapInv, NEW t \in Thread, Frame(t), NEW news, NEW olds,
         Sound(t, news, olds),
         NewLive(t) = (Live(cur[t]) \cup news) \ olds => HeapAt(t)'
  PROVE  HeapInv'
<1>1. HeapTypes /\ cur[t] \in Call
  BY DEF HeapInv, Frame
<1>2. /\ HeapTypes'
      /\ \A c \in Call : c # cur[t] => heap'[c] = heap[c]
      /\ NewLive(t) = (Live(cur[t]) \cup news) \ olds
  BY <1>1, SoundMemory
<1> QED
  BY <1>2, LocalPreservesHeapInv

\* The same for one that leaves the heap alone.
LEMMA HeaplessStepPreserves ==
  ASSUME CallInv, HeapInv, NEW t \in Thread, Frame(t), heap' = heap, HeapAt(t)'
  PROVE  HeapInv'
<1>1. HeapTypes' /\ (\A c \in Call : c # cur[t] => heap'[c] = heap[c])
  BY DEF HeapInv, HeapTypes
<1> QED
  BY <1>1, LocalPreservesHeapInv

\* What the blocks of a call depend on, besides its place.
LEMMA SameNames ==
  ASSUME NEW t \in Thread, Frame(t)
  PROVE  /\ My(t)' = My(t) /\ Base(t)' = Base(t)
         /\ Header(t)' = Header(t) /\ Ssl(t)' = Ssl(t)
         /\ Whole(cur[t])' = Whole(cur[t])
         /\ Live(cur[t])' = NewLive(t)
<1> QED
  BY DEF Frame, My, Base, Header, Ssl, Whole, Live, NewLive

LEMMA PreparingPreserves ==
  ASSUME CallInv, HeapInv, NEW t \in Thread, Frame(t),
         ParseSucceeds(t) \/ Decode(t) \/ Encrypt(t) \/ BuildHeader(t)
  PROVE  HeapInv'
<1>1. HeapAt(t) /\ pc \in [Thread -> Places]
  BY DEF HeapInv, CallInv, CallTypes
<1>2. CASE ParseSucceeds(t)
  <2>1. /\ pc[t] = "parse" /\ pc'[t] = (IF My(t).message THEN "decode" ELSE "build")
        /\ Memory(t, {"response", "endpoint"}, {})
    BY <1>1, <1>2 DEF ParseSucceeds, Step
  <2>2. Live(cur[t]) = {}
    BY <1>1, <2>1 DEF HeapAt
  <2>3. Sound(t, {"response", "endpoint"}, {})
    BY <2>1, <2>2 DEF Sound, Block
  <2>4. ASSUME NewLive(t) = (Live(cur[t]) \cup {"response", "endpoint"}) \ {}
        PROVE  HeapAt(t)'
    <3>1. NewLive(t) = {"response", "endpoint"}
      BY <2>2, <2>4
    <3> QED
      BY <2>1, <3>1, SameNames DEF HeapAt, Base
  <2> QED
    BY <2>3, <2>4, SoundStepPreserves
<1>3. CASE Decode(t)
  <2>1. /\ pc[t] = "decode" /\ pc'[t] = "encrypt"
        /\ Memory(t, {"p256_dec", "auth_dec"}, {})
    BY <1>1, <1>3 DEF Decode, Step
  <2>2. Live(cur[t]) = {"response", "endpoint"} /\ My(t).message
    BY <1>1, <2>1 DEF HeapAt
  <2>3. Sound(t, {"p256_dec", "auth_dec"}, {})
    BY <2>1, <2>2 DEF Sound, Block
  <2>4. ASSUME NewLive(t) = (Live(cur[t]) \cup {"p256_dec", "auth_dec"}) \ {}
        PROVE  HeapAt(t)'
    <3>1. NewLive(t) = {"response", "endpoint", "p256_dec", "auth_dec"}
      BY <2>2, <2>4
    <3> QED
      BY <2>1, <2>2, <3>1, SameNames DEF HeapAt
  <2> QED
    BY <2>3, <2>4, SoundStepPreserves
<1>4. CASE Encrypt(t)
  <2>1. /\ pc[t] = "encrypt" /\ pc'[t] = "build"
        /\ Memory(t, {"message_enc", "dh", "salt"}, {"p256_dec", "auth_dec"})
    BY <1>1, <1>4 DEF Encrypt, Step
  <2>2. /\ Live(cur[t]) = {"response", "endpoint", "p256_dec", "auth_dec"}
        /\ My(t).message
    BY <1>1, <2>1 DEF HeapAt
  <2>3. Sound(t, {"message_enc", "dh", "salt"}, {"p256_dec", "auth_dec"})
    BY <2>1, <2>2 DEF Sound, Block
  <2>4. ASSUME NewLive(t) = (Live(cur[t]) \cup {"message_enc", "dh", "salt"})
                              \ {"p256_dec", "auth_dec"}
        PROVE  HeapAt(t)'
    <3>1. NewLive(t) = Base(t)
      BY <2>2, <2>4 DEF Base
    <3> QED
      BY <2>1, <3>1, SameNames DEF HeapAt
  <2> QED
    BY <2>3, <2>4, SoundStepPreserves
<1>5. CASE BuildHeader(t)
  <2>1. /\ pc[t] = "build" /\ pc'[t] = "connect" /\ Memory(t, Header(t), {})
    BY <1>1, <1>5 DEF BuildHeader, Step
  <2>2. Live(cur[t]) = Base(t)
    BY <1>1, <2>1 DEF HeapAt
  <2>3. Sound(t, Header(t), {})
    BY <2>1, <2>2 DEF Sound, Block, Header, Base
  <2>4. ASSUME NewLive(t) = (Live(cur[t]) \cup Header(t)) \ {}
        PROVE  HeapAt(t)'
    <3>1. NewLive(t) = Base(t) \cup Header(t)
      BY <2>2, <2>4
    <3> QED
      BY <2>1, <3>1, SameNames DEF HeapAt
  <2> QED
    BY <2>3, <2>4, SoundStepPreserves
<1> QED
  BY <1>2, <1>3, <1>4, <1>5

\* The steps that fail before anything was sent leave no part of a response.
LEMMA FailingPreserves ==
  ASSUME CallInv, HeapInv, NEW t \in Thread, Frame(t),
         ConnectFails(t) \/ HandshakeFails(t)
  PROVE  HeapInv'
<1>1. HeapAt(t) /\ pc \in [Thread -> Places] /\ ret \in [Thread -> {0, 1}]
  BY DEF HeapInv, CallInv, CallTypes
<1>2. /\ pc[t] \in {"connect", "tls"} /\ pc'[t] = "return" /\ ret'[t] = 1
      /\ Memory(t, {}, Header(t))
  BY <1>1 DEF ConnectFails, HandshakeFails, Step
<1>3. Live(cur[t]) = Base(t) \cup Header(t)
  BY <1>1, <1>2 DEF HeapAt
<1>4. Sound(t, {}, Header(t))
  BY <1>2, <1>3 DEF Sound
<1>5. ASSUME NewLive(t) = (Live(cur[t]) \cup {}) \ Header(t)
      PROVE  HeapAt(t)'
  <2>1. NewLive(t) = Base(t)
    BY <1>3, <1>5 DEF Base, Header
  <2>2. Base(t) \cap OutParts = {} /\ Base(t) \ OutParts = Base(t)
    BY DEF Base, OutParts
  <2> QED
    BY <1>2, <2>1, <2>2, SameNames DEF HeapAt, OutParts
<1> QED
  BY <1>4, <1>5, SoundStepPreserves

LEMMA HandshakePreserves ==
  ASSUME CallInv, HeapInv, NEW t \in Thread, Frame(t), Handshake(t)
  PROVE  HeapInv'
<1>1. HeapAt(t) /\ pc \in [Thread -> Places]
  BY DEF HeapInv, CallInv, CallTypes
<1>2. pc[t] = "tls" /\ pc'[t] = "header" /\ Memory(t, {"ssl"}, {})
  BY <1>1 DEF Handshake, Step
<1>3. Live(cur[t]) = Base(t) \cup Header(t) /\ Ssl(t) = {"ssl"}
  BY <1>1, <1>2 DEF HeapAt, Ssl
<1>4. Sound(t, {"ssl"}, {})
  BY <1>2, <1>3 DEF Sound, Block, Base, Header
<1>5. ASSUME NewLive(t) = (Live(cur[t]) \cup {"ssl"}) \ {}
      PROVE  HeapAt(t)'
  <2>1. NewLive(t) = Base(t) \cup Header(t) \cup Ssl(t)
    BY <1>3, <1>5
  <2> QED
    BY <1>2, <2>1, SameNames DEF HeapAt
<1> QED
  BY <1>4, <1>5, SoundStepPreserves

LEMMA SendingHeaderPreserves ==
  ASSUME CallInv, HeapInv, NEW t \in Thread, Frame(t),
         SendHeader(t) \/ SendHeaderFails(t)
  PROVE  HeapInv'
<1>1. HeapAt(t) /\ pc \in [Thread -> Places] /\ ret \in [Thread -> {0, 1}]
  BY DEF HeapInv, CallInv, CallTypes
<1>2. /\ pc[t] = "header" /\ My(t).fits /\ Memory(t, {}, {"header"})
      /\ pc'[t] = "payload" \/ (pc'[t] = "close" /\ ret'[t] = 1)
  BY <1>1 DEF SendHeader, SendHeaderFails, Step
<1>3. Live(cur[t]) = Base(t) \cup {"header"} \cup Ssl(t)
  BY <1>1, <1>2 DEF HeapAt, Header
<1>4. Sound(t, {}, {"header"})
  BY <1>2, <1>3 DEF Sound
<1>5. ASSUME NewLive(t) = (Live(cur[t]) \cup {}) \ {"header"}
      PROVE  HeapAt(t)'
  <2>1. NewLive(t) = Base(t) \cup Ssl(t)
    BY <1>3, <1>5 DEF Base, Ssl
  <2>2. NewLive(t) \cap OutParts = {} /\ NewLive(t) \ OutParts = Base(t) \cup Ssl(t)
    BY <2>1 DEF Base, Ssl, OutParts
  <2> QED
    BY <1>2, <2>1, <2>2, SameNames DEF HeapAt, OutParts
<1> QED
  BY <1>4, <1>5, SoundStepPreserves

LEMMA ReceivingPreserves ==
  ASSUME CallInv, SrvInv, HeapInv, NEW t \in Thread, Frame(t),
         Receive(t) \/ ReceiveFails(t)
  PROVE  HeapInv'
<1>1. HeapAt(t) /\ pc \in [Thread -> Places] /\ ret \in [Thread -> {0, 1}]
  BY DEF HeapInv, CallInv, CallTypes
<1>2. /\ pc[t] = "receive" /\ pc'[t] = "close" /\ UNCHANGED srv
      /\ \E got \in SUBSET OutParts : /\ Memory(t, got, {})
                                      /\ ret'[t] = 0 => got = OutParts
  BY <1>1 DEF Receive, ReceiveFails, Step, OutParts
<1>3. PICK got \in SUBSET OutParts : /\ Memory(t, got, {})
                                     /\ ret'[t] = 0 => got = OutParts
  BY <1>2
<1>4. Live(cur[t]) = Base(t) \cup Ssl(t) /\ srv[cur[t]] = Whole(cur[t])
  BY <1>1, <1>2 DEF HeapAt, SrvInv, SrvAt
<1>5. OutParts \cap (Base(t) \cup Ssl(t)) = {} /\ OutParts \subseteq Block
  BY DEF Base, Ssl, OutParts, Block
<1>6. Sound(t, got, {})
  BY <1>3, <1>4, <1>5 DEF Sound
<1>7. ASSUME NewLive(t) = (Live(cur[t]) \cup got) \ {}
      PROVE  HeapAt(t)'
  <2>1. NewLive(t) \ OutParts = Base(t) \cup Ssl(t)
    BY <1>4, <1>5, <1>7
  <2>2. ret'[t] = 0 => OutParts \subseteq NewLive(t)
    BY <1>3, <1>7
  <2>3. srv'[cur[t]] = Whole(cur[t])
    BY <1>2, <1>4
  <2>4. cur'[t] = cur[t] /\ OutParts' = OutParts
    BY DEF Frame, OutParts
  <2> QED
    BY <1>2, <2>1, <2>2, <2>3, <2>4, SameNames DEF HeapAt
<1> QED
  BY <1>6, <1>7, SoundStepPreserves

LEMMA ClosePreserves ==
  ASSUME CallInv, HeapInv, NEW t \in Thread, Frame(t), Close(t)
  PROVE  HeapInv'
<1>1. HeapAt(t) /\ pc \in [Thread -> Places] /\ ret \in [Thread -> {0, 1}]
  BY DEF HeapInv, CallInv, CallTypes
<1>2. /\ pc[t] = "close" /\ pc'[t] = "return" /\ UNCHANGED <<srv, ret>>
      /\ Memory(t, {}, Ssl(t))
  BY <1>1 DEF Close, Step
<1>3. Live(cur[t]) \ OutParts = Base(t) \cup Ssl(t)
  BY <1>1, <1>2 DEF HeapAt
<1>4. Base(t) \cap Ssl(t) = {} /\ Ssl(t) \cap OutParts = {}
  BY DEF Base, Ssl, OutParts
<1>5. Sound(t, {}, Ssl(t))
  BY <1>2, <1>3, <1>4 DEF Sound
<1>6. ASSUME NewLive(t) = (Live(cur[t]) \cup {}) \ Ssl(t)
      PROVE  HeapAt(t)'
  <2>1. /\ NewLive(t) \ OutParts = Base(t)
        /\ NewLive(t) \cap OutParts = Live(cur[t]) \cap OutParts
    BY <1>3, <1>4, <1>6
  <2>2. /\ ret[t] = 0 => OutParts \subseteq Live(cur[t])
        /\ Live(cur[t]) \cap OutParts # {} => srv[cur[t]] = Whole(cur[t])
    BY <1>1, <1>2 DEF HeapAt
  <2>3. ret'[t] = 0 => OutParts \subseteq NewLive(t)
    BY <1>2, <2>1, <2>2
  <2>4. cur'[t] = cur[t] /\ OutParts' = OutParts
    BY DEF Frame, OutParts
  <2> QED
    BY <1>2, <2>1, <2>2, <2>3, <2>4, SameNames DEF HeapAt
<1> QED
  BY <1>5, <1>6, SoundStepPreserves

\* The steps that allocate and free nothing: the connection is opened, the
\* payload goes out or not, the process ends.
LEMMA HeaplessPreserves ==
  ASSUME CallInv, HeapInv, NEW t \in Thread, Frame(t),
         \/ CreateSocket(t) \/ ConnectRefused(t) \/ Connect(t)
         \/ SendPayload(t) \/ SendPayloadFails(t) \/ SendKilled(t)
         \/ DecodeCrashes(t) \/ EncryptCrashes(t)
         \/ ParseCrashes(t) \/ HandshakeCrashes(t)
         \/ SendHeaderCrashes(t) \/ OutOfMemory(t)
  PROVE  HeapInv'
<1> USE DEF Step
<1>1. HeapAt(t) /\ pc \in [Thread -> Places] /\ ret \in [Thread -> {0, 1}]
  BY DEF HeapInv, CallInv, CallTypes
<1>2. heap' = heap /\ NewLive(t) = Live(cur[t])
  BY DEF NewLive, Live, CreateSocket, ConnectRefused, Connect, SendPayload,
         SendPayloadFails, SendKilled, DecodeCrashes, EncryptCrashes,
         ParseCrashes, HandshakeCrashes, SendHeaderCrashes, OutOfMemory
<1>3. CASE CreateSocket(t) \/ ConnectRefused(t)
  <2>1. pc[t] \in {"connect", "connecting"} /\ pc'[t] \in {"connect", "connecting"}
    BY <1>1, <1>3 DEF CreateSocket, ConnectRefused
  <2>2. HeapAt(t)'
    BY <1>1, <1>2, <2>1, SameNames DEF HeapAt
  <2> QED
    BY <1>2, <2>2, HeaplessStepPreserves
<1>4. CASE Connect(t)
  <2>1. /\ pc[t] = "connecting"
        /\ pc'[t] = (IF My(t).proto = "https" THEN "tls" ELSE "header")
    BY <1>1, <1>4 DEF Connect
  <2>2. Live(cur[t]) = Base(t) \cup Header(t)
    BY <1>1, <2>1 DEF HeapAt
  <2>3. pc'[t] = "header" => Ssl(t) = {}
    BY <2>1 DEF Ssl
  <2>4. HeapAt(t)'
    BY <1>2, <2>1, <2>2, <2>3, SameNames DEF HeapAt
  <2> QED
    BY <1>2, <2>4, HeaplessStepPreserves
<1>5. CASE SendPayload(t) \/ SendPayloadFails(t)
  <2>1. /\ pc[t] = "payload"
        /\ pc'[t] = "receive" \/ (pc'[t] = "close" /\ ret'[t] = 1)
    BY <1>1, <1>5 DEF SendPayload, SendPayloadFails
  <2>2. Live(cur[t]) = Base(t) \cup Ssl(t)
    BY <1>1, <2>1 DEF HeapAt
  <2>3. Live(cur[t]) \cap OutParts = {} /\ Live(cur[t]) \ OutParts = Live(cur[t])
    BY <2>2 DEF Base, Ssl, OutParts
  <2>4. HeapAt(t)'
    BY <1>2, <2>1, <2>2, <2>3, SameNames DEF HeapAt, OutParts
  <2> QED
    BY <1>2, <2>4, HeaplessStepPreserves
<1>6. CASE SendKilled(t) \/ DecodeCrashes(t) \/ EncryptCrashes(t)
             \/ ParseCrashes(t) \/ HandshakeCrashes(t)
             \/ SendHeaderCrashes(t) \/ OutOfMemory(t)
  <2>1. pc' = pc /\ ret' = ret /\ srv' = srv /\ cur' = cur
    BY <1>1, <1>6 DEF SendKilled, DecodeCrashes, EncryptCrashes,
               ParseCrashes, HandshakeCrashes, SendHeaderCrashes, OutOfMemory
  <2>2. HeapAt(t)'
    BY <1>1, <1>2, <2>1, SameNames DEF HeapAt, OutParts
  <2> QED
    BY <1>2, <2>2, HeaplessStepPreserves
<1> QED
  BY <1>3, <1>4, <1>5, <1>6

LEMMA InnerPreservesHeapInv ==
  ASSUME CallInv, FdInv, SrvInv, HeapInv, NEW t \in Thread, Inner(t)
  PROVE  HeapInv'
<1>1. Frame(t)
  BY InnerKeepsFrame
<1> QED
  BY <1>1, PreparingPreserves, FailingPreserves, HandshakePreserves,
     SendingHeaderPreserves, ReceivingPreserves, ClosePreserves,
     HeaplessPreserves DEF Inner

-----------------------------------------------------------------------------
(* The ends of a call. *)

\* A call begins with nothing.
LEMMA InvokePreservesHeapInv ==
  ASSUME CallInv, HeapInv, NEW t \in Thread, Invoke(t)
  PROVE  HeapInv'
<1>1. /\ begun + 1 \in Call /\ out[begun + 1] = "none"
      /\ UNCHANGED <<heap, srv, req, ret>>
      /\ pc' = [pc EXCEPT ![t] = "parse"]
      /\ cur' = [cur EXCEPT ![t] = begun + 1]
      /\ out' = [out EXCEPT ![begun + 1] = "running"]
  BY ClientAssumption DEF CallInv, CallTypes, Invoke, Step, Call
<1>2. /\ pc'[t] = "parse" /\ cur'[t] = begun + 1
      /\ \A u \in Thread : u # t => pc'[u] = pc[u] /\ cur'[u] = cur[u]
      /\ out'[begun + 1] = "running"
      /\ \A c \in Call : c # begun + 1 => out'[c] = out[c]
  BY <1>1 DEF CallInv, CallTypes
<1>3. \A u \in Thread : u # t => HeapAt(u)'
  BY <1>1, <1>2, UntouchedCall DEF HeapInv
<1>4. HeapAt(t)'
  <2>1. Live(begun + 1) = {}
    BY <1>1 DEF HeapInv, BlocksAccounted
  <2>2. Live(cur[t])' = {}
    BY <1>1, <1>2, <2>1 DEF Live
  <2> QED
    BY <1>2, <2>2 DEF HeapAt
<1>5. BlocksAccounted'
  <2>1. \A c \in Call : Live(c)' = Live(c) /\ Whole(c)' = Whole(c)
    BY <1>1 DEF Live, Whole
  <2> QED
    BY <1>1, <1>2, <2>1 DEF HeapInv, BlocksAccounted
<1> QED
  BY <1>1, <1>3, <1>4, <1>5 DEF HeapInv, HeapTypes

\* A call ends with what BlocksAccounted says, and with it HeapInv holds.
LEMMA EndPreservesHeapInv ==
  ASSUME CallInv, HeapInv, NEW t \in Thread, Settling(t), HeapTypes',
         \A c \in Call : c # cur[t] => heap'[c] = heap[c],
         \/ NewLive(t) = {} /\ out'[cur[t]] = "null"
         \/ /\ NewLive(t) \subseteq OutParts /\ out'[cur[t]] = "null"
            /\ NewLive(t) # {} => srv[cur[t]] = Whole(cur[t])
         \/ /\ NewLive(t) = {"response", "out->header", "out->body"}
            /\ out'[cur[t]] = "response"
  PROVE  HeapInv'
<1>1. /\ cur[t] \in Call
      /\ pc' = [pc EXCEPT ![t] = "idle"]
      /\ cur' = [cur EXCEPT ![t] = NoCall]
      /\ UNCHANGED <<srv, req, ret>>
  BY SettlingFrame DEF CallInv, CallTypes
<1>2. /\ pc'[t] = "idle"
      /\ \A u \in Thread : u # t => pc'[u] = pc[u] /\ cur'[u] = cur[u]
      /\ \A c \in Call : c # cur[t] => out'[c] = out[c]
  <2>1. PICK r \in {"response", "null"} : out' = [out EXCEPT ![cur[t]] = r]
    BY SettlingFrame
  <2> QED
    BY <1>1, <2>1 DEF CallInv, CallTypes
<1>3. HeapAt(t)'
  BY <1>2 DEF HeapAt
<1>4. \A u \in Thread : u # t => HeapAt(u)'
  <2> SUFFICES ASSUME NEW u \in Thread, u # t
               PROVE  HeapAt(u)'
    OBVIOUS
  <2>1. CASE pc[u] = "idle"
    BY <1>2, <2>1 DEF HeapAt
  <2>2. CASE pc[u] # "idle"
    <3>1. cur[u] \in Call /\ cur[u] # cur[t]
      BY <1>1, <2>2, CallFacts DEF CallInv, CallTypes
    <3> QED
      BY <1>1, <1>2, <3>1, UntouchedCall DEF HeapInv
  <2> QED
    BY <2>1, <2>2
<1>5. BlocksAccounted'
  <2> SUFFICES ASSUME NEW c \in Call
               PROVE  (/\ out[c] = "response"
                            => Live(c) = {"response", "out->header", "out->body"}
                       /\ out[c] \in {"none", "freed"} => Live(c) = {}
                       /\ out[c] = "null" /\ Live(c) # {} =>
                            /\ Live(c) \subseteq {"out->header", "out->body"}
                            /\ srv[c] = Whole(c))'
    BY DEF BlocksAccounted
  <2>1. Whole(c)' = Whole(c)
    BY <1>1 DEF Whole
  <2>2. CASE c = cur[t]
    <3>1. Live(c)' = NewLive(t)
      BY <2>2 DEF Live, NewLive
    <3> QED
      BY <1>1, <2>1, <2>2, <3>1 DEF OutParts
  <2>3. CASE c # cur[t]
    <3>1. Live(c)' = Live(c)
      BY <2>3 DEF Live
    <3> QED
      BY <1>1, <1>2, <2>1, <2>3, <3>1 DEF HeapInv, BlocksAccounted
  <2> QED
    BY <2>2, <2>3
<1> QED
  BY <1>3, <1>4, <1>5 DEF HeapInv

LEMMA SettlingPreservesHeapInv ==
  ASSUME CallInv, SrvInv, HeapInv, NEW t \in Thread, Settling(t)
  PROVE  HeapInv'
<1>1. /\ HeapAt(t) /\ HeapTypes /\ cur[t] \in Call
      /\ pc \in [Thread -> Places]
      /\ out \in [Call -> {"none", "running", "response", "null", "freed"}]
  BY SettlingFrame DEF HeapInv, CallInv, CallTypes
<1>2. CASE ParseFails(t)
  <2>1. pc[t] = "parse" /\ heap' = heap /\ out'[cur[t]] = "null"
    BY <1>1, <1>2 DEF ParseFails, Step, Settle
  <2>2. Live(cur[t]) = {}
    BY <1>1, <2>1 DEF HeapAt
  <2>3. HeapTypes' /\ NewLive(t) = {} /\ (\A c \in Call : heap'[c] = heap[c])
    BY <1>1, <2>1, <2>2 DEF NewLive, Live, HeapTypes
  <2> QED
    BY <2>1, <2>3, EndPreservesHeapInv
<1>3. CASE EncryptFails(t)
  <2> DEFINE olds == {"p256_dec", "auth_dec", "endpoint", "response"}
  <2>1. pc[t] = "encrypt" /\ Memory(t, {}, olds) /\ out'[cur[t]] = "null"
    BY <1>1, <1>3 DEF EncryptFails, Step, Settle
  <2>2. Live(cur[t]) = olds
    BY <1>1, <2>1 DEF HeapAt
  <2>3. Sound(t, {}, olds) /\ (Live(cur[t]) \cup {}) \ olds = {}
    BY <2>1, <2>2 DEF Sound
  <2> HIDE DEF olds
  <2>4. /\ HeapTypes' /\ NewLive(t) = {}
        /\ \A c \in Call : c # cur[t] => heap'[c] = heap[c]
    BY <1>1, <2>3, SoundMemory
  <2> QED
    BY <2>1, <2>4, EndPreservesHeapInv
<1>4. CASE Return(t)
  <2> DEFINE olds == {"endpoint"}
                   \cup (IF My(t).message THEN {"message_enc", "dh", "salt"} ELSE {})
                   \cup (IF ret[t] = 0 THEN {} ELSE {"response"})
  <2>1. /\ pc[t] = "return" /\ Memory(t, {}, olds)
        /\ out'[cur[t]] = (IF ret[t] = 0 THEN "response" ELSE "null")
    BY <1>1, <1>4 DEF Return, Step, Settle
  <2>2. /\ Live(cur[t]) \ OutParts = Base(t)
        /\ ret[t] = 0 => OutParts \subseteq Live(cur[t])
        /\ Live(cur[t]) \cap OutParts # {} => srv[cur[t]] = Whole(cur[t])
    BY <1>1, <2>1 DEF HeapAt
  <2>3. /\ olds \subseteq Base(t) /\ olds \cap OutParts = {}
        /\ Base(t) \ olds = IF ret[t] = 0 THEN {"response"} ELSE {}
    BY DEF Base, OutParts
  <2> HIDE DEF olds
  <2>4. Sound(t, {}, olds)
    BY <2>1, <2>2, <2>3 DEF Sound
  <2>5. /\ HeapTypes' /\ NewLive(t) = (Live(cur[t]) \cup {}) \ olds
        /\ \A c \in Call : c # cur[t] => heap'[c] = heap[c]
    BY <1>1, <2>4, SoundMemory
  <2>6. CASE ret[t] = 0
    <3>1. NewLive(t) = {"response", "out->header", "out->body"}
      BY <2>2, <2>3, <2>5, <2>6 DEF OutParts
    <3> QED
      BY <2>1, <2>5, <2>6, <3>1, EndPreservesHeapInv
  <2>7. CASE ret[t] # 0
    <3>1. NewLive(t) = Live(cur[t]) \cap OutParts
      BY <2>2, <2>3, <2>5, <2>7
    <3> QED
      BY <2>1, <2>2, <2>5, <2>7, <3>1, EndPreservesHeapInv
  <2> QED
    BY <2>6, <2>7
<1> QED
  BY <1>2, <1>3, <1>4 DEF Settling

LEMMA FreePreservesHeapInv ==
  ASSUME CallInv, HeapInv, NEW c \in Call, FreeResponse(c)
  PROVE  HeapInv'
<1>1. /\ out[c] = "response" /\ out' = [out EXCEPT ![c] = "freed"]
      /\ UNCHANGED <<pc, cur, ret, req, srv>>
      /\ heap \in [Call -> [Block -> {0, 1}]]
  BY DEF FreeResponse, HeapInv, HeapTypes
<1>2. /\ out'[c] = "freed"
      /\ \A d \in Call : d # c => out'[d] = out[d]
  BY <1>1 DEF CallInv, CallTypes
<1>3. Live(c) = {"response"} \cup OutParts
  BY <1>1 DEF HeapInv, BlocksAccounted, OutParts
<1> DEFINE after == [b \in Block |-> IF b \in {"response"} \cup OutParts
                                     THEN heap[c][b] - 1 ELSE heap[c][b]]
<1>4. heap' = [heap EXCEPT ![c] = after]
  BY <1>1 DEF FreeResponse, OutParts
<1>5. \A b \in Block : after[b] = 0
  BY <1>1, <1>3 DEF Live
<1>6. after \in [Block -> {0, 1}]
  BY <1>5
<1> HIDE DEF after
<1>7. /\ HeapTypes' /\ heap'[c] = after
      /\ \A d \in Call : d # c => heap'[d] = heap[d]
  BY <1>1, <1>4, <1>6 DEF HeapTypes
<1>8. \A u \in Thread : HeapAt(u)'
  <2> SUFFICES ASSUME NEW u \in Thread
               PROVE  HeapAt(u)'
    OBVIOUS
  <2>1. CASE pc[u] = "idle"
    BY <1>1, <2>1 DEF HeapAt
  <2>2. CASE pc[u] # "idle"
    <3>1. cur[u] \in Call /\ cur[u] # c
      BY <1>1, <2>2 DEF CallInv, CallTypes
    <3> QED
      BY <1>1, <1>7, <3>1, UntouchedCall DEF HeapInv
  <2> QED
    BY <2>1, <2>2
<1>9. BlocksAccounted'
  <2>1. \A d \in Call : d # c => Live(d)' = Live(d)
    BY <1>7 DEF Live
  <2>2. Live(c)' = {}
    BY <1>5, <1>7 DEF Live
  <2>3. \A d \in Call : Whole(d)' = Whole(d)
    BY <1>1 DEF Whole
  <2> QED
    BY <1>1, <1>2, <2>1, <2>2, <2>3 DEF HeapInv, BlocksAccounted
<1> QED
  BY <1>7, <1>8, <1>9 DEF HeapInv

THEOREM HeapInvariance == Spec => []HeapInv
<1>1. Init => HeapInv
  BY DEF Init, HeapInv, HeapTypes, HeapAt, BlocksAccounted, Live
<1>2. ASSUME CallInv, FdInv, SrvInv, HeapInv, [Next]_vars
      PROVE  HeapInv'
  <2>1. CASE UNCHANGED vars
    BY <1>2, <2>1 DEF vars, HeapInv, HeapTypes, HeapAt, BlocksAccounted, Live,
                      Base, Header, Ssl, My, Whole
  <2> QED
    BY <1>2, <2>1, StepCases, InnerPreservesHeapInv, InvokePreservesHeapInv,
       SettlingPreservesHeapInv, FreePreservesHeapInv
<1> QED
  BY <1>1, <1>2, CallInvariance, FdInvariance, SrvInvariance, PTL DEF Spec

\* No block is freed twice or allocated over another, on any path of any call,
\* and every variable has its type.
THEOREM TypeCorrect == Spec => []TypeOK
<1>1. CallInv /\ FdInv /\ SrvInv /\ HeapInv => TypeOK
  BY DEF CallInv, CallTypes, FdInv, SrvInv, HeapInv, HeapTypes, TypeOK
<1> QED
  BY <1>1, CallInvariance, FdInvariance, SrvInvariance, HeapInvariance, PTL

\* A response is complete and all there is of its call, freeing it leaves
\* nothing, and NULL leaves nothing but parts of a response cut short.
THEOREM BlocksAreAccounted == Spec => []BlocksAccounted
<1>1. HeapInv => BlocksAccounted
  BY DEF HeapInv
<1> QED
  BY <1>1, HeapInvariance, PTL
=============================================================================
