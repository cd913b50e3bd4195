--------------------------- MODULE SendLoopProofs ---------------------------
(***************************************************************************)
(* What SendLoop.cfg checks for windows of 3 bytes, proved for windows of  *)
(* any size and every buffer length.                                       *)
(***************************************************************************)
EXTENDS SendLoop, StreamProofs, TLAPS

\* A window that reaches past the buffer is a full one whose end has wrapped.
LEMMA WindowInside ==
  ASSUME data_len \in 0 .. (W - 1), offset \in 0 .. data_len
  PROVE  /\ Want \in Nat
         /\ offset < data_len /\ Overruns => data_len + Chunk > W
<1>1. (offset + Chunk) % W \in Int
  BY SendAssumption
<1>2. CASE offset + Chunk < W
  <2>1. (offset + Chunk) % W = offset + Chunk
    BY <1>2, SendAssumption
  <2> QED
    BY <2>1, SendAssumption DEF Want, Overruns
<1>3. CASE offset + Chunk >= W
  BY <1>1, <1>3, SendAssumption DEF Want, Overruns
<1> QED
  BY <1>2, <1>3, SendAssumption

-----------------------------------------------------------------------------
\* A remembered window is the one the next call asks for, and some of it has
\* still to leave; send() leaves nothing to remember.
PendingIsNext ==
  pending # NoPending =>
    /\ transport = "tls"
    /\ pending.at = offset
    /\ pending.len = Want
    /\ pending.out < Want
    /\ offset < data_len

\* The inductive invariant.
IInv ==
  /\ TypeOK
  /\ PendingIsNext
  /\ wire = Span(0, offset + pending.out)
  /\ status = "sent" => offset = data_len /\ pending = NoPending
  /\ status = "sending" => retry <= MaxRetry
  /\ OverrunOnlyNearLimit
  /\ CallsBounded
-----------------------------------------------------------------------------
\* What a window of the loop can ask for, and what is left of it.
LEMMA WindowFacts ==
  ASSUME TypeOK, PendingIsNext
  PROVE  /\ data_len \in 0 .. (W - 1) /\ offset \in 0 .. data_len
         /\ Want \in Nat
         /\ pending.out \in Nat
         /\ offset < data_len => pending.out = 0 \/ pending.out < Want
<1>1. data_len \in 0 .. (W - 1) /\ offset \in 0 .. data_len
  BY SendAssumption DEF TypeOK
<1>2. Want \in Nat
  BY <1>1, WindowInside
<1> QED
  BY <1>1, <1>2 DEF TypeOK, PendingIsNext, NoPending

THEOREM InitIInv == Init => IInv
<1> SUFFICES ASSUME Init
             PROVE  IInv
  OBVIOUS
<1> USE DEF Init
<1>1. Span(0, 0) = <<>>
  BY DEF Span
<1>2. data_len \in 0 .. (W - 1)
  BY SendAssumption
<1>3. TypeOK
  BY <1>2, SendAssumption DEF TypeOK, NoPending, MaxRetry
<1> QED
  BY <1>1, <1>2, <1>3
     DEF IInv, PendingIsNext, OverrunOnlyNearLimit, CallsBounded, NoPending,
         MaxRetry

\* Accepting n bytes of the window appends exactly the next n positions.
LEMMA AcceptedPreserves ==
  ASSUME IInv, NEW n \in 1 .. Want, Accepted(n)
  PROVE  IInv'
<1> USE DEF IInv
<1>1. /\ data_len \in 0 .. (W - 1) /\ offset \in 0 .. data_len
      /\ Want \in Nat /\ pending.out \in Nat
      /\ pending.out = 0 \/ pending.out < Want
      /\ offset < data_len /\ offset + Want <= data_len
  BY WindowFacts DEF Accepted, Issue, Overruns
<1>2. pending.out <= n
  BY <1>1 DEF PendingIsNext, Accepted, NoPending
<1>3. wire' = Span(0, offset + n) /\ wire' \in Seq(Nat)
  <2>1. wire' = Span(0, offset + pending.out)
                  \o Span(0 + (offset + pending.out), n - pending.out)
    <3>1. 0 + (offset + pending.out) = offset + pending.out
      BY <1>1
    <3> QED
      BY <3>1, Zenon DEF Accepted
  <2>2. /\ offset + pending.out \in Nat /\ n - pending.out \in Nat
        /\ n \in Nat /\ offset + n \in Nat
    BY <1>1, <1>2
  <2>3. wire' = Span(0, offset + pending.out + (n - pending.out))
    BY <2>1, <2>2, SpanAppend, Zenon
  <2>4. offset + pending.out + (n - pending.out) = offset + n
    BY <1>1, <2>2
  <2>5. Span(0, offset + n) \in Seq(Nat)
    BY <2>2, SpanAppend, Zenon
  <2> QED
    BY <2>3, <2>4, <2>5
<1>4. TypeOK'
  BY <1>1, <1>3 DEF TypeOK, Accepted, Issue, NoPending, MaxRetry
<1>5. PendingIsNext' /\ offset' + pending'.out = offset + n
  BY <1>1 DEF PendingIsNext, Accepted, NoPending
<1>6. CallsBounded'
  BY <1>1 DEF TypeOK, CallsBounded, Accepted, Issue, MaxRetry
<1>7. OverrunOnlyNearLimit' /\ status' # "sent" /\ retry' <= MaxRetry
  BY DEF OverrunOnlyNearLimit, Accepted, Issue, MaxRetry
<1> QED
  BY <1>3, <1>4, <1>5, <1>6, <1>7

\* A stall moves at most what is left of the window to the wire, and the
\* memory of it is about the very window the next call will ask for.
LEMMA StalledPreserves ==
  ASSUME IInv, NEW m \in 0 .. (Want - 1), Stalled(m)
  PROVE  IInv'
<1> USE DEF IInv, Stalled
<1>1. /\ data_len \in 0 .. (W - 1) /\ offset \in 0 .. data_len
      /\ Want \in Nat /\ pending.out \in Nat
      /\ offset < data_len
      /\ Want' = Want /\ offset' = offset /\ data_len' = data_len
  BY WindowFacts DEF Stall, Issue, Want
<1>2. /\ pending' \in [at : Nat, len : Nat, out : Nat]
      /\ wire' = Span(0, offset' + pending'.out) /\ wire' \in Seq(Nat)
      /\ PendingIsNext'
  <2>1. CASE transport = "tcp"
    BY <1>1, <2>1 DEF Stall, Issue, PendingIsNext, NoPending, TypeOK
  <2>2. CASE transport = "tls"
    <3>1. /\ pending' = [at |-> offset, len |-> Want, out |-> m]
          /\ m \in Nat /\ m - pending.out \in Nat /\ m < Want
          /\ transport' = "tls"
      BY <1>1, <2>2 DEF Stall, Issue
    <3>2. wire' = Span(0, offset + pending.out)
                    \o Span(0 + (offset + pending.out), m - pending.out)
      <4>1. 0 + (offset + pending.out) = offset + pending.out
        BY <1>1
      <4>2. transport # "tcp"
        BY <2>2
      <4> QED
        BY <4>1, <4>2, Zenon DEF Stall
    <3>3. offset + pending.out \in Nat
      BY <1>1
    <3>4. wire' = Span(0, offset + pending.out + (m - pending.out))
      BY <3>1, <3>2, <3>3, SpanAppend, Zenon
    <3>5. offset + pending.out + (m - pending.out) = offset' + pending'.out
      BY <1>1, <3>1
    <3>6. offset' + pending'.out \in Nat
      BY <1>1, <3>1
    <3>7. Span(0, offset' + pending'.out) \in Seq(Nat)
      BY <3>6, SpanAppend, Zenon
    <3>8. PendingIsNext'
      BY <1>1, <3>1 DEF PendingIsNext
    <3> QED
      BY <1>1, <3>1, <3>4, <3>5, <3>7, <3>8
  <2> QED
    BY <2>1, <2>2 DEF TypeOK
<1>3. TypeOK'
  BY <1>1, <1>2 DEF TypeOK, Stall, Issue, MaxRetry
<1>4. CallsBounded'
  BY <1>1 DEF TypeOK, CallsBounded, Stall, Issue, MaxRetry
<1>5. /\ OverrunOnlyNearLimit' /\ status' # "sent"
      /\ status' = "sending" => retry' <= MaxRetry
  BY DEF OverrunOnlyNearLimit, Stall, Issue, TypeOK, MaxRetry
<1> QED
  BY <1>2, <1>3, <1>4, <1>5

\* The steps that end the function, and stuttering.
LEMMA EndingPreserves ==
  ASSUME IInv, Failed \/ BrokenPipe \/ Overrun \/ Finish \/ UNCHANGED vars
  PROVE  IInv'
<1> USE DEF IInv
<1>1. /\ data_len \in 0 .. (W - 1) /\ offset \in 0 .. data_len
      /\ offset < data_len => pending.out = 0 \/ pending.out < Want
  BY WindowFacts
<1>2. CASE Failed \/ BrokenPipe
  <2>1. TypeOK' /\ CallsBounded'
    BY <1>2 DEF Failed, BrokenPipe, Issue, TypeOK, CallsBounded, MaxRetry
  <2>2. Want' = Want
    BY <1>2 DEF Failed, BrokenPipe, Issue, Want
  <2> QED
    BY <1>2, <2>1, <2>2
       DEF Failed, BrokenPipe, Issue, PendingIsNext, OverrunOnlyNearLimit
<1>3. CASE Overrun
  <2>1. data_len' + Chunk > W
    BY <1>1, <1>3, WindowInside DEF Overrun
  <2>2. TypeOK' /\ CallsBounded' /\ Want' = Want
    BY <1>3 DEF Overrun, TypeOK, CallsBounded, MaxRetry, Want
  <2> QED
    BY <1>3, <2>1, <2>2 DEF Overrun, PendingIsNext, OverrunOnlyNearLimit
<1>4. CASE Finish
  <2>1. offset = data_len /\ pending = NoPending
    BY <1>1, <1>4 DEF Finish, PendingIsNext
  <2>2. TypeOK' /\ CallsBounded' /\ Want' = Want
    BY <1>4 DEF Finish, TypeOK, CallsBounded, MaxRetry, Want
  <2> QED
    BY <1>4, <2>1, <2>2 DEF Finish, PendingIsNext, OverrunOnlyNearLimit
<1>5. CASE UNCHANGED vars
  BY <1>5 DEF vars, TypeOK, PendingIsNext, OverrunOnlyNearLimit, CallsBounded,
              Want
<1> QED
  BY <1>2, <1>3, <1>4, <1>5

-----------------------------------------------------------------------------
\* IInv holds in every reachable state.
THEOREM Invariance == Spec => []IInv
<1>1. ASSUME IInv, [Next]_vars
      PROVE  IInv'
  <2>1. ASSUME NEW n \in 1 .. Want, Accepted(n)
        PROVE  IInv'
    BY <1>1, <2>1, AcceptedPreserves
  <2>2. ASSUME NEW m \in 0 .. (Want - 1), Stalled(m)
        PROVE  IInv'
    BY <1>1, <2>2, StalledPreserves
  <2>3. CASE Failed \/ BrokenPipe \/ Overrun \/ Finish \/ UNCHANGED vars
    BY <1>1, <2>3, EndingPreserves
  <2> QED
    BY <1>1, <2>1, <2>2, <2>3 DEF Next
<1> QED
  BY <1>1, InitIInv, PTL DEF Spec

\* Every variable of a send loop keeps its type; the offset never passes the
\* end of the buffer and the retry counter never passes its limit.
THEOREM TypeCorrect == Spec => []TypeOK
<1>1. IInv => TypeOK
  BY DEF IInv
<1> QED
  BY <1>1, Invariance, PTL

\* The bytes of the buffer leave in order, once each, and 0 is returned only
\* when all have left, for buffers and windows of any size.
THEOREM DeliveryExact == Spec => []ExactDelivery
<1>1. ASSUME IInv
      PROVE  ExactDelivery
  <2>1. data_len \in Nat /\ offset \in Nat /\ pending.out \in Nat
    BY <1>1, WindowFacts DEF IInv
  <2>2. status = "sent" => offset + pending.out = data_len
    BY <1>1, <2>1 DEF IInv, NoPending
  <2>3. Len(Span(0, offset + pending.out)) = offset + pending.out
    <3>1. offset + pending.out \in Nat
      BY <2>1
    <3> QED
      BY <3>1, SpanAppend, Zenon
  <2> QED
    BY <1>1, <2>2, <2>3 DEF IInv, ExactDelivery
<1> QED
  BY <1>1, Invariance, PTL

\* A stalled SSL_write is always repeated with the same buffer and length.
THEOREM RetriesRepeat == Spec => []RetryRepeatsCall
<1>1. IInv => RetryRepeatsCall
  BY DEF IInv, PendingIsNext, RetryRepeatsCall
<1> QED
  BY <1>1, Invariance, PTL

\* Only a buffer within Chunk bytes of the largest unsigned int can make a
\* window reach past its end.
THEOREM OverrunNearLimit == Spec => []OverrunOnlyNearLimit
<1>1. IInv => OverrunOnlyNearLimit
  BY DEF IInv
<1> QED
  BY <1>1, Invariance, PTL

\* The number of system calls is bounded by the progress made.
THEOREM CallsAreBounded == Spec => []CallsBounded
<1>1. IInv => CallsBounded
  BY DEF IInv
<1> QED
  BY <1>1, Invariance, PTL
=============================================================================
