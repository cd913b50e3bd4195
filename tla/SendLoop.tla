------------------------------ MODULE SendLoop ------------------------------
(***************************************************************************)
(* The two loops that push a buffer of data_len bytes into a connection:   *)
(* env_send_n_tcp_data (tcp.c) over send() and env_send_n_secure_data      *)
(* (ssl.c) over SSL_write().  They have the same control: ask for a window *)
(* of at most Chunk bytes at offset, advance by what was accepted, retry   *)
(* the window when the call stalled, give up after MaxRetry stalls in a    *)
(* row.  They differ in what one call may do: send() may accept part of    *)
(* the window; SSL_write() accepts all of it or stalls, and a stalled call *)
(* may have put records of the window on the wire already, which OpenSSL   *)
(* remembers and does not send again when the call is repeated unchanged.  *)
(***************************************************************************)
EXTENDS Integers, Sequences, Stream

CONSTANTS Chunk,      \* the largest window of one call (60000)
          W,          \* the number of values of an unsigned int (2^32)
          DataLens    \* the buffer lengths a caller may pass

ASSUME SendAssumption ==
  /\ Chunk \in Nat \ {0}
  /\ W \in Nat
  /\ Chunk < W
  /\ DataLens \subseteq 0 .. (W - 1)

VARIABLES transport,  \* "tcp" or "tls": which of the two loops runs
          data_len,   \* the length of the caller's buffer
          offset,     \* bytes accepted so far
          retry,      \* stalls since the last accepted window
          pending,    \* OpenSSL's memory of a stalled SSL_write
          wire,       \* positions of the buffer put on the wire, in order
          calls,      \* history: how many send() or SSL_write() were issued
          status      \* how far the function got

vars == <<transport, data_len, offset, retry, pending, wire, calls, status>>

\* The literal both loops compare their retry counter with.
MaxRetry == 3

\* No SSL_write is waiting to be repeated.
NoPending == [at |-> 0, len |-> 0, out |-> 0]

\* Mutant of Want: every call asks for a full window.
WantFull == Chunk

\* The length of the window the next call asks for.  The sum is computed in
\* an unsigned int and wraps.
Want == IF (offset + Chunk) % W <= data_len THEN Chunk ELSE data_len - offset

\* The window reaches past the end of the caller's buffer.
Overruns == offset + Want > data_len

Init ==
  /\ transport \in {"tcp", "tls"}
  /\ data_len \in DataLens
  /\ offset = 0
  /\ retry = 0
  /\ pending = NoPending
  /\ wire = <<>>
  /\ calls = 0
  /\ status = "sending"

\* The loop issues one more call, with a window inside the buffer.
Issue ==
  /\ status = "sending"
  /\ offset < data_len
  /\ ~Overruns
  /\ calls' = calls + 1
  /\ UNCHANGED <<transport, data_len>>

\* Mutant of Accepted: takes every call to have accepted its whole window.
AcceptedWhole(n) ==
  /\ Issue
  /\ transport = "tls" => n = Want
  /\ wire' = wire \o Span(offset + pending.out, n - pending.out)
  /\ offset' = offset + Want
  /\ retry' = 0
  /\ pending' = NoPending
  /\ UNCHANGED status

\* The call returns n > 0: that many bytes of the window were accepted.
Accepted(n) ==
  /\ Issue
  /\ transport = "tls" => n = Want
  /\ wire' = wire \o Span(offset + pending.out, n - pending.out)
  /\ offset' = offset + n
  /\ retry' = 0
  /\ pending' = NoPending
  /\ UNCHANGED status

\* One call stalls.  On TLS, m bytes of its window have left by now, and
\* OpenSSL remembers the window.
Stall(m) ==
  /\ Issue
  /\ IF transport = "tcp"
     THEN m = 0 /\ UNCHANGED <<pending, wire>>
     ELSE /\ m >= pending.out
          /\ pending' = [at |-> offset, len |-> Want, out |-> m]
          /\ wire' = wire \o Span(offset + pending.out, m - pending.out)

\* Mutant of Stalled: gives up one stall late.
StalledLate(m) ==
  /\ Stall(m)
  /\ retry' = retry + 1
  /\ status' = IF retry > MaxRetry THEN "timeout" ELSE status
  /\ UNCHANGED offset

\* Mutant of Stalled: never counts a stall.
StalledUncounted(m) == Stall(m) /\ UNCHANGED <<retry, status, offset>>

\* Mutant of Stalled: steps over the bytes that have left already.
StalledAdvances(m) ==
  /\ Stall(m)
  /\ retry' = retry + 1
  /\ status' = IF retry + 1 > MaxRetry THEN "timeout" ELSE status
  /\ offset' = offset + m

\* The call returns -1 with EINTR or EAGAIN, SSL_ERROR_WANT_READ or
\* SSL_ERROR_WANT_WRITE: the same window is asked for again, a few times.
Stalled(m) ==
  /\ Stall(m)
  /\ retry' = retry + 1
  /\ status' = IF retry + 1 > MaxRetry THEN "timeout" ELSE status
  /\ UNCHANGED offset

\* Any other error ends the function with -1.
Failed ==
  /\ Issue
  /\ status' = "error"
  /\ UNCHANGED <<offset, retry, pending, wire>>

\* The peer has reset the connection: send() is given no MSG_NOSIGNAL, so the
\* kernel raises SIGPIPE, whose default action ends the process.
BrokenPipe ==
  /\ Issue
  /\ status' = "sigpipe"
  /\ UNCHANGED <<offset, retry, pending, wire>>

\* The window reaches past the buffer: undefined from here on.
Overrun ==
  /\ status = "sending"
  /\ offset < data_len
  /\ Overruns
  /\ status' = "overrun"
  /\ UNCHANGED <<transport, data_len, offset, retry, pending, wire, calls>>

\* Mutant of Finish: the loop test is off by one.
FinishLate ==
  /\ status = "sending"
  /\ offset > data_len
  /\ status' = "sent"
  /\ UNCHANGED <<transport, data_len, offset, retry, pending, wire, calls>>

\* while(offset < data_len) is left: return 0.
Finish ==
  /\ status = "sending"
  /\ offset >= data_len
  /\ status' = "sent"
  /\ UNCHANGED <<transport, data_len, offset, retry, pending, wire, calls>>

Next ==
  \/ \E n \in 1 .. Want : Accepted(n)
  \/ \E m \in 0 .. (Want - 1) : Stalled(m)
  \/ Failed
  \/ BrokenPipe
  \/ Overrun
  \/ Finish

Spec == Init /\ [][Next]_vars

\* Every call returns: the socket has a 5 second SO_SNDTIMEO and SO_RCVTIMEO.
FairSpec == Spec /\ WF_vars(Next)
-----------------------------------------------------------------------------
TypeOK ==
  /\ transport \in {"tcp", "tls"}
  /\ data_len \in DataLens
  /\ offset \in 0 .. data_len
  /\ retry \in 0 .. (MaxRetry + 1)
  /\ pending \in [at : Nat, len : Nat, out : Nat]
  /\ wire \in Seq(Nat)
  /\ calls \in Nat
  /\ status \in {"sending", "sent", "timeout", "error", "sigpipe", "overrun"}

\* However the kernel splits windows and however often calls stall, the bytes
\* leave in order, once each and without a gap, and 0 is returned only when
\* the last of them has left.
ExactDelivery ==
  /\ wire = Span(0, offset + pending.out)
  /\ status = "sent" => Len(wire) = data_len

\* A stalled SSL_write is repeated with the same buffer and length, as OpenSSL
\* demands (a different one is a "bad write retry" error), although the loop
\* computes the window anew each time.
RetryRepeatsCall ==
  pending # NoPending => pending.at = offset /\ pending.len = Want

\* The window stays inside the caller's buffer unless the buffer ends within
\* Chunk bytes of the largest unsigned int, where offset + 60000 wraps.
OverrunOnlyNearLimit == status = "overrun" => data_len + Chunk > W

\* One function call issues at most MaxRetry + 1 system calls for each byte it
\* makes progress by, so that it can block for at most that many timeouts.
CallsBounded ==
  LET lastCall == IF status \in {"error", "sigpipe"} THEN 1 ELSE 0
  IN calls <= (MaxRetry + 1) * offset + retry + lastCall

\* The function returns (or the process ends), whatever the peer does.
Returns == <>(status # "sending")
=============================================================================
