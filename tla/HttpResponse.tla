---------------------------- MODULE HttpResponse ----------------------------
(***************************************************************************)
(* get_http_response (http.c) reading one reply through env_read_tcp_data  *)
(* or env_read_secure_data: recv() and SSL_read() hand over any non-empty  *)
(* part of what the server has sent, so that the header may arrive in      *)
(* pieces and may bring a part of the body along.  That part is copied as  *)
(* a C string, the rest is read straight into the body buffer.             *)
(***************************************************************************)
EXTENDS Integers, Sequences, Stream

CONSTANTS HdrCap,     \* bytes of header[] that can be filled (2048)
          W,          \* the number of values of an unsigned int (2^32)
          Replies     \* the replies a server may give

\* The Content-Length of a reply that has none as the code looks for it
\* (absent, chunked, in lower case), and of one whose value is not a number.
NoLength == -1
NotANumber == -2

\* The largest int, in a world of W unsigned ints.
MaxInt == (W \div 2) - 1

\* A reply: its header is hlen bytes long up to the end of the blank line, its
\* body body_len bytes, of which those at the positions nuls are NUL; declared
\* is its Content-Length; sent bytes of it reach the client; status_ok says
\* that its first line has the form "HTTP/1.x <number> ".
Reply == [hlen : Nat \ {0}, body_len : Nat, nuls : SUBSET Nat, sent : Nat,
          declared : Nat \cup {NoLength, NotANumber}, status_ok : BOOLEAN]

ASSUME ReplyAssumption ==
  /\ HdrCap \in Nat
  /\ W \in Nat \ {0, 1}
  /\ Replies \subseteq Reply
  /\ \A r \in Replies : r.sent <= r.hlen + r.body_len

VARIABLES reply,           \* what the server answers
          got,             \* bytes taken from the connection
          len_received,    \* bytes of the header, then of the body
          content_length,  \* as parsed from the header
          body,            \* stream positions stored in out->body
          tries,           \* fruitless recv() or SSL_read() of this read
          phase            \* how far the function got

vars == <<reply, got, len_received, content_length, body, tries, phase>>

\* v as an int: env_read_*_data take their max_len as one.
ToInt(v) == IF v > MaxInt THEN v - W ELSE v

\* The bytes the body loop still wants, computed in an unsigned int.
Missing == (content_length - len_received) % W

\* The reads of one env_read_*_data call before it reports a timeout.
MaxTries == 3

Init ==
  /\ reply \in Replies
  /\ got = 0
  /\ len_received = 0
  /\ content_length = 0
  /\ body = <<>>
  /\ tries = 0
  /\ phase = "header"

\* A read brings k bytes: more than none, at most max_len and what was sent.
Arrive(k, max_len) ==
  /\ 0 < k /\ k <= max_len /\ got + k <= reply.sent
  /\ got' = got + k
  /\ tries' = 0
  /\ UNCHANGED reply

\* The header goes on: look for its end in the next read.
HeaderPart(k) ==
  /\ phase = "header"
  /\ Arrive(k, HdrCap - len_received)
  /\ len_received + k < reply.hlen
  /\ len_received' = len_received + k
  /\ UNCHANGED <<content_length, body, phase>>

\* Mutant of Parsed: the length is kept in a wider integer.
ParsedWide == IF reply.declared = NoLength THEN 0 ELSE reply.declared

\* What sscanf makes of the reply's Content-Length.
Parsed == IF reply.declared = NoLength THEN 0 ELSE reply.declared % W

\* strcpy takes n of the body's bytes: up to a NUL or the end of what has
\* arrived.
StringLength(n) ==
  /\ \A p \in reply.nuls : ~(reply.hlen <= p /\ p < reply.hlen + n)
  /\ reply.hlen + n \in reply.nuls \/ reply.hlen + n = got'

\* What follows once len bytes of the body are there: more reads, or the
\* status line.
Proceed(len) ==
  phase' = IF (content_length' - len) % W > 0 THEN "body"
           ELSE IF reply.status_ok THEN "ok" ELSE "fail"

\* Mutant of TooLong: the buffer has no room for the NUL.
TooLongExact(n) == n + 1 > content_length' % W

\* n bytes and a NUL do not fit into what env_malloc(content_length + 1) gave.
TooLong(n) == n + 1 > (content_length' + 1) % W

\* Mutant of HeaderEnds: counts the bytes that arrived with the header, not
\* those strcpy has copied.
HeaderEndsCounting(k) ==
  /\ phase = "header"
  /\ Arrive(k, HdrCap - len_received)
  /\ len_received + k >= reply.hlen
  /\ reply.declared # NotANumber
  /\ content_length' = Parsed
  /\ \E n \in 0 .. (got' - reply.hlen) :
       /\ IF Parsed = 0 THEN n = 0 ELSE StringLength(n)
       /\ body' = Span(reply.hlen, n)
       /\ len_received' = IF Parsed = 0 THEN 0 ELSE got' - reply.hlen
       /\ IF TooLong(n) THEN phase' = "overrun" ELSE Proceed(len_received')

\* Mutant of HeaderEnds: forgets the part of the body that came along.
HeaderEndsDropping(k) ==
  /\ phase = "header"
  /\ Arrive(k, HdrCap - len_received)
  /\ len_received + k >= reply.hlen
  /\ reply.declared # NotANumber
  /\ content_length' = Parsed
  /\ body' = <<>>
  /\ len_received' = 0
  /\ IF TooLong(0) THEN phase' = "overrun" ELSE Proceed(0)

\* The read completes the header: out->header and out->body are allocated, the
\* length is parsed, the part of the body that came along is copied.
HeaderEnds(k) ==
  /\ phase = "header"
  /\ Arrive(k, HdrCap - len_received)
  /\ len_received + k >= reply.hlen
  /\ reply.declared # NotANumber
  /\ content_length' = Parsed
  /\ \E n \in 0 .. (got' - reply.hlen) :
       /\ IF Parsed = 0 THEN n = 0 ELSE StringLength(n)
       /\ body' = Span(reply.hlen, n)
       /\ len_received' = n
       /\ IF TooLong(n) THEN phase' = "overrun" ELSE Proceed(n)

\* The read completes the header, but its Content-Length is not a number.
HeaderEndsNAN(k) ==
  /\ phase = "header"
  /\ Arrive(k, HdrCap - len_received)
  /\ len_received + k >= reply.hlen
  /\ reply.declared = NotANumber
  /\ len_received' = len_received + k
  /\ phase' = "fail"
  /\ UNCHANGED <<content_length, body>>

\* header[] is full and the blank line is not in it.
HeaderFull ==
  /\ phase = "header"
  /\ HdrCap - len_received <= 0
  /\ phase' = "fail"
  /\ UNCHANGED <<reply, got, len_received, content_length, body, tries>>

\* A read brings k more bytes of the body; an int that passes MaxInt leaves
\* the buffer.
BodyPart(k) ==
  /\ phase = "body"
  /\ Arrive(k, ToInt(Missing))
  /\ body' = body \o Span(got, k)
  /\ len_received' = len_received + k
  /\ UNCHANGED content_length
  /\ IF len_received + k > MaxInt THEN phase' = "overrun"
     ELSE Proceed(len_received + k)

\* What is missing is not a positive int: env_read_*_data return 0 at once.
BodyRefused ==
  /\ phase = "body"
  /\ ToInt(Missing) <= 0
  /\ phase' = "fail"
  /\ UNCHANGED <<reply, got, len_received, content_length, body, tries>>

\* The function is about to call recv() or SSL_read().
Reading ==
  \/ phase = "header" /\ HdrCap - len_received > 0
  \/ phase = "body" /\ ToInt(Missing) > 0

\* Mutant of ReadStalls: the counter is never compared with its limit.
ReadStallsForever ==
  /\ Reading
  /\ tries' = (tries + 1) % MaxTries
  /\ UNCHANGED <<reply, got, len_received, content_length, body, phase>>

\* EAGAIN, EINTR, SSL_ERROR_WANT_READ or _WRITE, or recv() returned 0.
ReadStalls ==
  /\ Reading
  /\ tries' = tries + 1
  /\ phase' = IF tries' = MaxTries THEN "fail" ELSE phase
  /\ UNCHANGED <<reply, got, len_received, content_length, body>>

\* Any other error, among them the end of a TLS connection.
ReadFails ==
  /\ Reading
  /\ phase' = "fail"
  /\ UNCHANGED <<reply, got, len_received, content_length, body, tries>>

Read(k) == HeaderPart(k) \/ HeaderEnds(k) \/ HeaderEndsNAN(k) \/ BodyPart(k)

Next ==
  \/ \E k \in 1 .. (reply.sent - got) : Read(k)
  \/ HeaderFull
  \/ BodyRefused
  \/ ReadStalls
  \/ ReadFails

Spec == Init /\ [][Next]_vars

\* Every read returns: the sockets have a receive timeout of five seconds.
FairSpec == Spec /\ WF_vars(Next)
-----------------------------------------------------------------------------
TypeOK ==
  /\ reply \in Replies
  /\ got \in 0 .. reply.sent
  /\ len_received \in Nat
  /\ content_length \in 0 .. (W - 1)
  /\ body \in Seq(Nat)
  /\ tries \in 0 .. MaxTries
  /\ phase \in {"header", "body", "ok", "fail", "overrun"}

\* A reply of a server that keeps to HTTP, short enough for an int.
WellFramed ==
  /\ reply.declared = reply.body_len
  /\ reply.declared <= MaxInt

\* Whatever the segments the reply arrives in and whatever bytes it holds, a
\* response that is reported as received has the body the server sent, every
\* byte of it in its place.
BodyIntact == phase = "ok" /\ WellFramed => body = Span(reply.hlen, reply.body_len)

\* The body stays inside its buffer unless the server sends more than it has
\* declared or the length is no int.
OverrunOnlyMisframed == phase = "overrun" => ~WellFramed

\* A reply that has arrived in full, has no NUL in it, a header that fits and
\* a status line is not reported as an error, however it was cut up.
CompleteReplyAccepted ==
  /\ phase = "fail"
  /\ WellFramed
  /\ reply.nuls = {}
  /\ reply.hlen <= HdrCap
  /\ reply.status_ok
  => got < reply.hlen + reply.body_len

\* The function returns, whatever the server does.
Returns == <>(phase \notin {"header", "body"})

\* What the documentation of the API promises of every successful response:
\* the server's body is in it.
ResponseHasBody == phase = "ok" => Len(body) = reply.body_len
=============================================================================
