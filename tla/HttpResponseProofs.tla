------------------------- MODULE HttpResponseProofs -------------------------
(***************************************************************************)
(* What HttpResponse.cfg checks in a world of 16 values, proved for every  *)
(* header buffer, every width of an int and every reply.                   *)
(***************************************************************************)
EXTENDS HttpResponse, StreamProofs, TLAPS

-----------------------------------------------------------------------------
\* What is known while the header is read: everything taken from the
\* connection is in header[] and its end has not been seen.
InHeader ==
  phase = "header" => len_received = got /\ got < reply.hlen /\ body = <<>>

\* What is known once the body buffer exists: it holds no more than has
\* arrived, and if it holds as much, it holds just that.
InBody ==
  phase \in {"body", "ok"} =>
    /\ reply.hlen + len_received <= got
    /\ reply.hlen + len_received = got => body = Span(reply.hlen, len_received)

\* What a well framed reply adds: the parsed length is the body's, and the
\* bytes are counted right when no NUL has cut the first part short.
InFrame ==
  phase \in {"body", "ok"} /\ WellFramed =>
    /\ content_length = reply.body_len
    /\ reply.nuls = {} => reply.hlen + len_received = got
    /\ phase = "body" => len_received < reply.body_len
    /\ phase = "ok" => len_received = reply.body_len

\* The inductive invariant.
IInv ==
  /\ TypeOK
  /\ phase \in {"header", "body"} => tries < MaxTries
  /\ InHeader
  /\ InBody
  /\ InFrame
  /\ OverrunOnlyMisframed
  /\ CompleteReplyAccepted

\* The types of the parts of a reply, and how they bound what is taken.
LEMMA ReplyFacts ==
  ASSUME TypeOK
  PROVE  /\ reply \in Replies
         /\ reply.hlen \in Nat \ {0} /\ reply.body_len \in Nat
         /\ reply.sent \in Nat /\ reply.status_ok \in BOOLEAN
         /\ reply.declared \in Int
         /\ reply.sent <= reply.hlen + reply.body_len
         /\ got \in Nat /\ got <= reply.sent
<1>1. reply \in Reply /\ reply.sent <= reply.hlen + reply.body_len
  BY ReplyAssumption DEF TypeOK
<1> QED
  BY <1>1 DEF TypeOK, Reply, NoLength, NotANumber

\* A number below the width of an unsigned int is not changed by it, and one
\* that fits an int is positive as one.
LEMMA Widths ==
  ASSUME NEW v \in Nat
  PROVE  /\ v < W => v % W = v
         /\ v <= MaxInt => v + 1 < W /\ v % W = v /\ (v + 1) % W = v + 1
                           /\ ToInt(v % W) = v
<1>1. v < W => v % W = v
  BY ReplyAssumption
<1>2. MaxInt \in Int /\ (v <= MaxInt => v + 1 < W)
  BY ReplyAssumption DEF MaxInt
<1>3. v + 1 < W => (v + 1) % W = v + 1
  BY ReplyAssumption
<1>4. v <= MaxInt => ToInt(v) = v
  BY <1>2 DEF ToInt
<1>5. v + 1 < W => v < W
  BY ReplyAssumption
<1> QED
  BY <1>1, <1>2, <1>3, <1>4, <1>5, Zenon

-----------------------------------------------------------------------------
THEOREM InitIInv == Init => IInv
<1> SUFFICES ASSUME Init
             PROVE  IInv
  OBVIOUS
<1>1. reply \in Reply
  BY ReplyAssumption DEF Init
<1> QED
  BY <1>1, ReplyAssumption
     DEF Init, IInv, TypeOK, InHeader, InBody, InFrame, OverrunOnlyMisframed,
         CompleteReplyAccepted, MaxTries, Reply

\* A read leaves what has been taken within what was sent.
LEMMA ArriveFacts ==
  ASSUME TypeOK, NEW k \in Nat, NEW max_len \in Int, Arrive(k, max_len)
  PROVE  /\ reply' = reply /\ got' = got + k /\ got' \in 0 .. reply.sent
         /\ tries' = 0 /\ k > 0 /\ WellFramed' = WellFramed
<1> QED
  BY ReplyFacts DEF Arrive, WellFramed

LEMMA HeaderPartPreserves ==
  ASSUME IInv, NEW k \in Nat, HeaderPart(k)
  PROVE  IInv'
<1> USE DEF IInv
<1>1. len_received \in Nat /\ HdrCap - len_received \in Int
  BY ReplyAssumption DEF TypeOK
<1>2. /\ reply' = reply /\ got' = got + k /\ got' \in 0 .. reply.sent
      /\ tries' = 0
  BY <1>1, ArriveFacts DEF HeaderPart
<1>3. TypeOK'
  BY <1>1, <1>2 DEF HeaderPart, TypeOK, MaxTries
<1>4. phase' = "header" /\ InHeader'
  BY <1>1, <1>2 DEF HeaderPart, InHeader
<1> QED
  BY <1>2, <1>3, <1>4
     DEF InBody, InFrame, OverrunOnlyMisframed, CompleteReplyAccepted, MaxTries

LEMMA HeaderEndsPreserves ==
  ASSUME IInv, NEW k \in Nat, HeaderEnds(k)
  PROVE  IInv'
<1> USE DEF IInv
<1>1. /\ len_received \in Nat /\ HdrCap - len_received \in Int
      /\ len_received = got /\ len_received + k >= reply.hlen
  BY ReplyAssumption DEF TypeOK, HeaderEnds, InHeader
<1>2. /\ reply' = reply /\ got' = got + k /\ got' \in 0 .. reply.sent
      /\ tries' = 0 /\ WellFramed' = WellFramed
  BY <1>1, ArriveFacts DEF HeaderEnds
<1>3. PICK n \in 0 .. (got' - reply.hlen) :
        /\ IF Parsed = 0 THEN n = 0 ELSE StringLength(n)
        /\ body' = Span(reply.hlen, n)
        /\ len_received' = n
        /\ IF TooLong(n) THEN phase' = "overrun" ELSE Proceed(n)
  BY DEF HeaderEnds
<1>4. /\ reply.hlen \in Nat /\ reply.body_len \in Nat /\ n \in Nat
      /\ got' <= reply.hlen + reply.body_len /\ got' \in Nat
      /\ reply.declared \in Int /\ reply.status_ok \in BOOLEAN
      /\ reply.hlen + n <= got' /\ n <= reply.body_len
  BY <1>1, <1>2, <1>3, ReplyFacts
<1>5. content_length' = Parsed /\ Parsed \in 0 .. (W - 1)
  BY <1>4, ReplyAssumption DEF HeaderEnds, Parsed
<1>6. phase' \in {"body", "ok", "fail", "overrun"}
  BY <1>3 DEF Proceed
<1>7. Span(reply.hlen, n) \in Seq(Nat)
  BY <1>4, SpanAppend, Zenon
<1>8. TypeOK'
  BY <1>2, <1>3, <1>4, <1>5, <1>6, <1>7 DEF TypeOK, MaxTries
<1>9. InBody'
  BY <1>2, <1>3, <1>4 DEF InBody
<1>10. ASSUME WellFramed
       PROVE  /\ content_length' = reply.body_len
              /\ phase' # "overrun"
              /\ phase' = "body" => n < reply.body_len
              /\ phase' = "ok" => n = reply.body_len
              /\ phase' = "fail" => ~reply.status_ok
              /\ reply.nuls = {} => reply.hlen + n = got'
  <2>1. /\ content_length' = reply.body_len
        /\ (content_length' + 1) % W = reply.body_len + 1
    BY <1>4, <1>5, <1>10, Widths DEF WellFramed, Parsed, NoLength
  <2>2. ~TooLong(n)
    BY <1>4, <2>1 DEF TooLong
  <2>3. /\ content_length' - n \in Nat
        /\ (content_length' - n) % W = content_length' - n
    <3>1. content_length' - n \in Nat /\ content_length' - n < W
      BY <1>4, <1>5, <2>1, ReplyAssumption
    <3> QED
      BY <3>1, Widths, Zenon
  <2>4. phase' = IF content_length' - n > 0 THEN "body"
                 ELSE IF reply.status_ok THEN "ok" ELSE "fail"
    BY <1>3, <2>2, <2>3 DEF Proceed
  <2>5. reply.nuls = {} => reply.hlen + n = got'
    BY <1>3, <1>4, <1>5, <2>1 DEF StringLength
  <2> QED
    BY <1>4, <2>1, <2>4, <2>5
<1>11. InHeader' /\ InFrame' /\ OverrunOnlyMisframed' /\ CompleteReplyAccepted'
  BY <1>2, <1>3, <1>6, <1>10
     DEF InHeader, InFrame, OverrunOnlyMisframed, CompleteReplyAccepted
<1> QED
  BY <1>2, <1>8, <1>9, <1>11 DEF MaxTries

LEMMA HeaderEndsNANPreserves ==
  ASSUME IInv, NEW k \in Nat, HeaderEndsNAN(k)
  PROVE  IInv'
<1> USE DEF IInv
<1>1. len_received \in Nat /\ HdrCap - len_received \in Int
  BY ReplyAssumption DEF TypeOK
<1>2. /\ reply' = reply /\ got' = got + k /\ got' \in 0 .. reply.sent
      /\ tries' = 0
  BY <1>1, ArriveFacts DEF HeaderEndsNAN
<1>3. TypeOK' /\ phase' = "fail"
  BY <1>1, <1>2 DEF HeaderEndsNAN, TypeOK, MaxTries
<1>4. ~WellFramed'
  BY <1>2, ReplyFacts DEF HeaderEndsNAN, WellFramed, NotANumber
<1> QED
  BY <1>3, <1>4
     DEF InHeader, InBody, InFrame, OverrunOnlyMisframed, CompleteReplyAccepted

LEMMA BodyPartPreserves ==
  ASSUME IInv, NEW k \in Nat, BodyPart(k)
  PROVE  IInv'
<1> USE DEF IInv
<1>1. /\ len_received \in Nat /\ content_length \in 0 .. (W - 1)
      /\ Missing \in Int /\ ToInt(Missing) \in Int /\ MaxInt \in Int
  BY ReplyAssumption DEF TypeOK, Missing, ToInt, MaxInt
<1>2. /\ reply' = reply /\ got' = got + k /\ got' \in 0 .. reply.sent
      /\ tries' = 0 /\ WellFramed' = WellFramed
  BY <1>1, ArriveFacts DEF BodyPart
<1>3. /\ reply.hlen \in Nat /\ reply.body_len \in Nat /\ got \in Nat
      /\ got + k <= reply.hlen + reply.body_len
      /\ reply.hlen + len_received <= got
      /\ reply.declared \in Int
  BY <1>1, <1>2, ReplyFacts DEF BodyPart, InBody
<1>4. /\ body' = body \o Span(got, k)
      /\ len_received' = len_received + k /\ content_length' = content_length
      /\ phase' \in {"body", "ok", "fail", "overrun"}
  BY DEF BodyPart, Proceed
<1>10. /\ got' = got + k /\ k \in Nat /\ got \in Nat /\ len_received \in Nat
       /\ len_received' = len_received + k /\ content_length' = content_length
       /\ reply.hlen \in Nat /\ reply.body_len \in Nat
  BY <1>1, <1>2, <1>3, <1>4
<1>5. body' \in Seq(Nat)
  <2>1. Span(got, k) \in Seq(Nat)
    BY <1>3, SpanAppend, Zenon
  <2> QED
    BY <1>4, <2>1 DEF TypeOK
<1>6. TypeOK'
  BY <1>1, <1>2, <1>4, <1>5 DEF TypeOK, MaxTries
<1>7. InBody'
  <2>1. reply.hlen + len_received' <= got'
    BY <1>1, <1>2, <1>3, <1>4
  <2>2. ASSUME reply.hlen + len_received' = got'
        PROVE  body' = Span(reply.hlen, len_received')
    <3>1. got = reply.hlen + len_received
      BY <1>10, <2>2
    <3>2. body = Span(reply.hlen, len_received)
      BY <3>1 DEF BodyPart, InBody
    <3>3. body' = Span(reply.hlen, len_received)
                    \o Span(reply.hlen + len_received, k)
      BY <1>4, <3>1, <3>2, Zenon
    <3>4. body' = Span(reply.hlen, len_received + k)
      BY <1>1, <1>3, <3>3, SpanAppend, Zenon
    <3> QED
      BY <1>4, <3>4
  <2> QED
    BY <1>2, <2>1, <2>2 DEF InBody
<1>8. ASSUME WellFramed
      PROVE  /\ content_length = reply.body_len
             /\ phase' # "overrun"
             /\ phase' = "body" => len_received + k < reply.body_len
             /\ phase' = "ok" => len_received + k = reply.body_len
             /\ phase' = "fail" => ~reply.status_ok
             /\ reply.nuls = {} => reply.hlen + len_received + k = got'
  <2>1. /\ content_length = reply.body_len
        /\ reply.nuls = {} => reply.hlen + len_received = got
    BY <1>8 DEF BodyPart, InFrame
  <2>2. len_received + k \in Nat /\ len_received + k <= reply.body_len
    BY <1>1, <1>3
  <2>3. len_received + k <= MaxInt
    BY <1>1, <1>3, <1>8, <2>2 DEF WellFramed
  <2>4. /\ content_length' - (len_received + k) \in Nat
        /\ (content_length' - (len_received + k)) % W
              = content_length' - (len_received + k)
    <3>1. /\ content_length' - (len_received + k) \in Nat
          /\ content_length' - (len_received + k) < W
      BY <1>1, <1>10, <2>1, <2>2, ReplyAssumption
    <3> QED
      BY <3>1, Widths, Zenon
  <2>5. phase' = IF content_length' - (len_received + k) > 0 THEN "body"
                 ELSE IF reply.status_ok THEN "ok" ELSE "fail"
    BY <1>1, <2>3, <2>4 DEF BodyPart, Proceed
  <2> QED
    BY <1>10, <2>1, <2>2, <2>5
<1>9. InHeader' /\ InFrame' /\ OverrunOnlyMisframed' /\ CompleteReplyAccepted'
  BY <1>1, <1>2, <1>3, <1>4, <1>8
     DEF InHeader, InFrame, OverrunOnlyMisframed, CompleteReplyAccepted
<1> QED
  BY <1>2, <1>6, <1>7, <1>9 DEF MaxTries

\* The steps that take nothing from the connection, and stuttering.  A reply
\* that has arrived in full is never waited for.
LEMMA OtherPreserves ==
  ASSUME IInv, HeaderFull \/ BodyRefused \/ ReadStalls \/ ReadFails
               \/ UNCHANGED vars
  PROVE  IInv'
<1> USE DEF IInv
<1>1. CASE UNCHANGED vars
  BY <1>1 DEF vars, TypeOK, InHeader, InBody, InFrame, WellFramed,
              OverrunOnlyMisframed, CompleteReplyAccepted
<1>2. ASSUME HeaderFull \/ BodyRefused \/ ReadStalls \/ ReadFails
      PROVE  IInv'
  <2>1. /\ UNCHANGED <<reply, got, len_received, content_length, body>>
        /\ phase \in {"header", "body"} /\ phase' \in {phase, "fail"}
        /\ tries' \in 0 .. MaxTries /\ (phase' = phase => tries' < MaxTries)
    BY <1>2 DEF HeaderFull, BodyRefused, ReadStalls, ReadFails, Reading, TypeOK,
                MaxTries
  <2>2. TypeOK' /\ InHeader' /\ InBody' /\ InFrame' /\ WellFramed' = WellFramed
    BY <2>1 DEF TypeOK, InHeader, InBody, InFrame, WellFramed
  <2>3. /\ reply.hlen \in Nat /\ reply.body_len \in Nat /\ got \in Nat
        /\ len_received \in Nat
    BY ReplyFacts DEF TypeOK
  <2>4. WellFramed /\ reply.nuls = {} => got < reply.hlen + reply.body_len
    BY <2>1, <2>3 DEF InHeader, InFrame
  <2> QED
    BY <2>1, <2>2, <2>4 DEF OverrunOnlyMisframed, CompleteReplyAccepted
<1> QED
  BY <1>1, <1>2

-----------------------------------------------------------------------------
\* IInv holds in every reachable state.
THEOREM Invariance == Spec => []IInv
<1>1. ASSUME IInv, [Next]_vars
      PROVE  IInv'
  <2>1. ASSUME NEW k \in 1 .. (reply.sent - got), Read(k)
        PROVE  IInv'
    <3>1. k \in Nat
      BY <1>1, ReplyFacts DEF IInv
    <3> QED
      BY <1>1, <2>1, <3>1, HeaderPartPreserves, HeaderEndsPreserves,
         HeaderEndsNANPreserves, BodyPartPreserves DEF Read
  <2>2. CASE HeaderFull \/ BodyRefused \/ ReadStalls \/ ReadFails
             \/ UNCHANGED vars
    BY <1>1, <2>2, OtherPreserves
  <2> QED
    BY <1>1, <2>1, <2>2 DEF Next
<1> QED
  BY <1>1, InitIInv, PTL DEF Spec

\* Every variable of the receive loop keeps its type.
THEOREM TypeCorrect == Spec => []TypeOK
<1>1. IInv => TypeOK
  BY DEF IInv
<1> QED
  BY <1>1, Invariance, PTL

\* A response that is reported as received has the body the server sent, for
\* every size of the buffers and every way the reply is cut up.
THEOREM BodyIsIntact == Spec => []BodyIntact
<1>1. ASSUME IInv
      PROVE  BodyIntact
  <2> SUFFICES ASSUME phase = "ok", WellFramed
               PROVE  body = Span(reply.hlen, reply.body_len)
    BY DEF BodyIntact
  <2>1. len_received = reply.body_len /\ reply.hlen + len_received <= got
    BY <1>1 DEF IInv, InFrame, InBody
  <2>2. reply.hlen + len_received = got
    BY <1>1, <2>1, ReplyFacts DEF IInv
  <2> QED
    BY <1>1, <2>1, <2>2 DEF IInv, InBody
<1> QED
  BY <1>1, Invariance, PTL

\* The body stays in its buffer when the server keeps to its declared length.
THEOREM BodyStaysInside == Spec => []OverrunOnlyMisframed
<1>1. IInv => OverrunOnlyMisframed
  BY DEF IInv
<1> QED
  BY <1>1, Invariance, PTL

\* A complete reply without NULs is never reported as an error.
THEOREM CompleteRepliesAccepted == Spec => []CompleteReplyAccepted
<1>1. IInv => CompleteReplyAccepted
  BY DEF IInv
<1> QED
  BY <1>1, Invariance, PTL
=============================================================================
