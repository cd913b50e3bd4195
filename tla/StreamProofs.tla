---------------------------- MODULE StreamProofs ----------------------------
(* What appending one span to another makes. *)
EXTENDS Stream, SequenceTheorems, TLAPS

\* A span has its length; one that starts where another ends extends it.
LEMMA SpanAppend ==
  ASSUME NEW c \in Nat, NEW a \in Nat, NEW n \in Nat
  PROVE  /\ Span(c, a) \in Seq(Nat)
         /\ Len(Span(c, a)) = a
         /\ Span(c, a) \o Span(c + a, n) = Span(c, a + n)
<1>1. /\ Span(c, a) \in Seq(Nat) /\ Len(Span(c, a)) = a
      /\ Span(c + a, n) \in Seq(Nat) /\ Len(Span(c + a, n)) = n
  BY DEF Span
<1>2. Span(c, a + n) \in Seq(Nat) /\ Len(Span(c, a + n)) = a + n
  BY DEF Span
<1>3. /\ Span(c, a) \o Span(c + a, n) \in Seq(Nat)
      /\ Len(Span(c, a) \o Span(c + a, n)) = a + n
  BY <1>1, ConcatProperties
<1>4. ASSUME NEW k \in 1 .. (a + n)
      PROVE  (Span(c, a) \o Span(c + a, n))[k] = Span(c, a + n)[k]
  <2>1. (Span(c, a) \o Span(c + a, n))[k]
          = IF k <= a THEN Span(c, a)[k] ELSE Span(c + a, n)[k - a]
    BY <1>1, ConcatProperties
  <2>2. CASE k <= a
    BY <2>1, <2>2 DEF Span
  <2>3. CASE k > a
    BY <2>1, <2>3 DEF Span
  <2>4. k <= a \/ k > a
    OBVIOUS
  <2> QED
    BY <2>2, <2>3, <2>4, Zenon
<1>5. Span(c, a) \o Span(c + a, n) = Span(c, a + n)
  <2> DEFINE joined == Span(c, a) \o Span(c + a, n)
             whole  == Span(c, a + n)
  <2>1. \A k \in 1 .. Len(joined) : joined[k] = whole[k]
    BY <1>3, <1>4
  <2>2. joined \in Seq(Nat) /\ whole \in Seq(Nat) /\ Len(joined) = Len(whole)
    BY <1>2, <1>3
  <2> HIDE DEF joined, whole
  <2>3. joined = whole
    BY <2>1, <2>2, SeqEqual, Zenon
  <2> QED
    BY <2>3 DEF joined, whole
<1> QED
  BY <1>1, <1>5
=============================================================================
