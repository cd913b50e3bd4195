--------------------------- MODULE HelpersProofs ----------------------------
(***************************************************************************)
(* What Helpers.cfg checks of each function for small arguments, proved    *)
(* for arguments of any length and number.                                 *)
(***************************************************************************)
EXTENDS Helpers, SequenceTheorems, WellFoundedInduction, TLAPS

(***************************************************************************)
(* Induction, as a fact about sets of numbers.                             *)
(***************************************************************************)
\* A set of natural numbers has a least element.
LEMMA LeastElement ==
  ASSUME NEW S, S \subseteq Nat, S # {}
  PROVE  \E x \in S : \A y \in S : x <= y
<1> DEFINE less == {ss \in Nat \X Nat : ss[1] < ss[2]}
<1>1. IsWellFoundedOn(less, Nat)
  BY NatLessThanWellFounded DEF OpToRel
<1>2. PICK x \in S : \A y \in S : ~ (<<y, x>> \in less)
  <2> HIDE DEF less
  <2> QED
    BY <1>1, WFMin
<1>3. ASSUME NEW y \in S
      PROVE  x <= y
  <2>1. <<y, x>> \in Nat \X Nat /\ ~ (<<y, x>> \in less)
    BY <1>2, <1>3
  <2> QED
    BY <2>1
<1> QED
  BY <1>2, <1>3

\* A set with 0 that has with each number the next one has all of them.
LEMMA Induction ==
  ASSUME NEW S, 0 \in S, \A n \in Nat : n \in S => n + 1 \in S
  PROVE  \A n \in Nat : n \in S
<1> SUFFICES ASSUME NEW m \in Nat, m \notin S
             PROVE  FALSE
  OBVIOUS
<1> DEFINE missing == Nat \ S
<1>1. PICK x \in missing : \A y \in missing : x <= y
  <2>1. missing \subseteq Nat /\ missing # {}
    OBVIOUS
  <2> HIDE DEF missing
  <2> QED
    BY <2>1, LeastElement
<1>2. x - 1 \in Nat /\ x - 1 \notin missing
  BY <1>1
<1> QED
  BY <1>1, <1>2

\* f is b at 0, and at each number up to N what G makes of f one before.
Recursive(f, N, S, b, G) ==
  f \in [0 .. N -> S] /\ f[0] = b /\ \A n \in 1 .. N : f[n] = G[n][f[n - 1]]

\* What is defined by recursion on a number exists.
LEMMA Recursion ==
  ASSUME NEW N \in Nat, NEW S, NEW b \in S, NEW G \in [1 .. N -> [S -> S]]
  PROVE  \E f : Recursive(f, N, S, b, G)
<1> DEFINE Defines(f, m) ==
             /\ f \in [0 .. m -> S]
             /\ f[0] = b
             /\ \A n \in 1 .. m : f[n] = G[n][f[n - 1]]
           solved == {m \in Nat : m <= N => \E f : Defines(f, m)}
<1>1. 0 \in solved
  <2>1. Defines([n \in 0 .. 0 |-> b], 0)
    OBVIOUS
  <2> QED
    BY <2>1
<1>2. ASSUME NEW m \in Nat, m \in solved
      PROVE  m + 1 \in solved
  <2> SUFFICES ASSUME m + 1 <= N
               PROVE  \E f : Defines(f, m + 1)
    OBVIOUS
  <2>1. PICK f : Defines(f, m)
    BY <1>2
  <2> DEFINE g == [n \in 0 .. m + 1 |-> IF n = m + 1 THEN G[n][f[m]] ELSE f[n]]
  <2>2. G[m + 1][f[m]] \in S
    BY <2>1
  <2>3. g \in [0 .. m + 1 -> S] /\ g[0] = b
    BY <2>1, <2>2
  <2>4. ASSUME NEW n \in 1 .. m + 1
        PROVE  g[n] = G[n][g[n - 1]]
    BY <2>1, <2>4
  <2>5. Defines(g, m + 1)
    BY <2>3, <2>4
  <2> QED
    BY <2>5
<1>3. \A m \in Nat : m \in solved
  <2> HIDE DEF solved
  <2> QED
    BY <1>1, <1>2, Induction
<1>4. PICK f : Defines(f, N)
  BY <1>3
<1> QED
  BY <1>4 DEF Recursive
-----------------------------------------------------------------------------
(***************************************************************************)
(* http_build_header                                                       *)
(***************************************************************************)
\* The lengths of a line with more and more texts: the recursion is a function.
LEMMA LengthsOf ==
  ASSUME NEW line \in Nat, NEW texts \in Seq(Nat)
  PROVE  LET length == Header!Lengths(line, texts) IN
         /\ length \in [0 .. Len(texts) -> Nat]
         /\ length[0] = line
         /\ \A n \in 1 .. Len(texts) : length[n] = length[n - 1] + 2 + texts[n]
<1> DEFINE N == Len(texts)
           G == [n \in 1 .. N |-> [x \in Nat |-> x + 2 + texts[n]]]
           Step(f) == [n \in 0 .. N |-> IF n = 0 THEN line ELSE f[n - 1] + 2 + texts[n]]
           length == Header!Lengths(line, texts)
<1>1. N \in Nat /\ G \in [1 .. N -> [Nat -> Nat]]
  BY ElementOfSeq
<1>2. PICK f : Recursive(f, N, Nat, line, G)
  <2> HIDE DEF G, N
  <2> QED
    BY <1>1, Recursion, Zenon
<1>3. f \in [0 .. N -> Nat] /\ f[0] = line
  BY <1>2, Zenon DEF Recursive
<1>4. ASSUME NEW n \in 1 .. N
      PROVE  f[n] = f[n - 1] + 2 + texts[n]
  <2>1. f[n] = G[n][f[n - 1]]
    BY <1>2, Zenon DEF Recursive
  <2>2. f[n - 1] \in Nat
    <3>1. n - 1 \in 0 .. N
      BY <1>1
    <3> QED
      BY <1>3, <3>1, Zenon
  <2>3. G[n] = [x \in Nat |-> x + 2 + texts[n]]
    OBVIOUS
  <2> HIDE DEF G
  <2> QED
    BY <2>1, <2>2, <2>3
<1>5. f = Step(f)
  <2>1. \A n \in 0 .. N : f[n] = IF n = 0 THEN line ELSE f[n - 1] + 2 + texts[n]
    BY <1>1, <1>3, <1>4
  <2> QED
    BY <1>3, <2>1, Zenon
<1>6. length = CHOOSE g : g = Step(g)
  BY Zenon DEF Header!Lengths
<1>7. length = Step(length)
  <2> HIDE DEF Step, length
  <2> QED
    BY <1>5, <1>6
<1>8. DOMAIN length = 0 .. N /\ length = [n \in 0 .. N |-> length[n]]
  <2> HIDE DEF length
  <2> QED
    BY <1>7, Zenon
<1>9. \A n \in 0 .. N : length[n] = IF n = 0 THEN line ELSE length[n - 1] + 2 + texts[n]
  <2> HIDE DEF length
  <2> QED
    BY <1>7, Zenon
<1> HIDE DEF length
<1>10. length[0] = line /\ \A n \in 1 .. N : length[n] = length[n - 1] + 2 + texts[n]
  <2>1. 0 \in 0 .. N
    BY <1>1
  <2>2. ASSUME NEW n \in 1 .. N
        PROVE  n \in 0 .. N /\ n # 0
    BY <1>1
  <2> QED
    BY <1>9, <2>1, <2>2, Zenon
<1>11. length \in [0 .. N -> Nat]
  <2> DEFINE fine == {n \in Nat : n <= N => length[n] \in Nat}
  <2>1. 0 \in fine
    BY <1>10
  <2>2. ASSUME NEW n \in Nat, n \in fine
        PROVE  n + 1 \in fine
    <3> SUFFICES ASSUME n + 1 <= N
                 PROVE  length[n + 1] \in Nat
      BY <2>2
    <3>1. n + 1 \in 1 .. N /\ (n + 1) - 1 = n
      BY <1>1
    <3>2. length[n + 1] = length[n] + 2 + texts[n + 1]
      BY <1>10, <3>1, Zenon
    <3>3. texts[n + 1] \in Nat /\ length[n] \in Nat
      BY <1>1, <2>2, <3>1, ElementOfSeq
    <3> QED
      BY <3>2, <3>3
  <2>3. \A n \in Nat : n \in fine
    <3> HIDE DEF fine
    <3> QED
      BY <2>1, <2>2, Induction
  <2>4. \A n \in 0 .. N : length[n] \in Nat
    BY <1>1, <2>3
  <2> QED
    BY <1>8, <2>4, Zenon
<1> QED
  BY <1>10, <1>11, Zenon DEF length

\* None of them is longer than the next.
LEMMA LengthsGrow ==
  ASSUME NEW line \in Nat, NEW texts \in Seq(Nat), NEW m \in 0 .. Len(texts)
  PROVE  Header!Lengths(line, texts)[m] <= Header!Lengths(line, texts)[Len(texts)]
<1> DEFINE N == Len(texts)
           length == Header!Lengths(line, texts)
           grown == {n \in Nat : m + n <= N => length[m] <= length[m + n]}
<1>1. N \in Nat
  OBVIOUS
<1>2. length \in [0 .. N -> Nat]
  BY LengthsOf, Zenon
<1>3. \A n \in 1 .. N : length[n] = length[n - 1] + 2 + texts[n]
  BY LengthsOf, Zenon
<1> HIDE DEF N, length
<1>4. length[m] \in Nat
  BY <1>2, Zenon DEF N
<1>5. 0 \in grown
  BY <1>1, <1>4 DEF N
<1>6. ASSUME NEW n \in Nat, n \in grown
      PROVE  n + 1 \in grown
  <2> SUFFICES ASSUME m + (n + 1) <= N
               PROVE  length[m] <= length[m + (n + 1)]
    BY <1>6
  <2>1. m + (n + 1) \in 1 .. N /\ (m + (n + 1)) - 1 = m + n /\ m + n \in 0 .. N
    BY <1>1 DEF N
  <2>2. length[m + (n + 1)] = length[m + n] + 2 + texts[m + (n + 1)]
    BY <1>3, <2>1, Zenon
  <2>3. length[m + n] \in Nat
    BY <1>2, <2>1, Zenon
  <2>4. texts[m + (n + 1)] \in Nat
    BY <2>1, ElementOfSeq, Zenon DEF N
  <2>5. length[m] <= length[m + n]
    BY <1>6, <2>1
  <2> QED
    BY <1>4, <2>2, <2>3, <2>4, <2>5
<1>7. \A n \in Nat : n \in grown
  <2> HIDE DEF grown
  <2> QED
    BY <1>5, <1>6, Induction
<1>8. N - m \in Nat /\ m + (N - m) = N
  BY <1>1 DEF N
<1>9. length[m] <= length[N]
  BY <1>1, <1>7, <1>8
<1> QED
  BY <1>9 DEF N, length

\* What is printed before each value, and the room there is for both.
LEMMA ArrayFacts ==
  /\ Header!Prefix["authorization"] = 19 /\ Header!Array["authorization"] = 1024
  /\ Header!Prefix["crypto_key"] = 28 /\ Header!Array["crypto_key"] = 128
  /\ Header!Prefix["encryption"] = 30 /\ Header!Array["encryption"] = 128
  /\ Header!Prefix["content_len"] = 16 /\ Header!Array["content_len"] = 128
BY DEF Header!Prefix, Header!Array

LEMMA RequestFacts ==
  ASSUME request \in Header!Requests
  PROVE  /\ request.line \in Nat /\ request.key \in Nat \cup {-1}
         /\ request.point \in 1 .. 88 /\ request.salt \in 1 .. 24
         /\ request.digits \in 1 .. 20 /\ request.message \in BOOLEAN
<1>1. /\ request.line \in Lines /\ request.key \in Keys /\ request.point \in Points
      /\ request.salt \in Salts /\ request.digits \in LengthDigits
      /\ request.message \in BOOLEAN
  BY DEF Header!Requests
<1> QED
  BY <1>1, HeaderAssumption, Zenon

\* The arguments of http_do_post are at least two lengths.
LEMMA ArgumentsFacts ==
  ASSUME request \in Header!Requests
  PROVE  Header!Arguments \in Seq(Nat) /\ Len(Header!Arguments) >= 2
<1> DEFINE key == IF request.key # Header!NoKey
                  THEN <<Header!Text("authorization", request.key)>> ELSE <<>>
           others_ == IF request.message
                      THEN <<6, 38, 24, Header!Text("crypto_key", request.point),
                             Header!Text("encryption", request.salt),
                             Header!Text("content_len", request.digits)>>
                      ELSE <<6, 17>>
<1>1. key \in Seq(Nat)
  <2>1. CASE request.key # Header!NoKey
    <3>1. Header!Text("authorization", request.key) \in Nat
      BY <2>1, RequestFacts, ArrayFacts DEF Header!NoKey, Header!Text
    <3> QED
      BY <2>1, <3>1
  <2>2. CASE request.key = Header!NoKey
    BY <2>2
  <2> QED
    BY <2>1, <2>2
<1>2. others_ \in Seq(Nat) /\ Len(others_) >= 2
  <2>1. CASE request.message
    <3>1. /\ Header!Text("crypto_key", request.point) \in Nat
          /\ Header!Text("encryption", request.salt) \in Nat
          /\ Header!Text("content_len", request.digits) \in Nat
      BY RequestFacts, ArrayFacts DEF Header!Text
    <3> QED
      BY <2>1, <3>1
  <2>2. CASE ~ request.message
    BY <2>2
  <2> QED
    BY <2>1, <2>2
<1>3. Header!Arguments = key \o others_
  BY DEF Header!Arguments
<1> HIDE DEF key, others_
<1>4. key \o others_ \in Seq(Nat) /\ Len(key \o others_) = Len(key) + Len(others_)
  BY <1>1, <1>2, ConcatProperties, Zenon
<1> QED
  BY <1>1, <1>2, <1>3, <1>4

\* The header has the fields that were counted, and each of them was compared
\* with what was left of the block before it was printed.
HeaderInv ==
  /\ Header!TypeOK
  /\ Header!OnlyKeyTooLong
  /\ phase \in {"fields", "line"} => i = 0 /\ extent = 0
  /\ phase # "fields" => fields = Header!Arguments
  /\ phase \in {"header", "null"} =>
       /\ offset = Header!Lengths(request.line, fields)[i]
       /\ extent = offset + 1
       /\ i # 0 => offset < Header!Limit + 2 /\ request.line < Header!Limit
  /\ phase = "null" => i < Len(fields) /\ offset + fields[i + 1] >= Header!Limit
  /\ phase = "done" =>
       /\ offset = Header!Whole /\ extent = offset + 1 /\ offset < Header!Limit + 6
       /\ request.line < Header!Limit

LEMMA HeaderStarts == Header!Init => HeaderInv
<1> SUFFICES ASSUME Header!Init
             PROVE  HeaderInv
  OBVIOUS
<1>1. /\ request \in Header!Requests /\ phase = "fields"
      /\ fields = <<>> /\ overrun = {} /\ i = 0 /\ offset = 0 /\ extent = 0
  BY DEF Header!Init
<1>2. Header!TypeOK
  BY <1>1 DEF Header!TypeOK
<1> QED
  BY <1>1, <1>2 DEF HeaderInv, Header!OnlyKeyTooLong

\* What an array is too small for is known when it is printed.
LEMMA HeaderPrints ==
  ASSUME HeaderInv, Header!PrintFields
  PROVE  HeaderInv'
<1> DEFINE over == {f[1] : f \in {p \in Header!Printed :
                      Header!Text(p[1], p[2]) + 1 > Header!Array[p[1]]}}
<1>1. /\ phase = "fields" /\ phase' = "line" /\ fields' = Header!Arguments
      /\ overrun' = over /\ request' = request
      /\ i' = i /\ offset' = offset /\ extent' = extent
  BY DEF Header!PrintFields
<1>2. request \in Header!Requests /\ i = 0 /\ extent = 0 /\ offset \in Nat
  BY <1>1 DEF HeaderInv, Header!TypeOK
<1>3. ASSUME NEW p \in Header!Printed,
             Header!Text(p[1], p[2]) + 1 > Header!Array[p[1]]
      PROVE  p[1] = "authorization" /\ request.key > 1004
  <2>1. \/ p = <<"authorization", request.key>> /\ request.key # -1
        \/ p = <<"crypto_key", request.point>>
        \/ p = <<"encryption", request.salt>>
        \/ p = <<"content_len", request.digits>>
    BY DEF Header!Printed, Header!NoKey
  <2>2. ~ (p = <<"crypto_key", request.point>>)
    BY <1>2, <1>3, RequestFacts, ArrayFacts DEF Header!Text
  <2>3. ~ (p = <<"encryption", request.salt>>)
    BY <1>2, <1>3, RequestFacts, ArrayFacts DEF Header!Text
  <2>4. ~ (p = <<"content_len", request.digits>>)
    BY <1>2, <1>3, RequestFacts, ArrayFacts DEF Header!Text
  <2>5. p = <<"authorization", request.key>>
    BY <2>1, <2>2, <2>3, <2>4
  <2> QED
    BY <1>2, <1>3, <2>5, RequestFacts, ArrayFacts DEF Header!Text
<1>4. over \subseteq {"authorization"} /\ ("authorization" \in over => request.key > 1004)
  BY <1>3
<1> HIDE DEF over
<1>5. Header!OnlyKeyTooLong'
  BY <1>1, <1>4 DEF Header!OnlyKeyTooLong
<1>6. Header!Arguments' = Header!Arguments
  BY <1>1 DEF Header!Arguments, Header!Text
<1>7. Header!TypeOK'
  <2>1. over \subseteq DOMAIN Header!Array
    BY <1>4 DEF Header!Array
  <2>2. Header!Arguments \in Seq(Nat) /\ i' \in 0 .. Len(Header!Arguments)
    BY <1>1, <1>2, ArgumentsFacts
  <2>3. request' \in Header!Requests'
    BY <1>1, <1>2 DEF Header!Requests
  <2> QED
    BY <1>1, <1>2, <2>1, <2>2, <2>3 DEF Header!TypeOK
<1> QED
  BY <1>1, <1>2, <1>5, <1>6, <1>7 DEF HeaderInv

LEMMA HeaderStarted ==
  ASSUME HeaderInv, Header!PrintLine
  PROVE  HeaderInv'
<1>1. /\ phase = "line" /\ phase' = "header"
      /\ offset' = request.line /\ extent' = request.line + 1
      /\ UNCHANGED <<request, fields, overrun, i>>
  BY DEF Header!PrintLine
<1>2. /\ request \in Header!Requests /\ i = 0 /\ fields = Header!Arguments
      /\ fields \in Seq(Nat) /\ Header!OnlyKeyTooLong /\ Header!TypeOK
  BY <1>1 DEF HeaderInv, Header!TypeOK
<1>3. request.line \in Nat
  BY <1>2, RequestFacts
<1>4. offset' = Header!Lengths(request.line, fields)[0]
  BY <1>1, <1>2, <1>3, LengthsOf, Zenon
<1>5. (Header!Lengths(request.line, fields)[i])' = Header!Lengths(request.line, fields)[0]
  BY <1>1, <1>2, Zenon DEF Header!Lengths
<1>6. Header!Arguments' = Header!Arguments
  BY <1>1 DEF Header!Arguments, Header!Text
<1>7. Header!TypeOK' /\ Header!OnlyKeyTooLong'
  BY <1>1, <1>2, <1>3 DEF Header!TypeOK, Header!OnlyKeyTooLong, Header!Requests
<1> QED
  BY <1>1, <1>2, <1>4, <1>5, <1>6, <1>7 DEF HeaderInv

LEMMA HeaderAdds ==
  ASSUME HeaderInv, Header!AddField
  PROVE  HeaderInv'
<1>1. /\ phase = "header" /\ i < Len(fields) /\ offset + fields[i + 1] < Header!Limit
      /\ offset' = offset + 2 + fields[i + 1] /\ extent' = offset' + 1 /\ i' = i + 1
      /\ UNCHANGED <<request, phase, fields, overrun>>
  BY DEF Header!AddField
<1>2. /\ request \in Header!Requests /\ fields = Header!Arguments
      /\ fields \in Seq(Nat) /\ i \in 0 .. Len(fields) /\ offset \in Nat
      /\ Header!OnlyKeyTooLong /\ Header!TypeOK
      /\ offset = Header!Lengths(request.line, fields)[i]
  BY <1>1 DEF HeaderInv, Header!TypeOK
<1>3. i + 1 \in 1 .. Len(fields) /\ (i + 1) - 1 = i
  BY <1>1, <1>2
<1>4. fields[i + 1] \in Nat
  BY <1>2, <1>3, ElementOfSeq, Zenon
<1>5. offset' = Header!Lengths(request.line, fields)[i + 1]
  <2>1. Header!Lengths(request.line, fields)[i + 1]
          = Header!Lengths(request.line, fields)[(i + 1) - 1] + 2 + fields[i + 1]
    <3>1. request.line \in Nat
      BY <1>2, RequestFacts
    <3> QED
      BY <1>2, <1>3, <3>1, LengthsOf, Zenon
  <2> QED
    BY <1>1, <1>2, <1>3, <2>1, Zenon
<1>6. (Header!Lengths(request.line, fields)[i])' = Header!Lengths(request.line, fields)[i + 1]
  BY <1>1, Zenon DEF Header!Lengths
<1>7. Header!Arguments' = Header!Arguments
  BY <1>1 DEF Header!Arguments, Header!Text
<1>8. Header!TypeOK' /\ Header!OnlyKeyTooLong'
  <2>1. i' \in 0 .. Len(fields) /\ offset' \in Nat /\ extent' \in 0 .. offset' + 1
    <3>1. i' \in 0 .. Len(fields)
      BY <1>1, <1>3
    <3>2. offset' \in Nat
      <4>1. offset' = offset + 2 + fields[i + 1] /\ offset \in Nat
        BY <1>1, <1>2
      <4> QED
        BY <1>4, <4>1
    <3> QED
      BY <1>1, <3>1, <3>2
  <2> QED
    BY <1>1, <1>2, <2>1 DEF Header!TypeOK, Header!OnlyKeyTooLong, Header!Requests
<1>9. offset' < Header!Limit + 2
  BY <1>1, <1>2, <1>4 DEF Header!Limit
<1>10. request.line < Header!Limit
  <2>1. CASE i = 0
    <3>1. offset = request.line
      BY <1>2, <2>1, RequestFacts, LengthsOf
    <3> QED
      BY <1>1, <1>2, <1>4, <3>1 DEF Header!Limit
  <2>2. CASE i # 0
    BY <1>1, <2>2 DEF HeaderInv
  <2> QED
    BY <2>1, <2>2
<1>11. (request.line < Header!Limit)'
  BY <1>1, <1>10 DEF Header!Limit
<1> QED
  BY <1>1, <1>2, <1>5, <1>6, <1>7, <1>8, <1>9, <1>11 DEF HeaderInv

LEMMA HeaderRefuses ==
  ASSUME HeaderInv, Header!Refuse
  PROVE  HeaderInv'
<1>1. /\ phase = "header" /\ i < Len(fields) /\ offset + fields[i + 1] >= Header!Limit
      /\ phase' = "null"
      /\ UNCHANGED <<request, fields, overrun, i, offset, extent>>
  BY DEF Header!Refuse
<1>2. (Header!Lengths(request.line, fields)[i])' = Header!Lengths(request.line, fields)[i]
  BY <1>1, Zenon DEF Header!Lengths
<1>3. Header!Arguments' = Header!Arguments
  BY <1>1 DEF Header!Arguments, Header!Text
<1>4. Header!TypeOK' /\ Header!OnlyKeyTooLong'
  BY <1>1 DEF HeaderInv, Header!TypeOK, Header!OnlyKeyTooLong, Header!Requests
<1>5. Header!Limit' = Header!Limit
  BY DEF Header!Limit
<1> QED
  BY <1>1, <1>2, <1>3, <1>4, <1>5 DEF HeaderInv

LEMMA HeaderFinishes ==
  ASSUME HeaderInv, Header!Finish
  PROVE  HeaderInv'
<1>1. /\ phase = "header" /\ i = Len(fields) /\ phase' = "done"
      /\ offset' = offset + 4 /\ extent' = offset' + 1
      /\ UNCHANGED <<request, fields, overrun, i>>
  BY DEF Header!Finish
<1>2. /\ request \in Header!Requests /\ fields = Header!Arguments
      /\ fields \in Seq(Nat) /\ i \in 0 .. Len(fields) /\ offset \in Nat
      /\ Header!OnlyKeyTooLong /\ Header!TypeOK
      /\ offset = Header!Lengths(request.line, fields)[Len(fields)]
      /\ i # 0 => offset < Header!Limit + 2 /\ request.line < Header!Limit
  BY <1>1 DEF HeaderInv, Header!TypeOK
<1>3. i # 0
  BY <1>1, <1>2, ArgumentsFacts
<1>4. Header!Whole' = offset + 4
  <2>1. Header!Whole' = Header!Whole
    BY <1>1, Zenon DEF Header!Whole, Header!Lengths
  <2> QED
    BY <1>2, <2>1 DEF Header!Whole
<1>5. Header!Arguments' = Header!Arguments
  BY <1>1 DEF Header!Arguments, Header!Text
<1>6. Header!TypeOK' /\ Header!OnlyKeyTooLong'
  BY <1>1, <1>2 DEF Header!TypeOK, Header!OnlyKeyTooLong, Header!Requests
<1>7. offset' < Header!Limit + 6 /\ request'.line < Header!Limit
  BY <1>1, <1>2, <1>3 DEF Header!Limit
<1> QED
  BY <1>1, <1>2, <1>4, <1>5, <1>6, <1>7 DEF HeaderInv

LEMMA HeaderSteps ==
  ASSUME HeaderInv, Header!Next \/ UNCHANGED Header!vars
  PROVE  HeaderInv'
<1>1. ASSUME UNCHANGED Header!vars
      PROVE  HeaderInv'
  <2>1. UNCHANGED <<request, phase, fields, overrun, i, offset, extent>>
    BY <1>1 DEF Header!vars
  <2>2. /\ (Header!Lengths(request.line, fields)[i])' = Header!Lengths(request.line, fields)[i]
        /\ Header!Whole' = Header!Whole
    BY <2>1, Zenon DEF Header!Whole, Header!Lengths
  <2>3. Header!Arguments' = Header!Arguments
    BY <2>1 DEF Header!Arguments, Header!Text
  <2>4. Header!TypeOK' /\ Header!OnlyKeyTooLong'
    BY <2>1 DEF HeaderInv, Header!TypeOK, Header!OnlyKeyTooLong, Header!Requests
  <2> QED
    BY <2>1, <2>2, <2>3, <2>4 DEF HeaderInv, Header!Limit
<1> QED
  BY <1>1, HeaderPrints, HeaderStarted, HeaderAdds, HeaderRefuses, HeaderFinishes
     DEF Header!Next

\* NULL is returned for a field that was too long where it stands: the fields
\* after it only add to what the whole would have been.
LEMMA HeaderHolds ==
  ASSUME HeaderInv
  PROVE  /\ Header!OnlyLineTooLong /\ Header!OnlyKeyTooLong
         /\ Header!HeaderWhole /\ Header!RefusedOnlyLong
<1>1. request \in Header!Requests /\ fields \in Seq(Nat) /\ offset \in Nat
  BY DEF HeaderInv, Header!TypeOK
<1>2. request.line \in Nat
  BY <1>1, RequestFacts
<1>3. Header!OnlyLineTooLong
  <2>1. /\ phase \in {"fields", "line", "header", "done", "null"}
        /\ extent \in Nat /\ i \in Nat
    BY DEF HeaderInv, Header!TypeOK
  <2>2. CASE phase \in {"fields", "line"}
    BY <2>2 DEF HeaderInv, Header!OnlyLineTooLong, Header!Block
  <2>3. CASE phase = "done"
    BY <1>1, <1>2, <2>3 DEF HeaderInv, Header!OnlyLineTooLong, Header!Block, Header!Limit
  <2>4. CASE phase \in {"header", "null"} /\ i = 0
    <3>1. extent = request.line + 1
      BY <1>1, <1>2, <2>4, LengthsOf DEF HeaderInv
    <3> QED
      BY <1>2, <2>4, <3>1 DEF Header!OnlyLineTooLong, Header!Block
  <2>5. CASE phase \in {"header", "null"} /\ i # 0
    BY <1>1, <1>2, <2>5 DEF HeaderInv, Header!OnlyLineTooLong, Header!Block, Header!Limit
  <2> QED
    BY <2>1, <2>2, <2>3, <2>4, <2>5
<1>4. Header!HeaderWhole
  BY DEF HeaderInv, Header!HeaderWhole
<1>5. ASSUME phase = "null"
      PROVE  Header!Whole + 1 >= Header!Block - 1
  <2> DEFINE length == Header!Lengths(request.line, fields)
  <2>1. /\ offset = length[i] /\ i \in 0 .. Len(fields) /\ i < Len(fields)
        /\ offset + fields[i + 1] >= Header!Limit
    BY <1>5 DEF HeaderInv, Header!TypeOK
  <2>2. i + 1 \in 1 .. Len(fields) /\ i + 1 \in 0 .. Len(fields) /\ (i + 1) - 1 = i
    BY <2>1
  <2>3. length[i + 1] = length[(i + 1) - 1] + 2 + fields[i + 1]
    BY <1>1, <1>2, <2>2, LengthsOf, Zenon
  <2>4. length[i + 1] <= length[Len(fields)]
    BY <1>1, <1>2, <2>2, LengthsGrow, Zenon
  <2>5. Header!Whole = length[Len(fields)] + 4
    BY DEF Header!Whole
  <2>6. length \in [0 .. Len(fields) -> Nat] /\ fields[i + 1] \in Nat
    BY <1>1, <1>2, <2>2, LengthsOf, ElementOfSeq, Zenon
  <2>7. Len(fields) \in Nat /\ length[Len(fields)] \in Nat
    BY <1>1, <2>6
  <2> HIDE DEF length
  <2>8. length[i + 1] = offset + 2 + fields[i + 1]
    BY <2>1, <2>2, <2>3, Zenon
  <2>9. fields[i + 1] \in Nat /\ length[i + 1] \in Nat
    BY <2>2, <2>6
  <2>10. offset + fields[i + 1] >= 2042
    BY <2>1 DEF Header!Limit
  <2>11. length[Len(fields)] >= 2044
    BY <1>1, <2>4, <2>7, <2>8, <2>9, <2>10
  <2> QED
    BY <2>5, <2>7, <2>11 DEF Header!Block
<1> QED
  BY <1>3, <1>4, <1>5 DEF HeaderInv, Header!RefusedOnlyLong
-----------------------------------------------------------------------------
(***************************************************************************)
(* env_sleep                                                               *)
(***************************************************************************)
\* A number is its quotient times the divisor, and less than a divisor more.
LEMMA Quotient ==
  ASSUME NEW a \in Nat, NEW p \in Nat \ {0}
  PROVE  a \div p \in Nat /\ (a \div p) * p <= a /\ a < (a \div p) * p + p
OBVIOUS

\* One more of something is as much more.
LEMMA OneMore ==
  ASSUME NEW a \in Nat, NEW p \in Nat
  PROVE  (a + 1) * p = a * p + p /\ a * p \in Nat
OBVIOUS

LEMMA AddedToBoth ==
  ASSUME NEW a \in Nat, NEW b \in Nat, NEW c \in Nat, NEW d \in Nat, a <= b + c
  PROVE  a + d <= b + (c + d)
OBVIOUS

\* What has been slept and what is to be slept next are together as long as
\* asked so far, less a part of a second for each signal, and longer only for
\* each signal in usleep().
SleepTimes ==
  /\ phase = "seconds" =>
       /\ slept + left * PerSecond <= seconds * PerSecond
       /\ slept + left * PerSecond + signals * (PerSecond - 1) >= seconds * PerSecond
  /\ phase # "seconds" => slept + left <= Sleep!Asked + late * UintMax
  /\ phase # "seconds" /\ mseconds * PerMs <= UintMax =>
       slept + left + signals * (PerSecond - 1) >= Sleep!Asked

\* That is so while the time is counted.
SleepInv ==
  /\ Sleep!TypeOK
  /\ phase = "seconds" => late = 0
  /\ phase = "done" => left = 0
  /\ signals <= MaxSignals => SleepTimes

\* The arguments and what they make are numbers.
LEMMA SleepNumbers ==
  ASSUME Sleep!TypeOK
  PROVE  /\ seconds \in Nat /\ mseconds \in Nat /\ left \in Nat /\ slept \in Nat
         /\ signals \in Nat /\ late \in Nat /\ left <= UintMax /\ late <= signals
         /\ PerSecond \in Nat \ {0} /\ PerSecond - 1 \in Nat /\ UintMax \in Nat
         /\ PerMs \in Nat \ {0}
         /\ seconds * PerSecond \in Nat /\ mseconds * PerMs \in Nat
         /\ left * PerSecond \in Nat /\ late * UintMax \in Nat
         /\ signals * (PerSecond - 1) \in Nat
         /\ Sleep!Asked = seconds * PerSecond + mseconds * PerMs
<1>1. /\ PerSecond \in Nat \ {0} /\ PerMs \in Nat \ {0} /\ UintMax \in Nat
      /\ Seconds \subseteq 0 .. UintMax /\ MSeconds \subseteq Nat /\ MaxSignals \in Nat
  BY SleepAssumption
<1>2. /\ seconds \in Nat /\ mseconds \in Nat /\ left \in Nat /\ slept \in Nat
      /\ signals \in Nat /\ late \in Nat /\ left <= UintMax /\ late <= signals
      /\ PerSecond - 1 \in Nat
  BY <1>1 DEF Sleep!TypeOK
<1>3. /\ seconds * PerSecond \in Nat /\ mseconds * PerMs \in Nat
      /\ left * PerSecond \in Nat /\ late * UintMax \in Nat
      /\ signals * (PerSecond - 1) \in Nat
  BY <1>1, <1>2, OneMore
<1> QED
  BY <1>1, <1>2, <1>3 DEF Sleep!Asked

\* The microseconds of the milliseconds, unless they are too many.
LEMMA USecondsFacts ==
  ASSUME NEW ms \in Nat
  PROVE  /\ Sleep!USeconds(ms) \in 0 .. UintMax /\ Sleep!USeconds(ms) <= ms * PerMs
         /\ ms * PerMs <= UintMax => Sleep!USeconds(ms) = ms * PerMs
<1>1. PerMs \in Nat /\ UintMax + 1 \in Nat \ {0} /\ ms * PerMs \in Nat
  BY SleepAssumption, OneMore
<1> DEFINE us == ms * PerMs
           m == UintMax + 1
<1>2. ASSUME NEW a \in Nat, NEW p \in Nat \ {0}
      PROVE  a % p \in 0 .. p - 1 /\ a % p <= a /\ (a < p => a % p = a)
  OBVIOUS
<1>3. us % m \in 0 .. m - 1 /\ us % m <= us /\ (us < m => us % m = us)
  <2> HIDE DEF us, m
  <2>1. us \in Nat /\ m \in Nat \ {0}
    BY <1>1 DEF us, m
  <2> QED
    BY <1>2, <2>1
<1> QED
  BY <1>1, <1>3, SleepAssumption DEF Sleep!USeconds

\* A signal counts one while the time is counted, and then does not end that.
LEMMA SignalFacts ==
  ASSUME Sleep!TypeOK, Sleep!Interrupted
  PROVE  /\ signals' \in 0 .. MaxSignals + 2
         /\ signals' <= MaxSignals => signals <= MaxSignals /\ signals' = signals + 1
         /\ late <= MaxSignals /\ late \in 0 .. signals'
<1>1. MaxSignals \in Nat
  BY SleepAssumption
<1>2. signals \in 0 .. MaxSignals + 2 /\ late \in 0 .. signals /\ late <= MaxSignals
  BY DEF Sleep!TypeOK
<1>3. \/ signals <= MaxSignals + 1 /\ signals' = signals + 1
      \/ signals > MaxSignals + 1 /\ signals' = MaxSignals + 1
  BY <1>1, <1>2 DEF Sleep!Interrupted
<1> QED
  BY <1>1, <1>2, <1>3

\* Of l seconds, d ticks of which have passed, the whole seconds that are left.
LEMMA UnsleptFacts ==
  ASSUME NEW l \in Nat, NEW d \in 0 .. l * PerSecond - 1
  PROVE  LET rest == l * PerSecond - d
             unslept == rest \div PerSecond
         IN  /\ rest \in Nat /\ unslept \in 0 .. l /\ unslept * PerSecond \in Nat
             /\ unslept * PerSecond <= rest
             /\ rest <= unslept * PerSecond + (PerSecond - 1)
<1> DEFINE rest == l * PerSecond - d
           unslept == rest \div PerSecond
           all == l * PerSecond
<1>1. PerSecond \in Nat \ {0} /\ all \in Nat
  BY SleepAssumption, OneMore
<1>2. rest \in Nat /\ rest <= all
  BY <1>1
<1> HIDE DEF rest, all
<1>3. /\ unslept \in Nat /\ unslept * PerSecond <= rest
      /\ rest < unslept * PerSecond + PerSecond
  BY <1>1, <1>2, Quotient
<1>4. unslept * PerSecond \in Nat
  BY <1>1, <1>3, OneMore
<1> HIDE DEF unslept
<1>5. unslept <= l
  <2>1. ASSUME unslept >= l + 1
        PROVE  FALSE
    <3>1. unslept * PerSecond >= (l + 1) * PerSecond
      BY <1>1, <1>3, <2>1
    <3>2. (l + 1) * PerSecond = all + PerSecond
      BY <1>1, OneMore DEF all
    <3> QED
      BY <1>1, <1>2, <1>3, <1>4, <3>1, <3>2
  <2> QED
    BY <1>3, <2>1
<1>6. rest <= unslept * PerSecond + (PerSecond - 1)
  BY <1>1, <1>2, <1>3, <1>4
<1> QED
  BY <1>2, <1>3, <1>4, <1>5, <1>6 DEF unslept, rest, all

LEMMA SleepStarts == Sleep!Init => SleepInv
<1> SUFFICES ASSUME Sleep!Init
             PROVE  SleepInv
  OBVIOUS
<1>1. /\ seconds \in Seconds /\ mseconds \in MSeconds /\ phase = "seconds"
      /\ left = seconds /\ slept = 0 /\ signals = 0 /\ late = 0
  BY DEF Sleep!Init
<1>2. Sleep!TypeOK
  BY <1>1, SleepAssumption DEF Sleep!TypeOK
<1>3. SleepTimes
  BY <1>1, <1>2, SleepNumbers DEF SleepTimes
<1> QED
  BY <1>1, <1>2, <1>3 DEF SleepInv

LEMMA SleepSeconds ==
  ASSUME SleepInv, Sleep!SecondsSlept
  PROVE  SleepInv'
<1>1. /\ phase = "seconds" /\ phase' = "useconds"
      /\ slept' = IF signals <= MaxSignals THEN slept + left * PerSecond ELSE slept
      /\ left' = Sleep!USeconds(mseconds)
      /\ UNCHANGED <<seconds, mseconds, signals, late>>
  BY DEF Sleep!SecondsSlept, Sleep!Passes
<1>2. Sleep!TypeOK /\ late = 0
  BY <1>1 DEF SleepInv
<1>3. /\ left' \in 0 .. UintMax /\ left' <= mseconds * PerMs
      /\ mseconds * PerMs <= UintMax => left' = mseconds * PerMs
  BY <1>1, <1>2, USecondsFacts, SleepNumbers
<1>4. slept' \in Nat
  BY <1>1, <1>2, SleepNumbers
<1>5. Sleep!TypeOK'
  BY <1>1, <1>2, <1>3, <1>4 DEF Sleep!TypeOK
<1>6. ASSUME signals <= MaxSignals
      PROVE  SleepTimes'
  <2>1. /\ slept + left * PerSecond <= seconds * PerSecond
        /\ slept + left * PerSecond + signals * (PerSecond - 1) >= seconds * PerSecond
    BY <1>1, <1>6 DEF SleepInv, SleepTimes
  <2>2. slept' + left' <= Sleep!Asked + late * UintMax
    BY <1>1, <1>2, <1>3, <1>6, <2>1, SleepNumbers
  <2>3. mseconds * PerMs <= UintMax =>
          slept' + left' + signals * (PerSecond - 1) >= Sleep!Asked
    BY <1>1, <1>2, <1>3, <1>6, <2>1, SleepNumbers
  <2>4. Sleep!Asked' = Sleep!Asked
    BY <1>1 DEF Sleep!Asked
  <2> QED
    BY <1>1, <2>2, <2>3, <2>4 DEF SleepTimes
<1> QED
  BY <1>1, <1>5, <1>6 DEF SleepInv

LEMMA SleepSecondsInterrupted ==
  ASSUME SleepInv, Sleep!SecondsInterrupted
  PROVE  SleepInv'
<1> DEFINE part == PerSecond - 1
<1>1. /\ phase = "seconds" /\ Sleep!Interrupted
      /\ UNCHANGED <<seconds, mseconds, late>>
  BY DEF Sleep!SecondsInterrupted
<1>2. PICK d \in 0 .. left * PerSecond - 1 :
        LET unslept == (left * PerSecond - d) \div PerSecond IN
        /\ slept' = IF signals' <= MaxSignals THEN slept + d ELSE slept
        /\ \/ unslept > 0 /\ left' = unslept /\ UNCHANGED phase
           \/ unslept = 0 /\ left' = Sleep!USeconds(mseconds) /\ phase' = "useconds"
  BY DEF Sleep!SecondsInterrupted, Sleep!Passes
<1> DEFINE rest == left * PerSecond - d
           unslept == rest \div PerSecond
<1>3. Sleep!TypeOK /\ late = 0
  BY <1>1 DEF SleepInv
<1>4. /\ rest \in Nat /\ unslept \in 0 .. left /\ unslept * PerSecond \in Nat
      /\ unslept * PerSecond <= rest /\ rest <= unslept * PerSecond + part
  BY <1>2, <1>3, UnsleptFacts, SleepNumbers
<1>5. /\ signals' \in 0 .. MaxSignals + 2
      /\ signals' <= MaxSignals => signals <= MaxSignals /\ signals' = signals + 1
      /\ late <= MaxSignals /\ late \in 0 .. signals'
  BY <1>1, <1>3, SignalFacts
<1>6. /\ Sleep!USeconds(mseconds) \in 0 .. UintMax
      /\ Sleep!USeconds(mseconds) <= mseconds * PerMs
      /\ mseconds * PerMs <= UintMax => Sleep!USeconds(mseconds) = mseconds * PerMs
  BY <1>3, USecondsFacts, SleepNumbers
<1>7. Sleep!TypeOK'
  <2>1. slept' \in Nat
    BY <1>2, <1>3, SleepNumbers
  <2>2. left' \in 0 .. UintMax
    <3> HIDE DEF unslept
    <3> QED
      BY <1>2, <1>3, <1>4, <1>6, SleepNumbers DEF unslept
  <2>3. phase' \in {"seconds", "useconds"}
    BY <1>1, <1>2
  <2> QED
    BY <1>1, <1>3, <1>5, <2>1, <2>2, <2>3 DEF Sleep!TypeOK
<1>8. ASSUME signals' <= MaxSignals
      PROVE  SleepTimes'
  <2>1. /\ slept + left * PerSecond <= seconds * PerSecond
        /\ slept + left * PerSecond + signals * part >= seconds * PerSecond
    BY <1>1, <1>5, <1>8 DEF SleepInv, SleepTimes
  <2>2. slept' \in Nat /\ slept' + rest = slept + left * PerSecond
    BY <1>2, <1>3, <1>8, SleepNumbers
  <2>3. signals' * part = signals * part + part /\ signals' * part \in Nat /\ part \in Nat
    <3>1. part \in Nat /\ signals \in Nat
      BY <1>3, SleepNumbers
    <3> HIDE DEF part
    <3> QED
      BY <1>5, <1>8, <3>1, OneMore
  <2>4. Sleep!Asked' = Sleep!Asked
    BY <1>1 DEF Sleep!Asked
  <2>5. /\ slept \in Nat /\ seconds * PerSecond \in Nat
        /\ left * PerSecond \in Nat /\ signals * part \in Nat
    BY <1>3, SleepNumbers
  <2> DEFINE us == Sleep!USeconds(mseconds)
  <2>6. \/ unslept > 0 /\ left' = unslept /\ UNCHANGED phase
        \/ unslept = 0 /\ left' = us /\ phase' = "useconds"
    BY <1>2
  <2>7. unslept = 0 => unslept * PerSecond = 0
    BY SleepAssumption
  <2> HIDE DEF rest, unslept, part, us
  <2>8. /\ slept' + unslept * PerSecond <= seconds * PerSecond
        /\ slept' + unslept * PerSecond + signals' * part >= seconds * PerSecond
    BY <1>4, <2>1, <2>2, <2>3, <2>5
  <2>9. CASE unslept > 0 /\ left' = unslept /\ UNCHANGED phase
    BY <1>1, <2>8, <2>9 DEF SleepTimes, part
  <2>10. CASE unslept = 0 /\ left' = us /\ phase' = "useconds"
    <3>1. slept' <= seconds * PerSecond /\ slept' + signals' * part >= seconds * PerSecond
      BY <2>2, <2>3, <2>7, <2>8, <2>10
    <3>2. /\ left' \in Nat /\ left' <= mseconds * PerMs
          /\ mseconds * PerMs <= UintMax => left' = mseconds * PerMs
      BY <1>6, <2>10, SleepAssumption DEF us
    <3>3. slept' + left' <= Sleep!Asked + late * UintMax
      BY <1>3, <2>2, <3>1, <3>2, SleepNumbers
    <3>4. mseconds * PerMs <= UintMax =>
            slept' + left' + signals' * part >= Sleep!Asked
      BY <1>3, <2>2, <2>3, <3>1, <3>2, SleepNumbers
    <3> QED
      BY <1>1, <2>4, <2>10, <3>3, <3>4 DEF SleepTimes, part
  <2> QED
    BY <2>6, <2>9, <2>10
<1> QED
  BY <1>1, <1>2, <1>3, <1>7, <1>8 DEF SleepInv

LEMMA SleepUSeconds ==
  ASSUME SleepInv, Sleep!USecondsSlept
  PROVE  SleepInv'
<1>1. /\ phase = "useconds" /\ phase' = "done" /\ left' = 0
      /\ slept' = IF signals <= MaxSignals THEN slept + left ELSE slept
      /\ UNCHANGED <<seconds, mseconds, signals, late>>
  BY DEF Sleep!USecondsSlept, Sleep!Passes
<1>2. Sleep!TypeOK
  BY DEF SleepInv
<1>3. Sleep!TypeOK'
  BY <1>1, <1>2, SleepNumbers DEF Sleep!TypeOK
<1>4. ASSUME signals <= MaxSignals
      PROVE  SleepTimes'
  <2>1. /\ slept + left <= Sleep!Asked + late * UintMax
        /\ mseconds * PerMs <= UintMax =>
             slept + left + signals * (PerSecond - 1) >= Sleep!Asked
    BY <1>1, <1>4 DEF SleepInv, SleepTimes
  <2>2. slept' + left' = slept + left
    BY <1>1, <1>2, <1>4, SleepNumbers
  <2>3. Sleep!Asked' = Sleep!Asked
    BY <1>1 DEF Sleep!Asked
  <2> QED
    BY <1>1, <2>1, <2>2, <2>3 DEF SleepTimes
<1> QED
  BY <1>1, <1>3, <1>4 DEF SleepInv

LEMMA SleepUSecondsInterrupted ==
  ASSUME SleepInv, Sleep!USecondsInterrupted
  PROVE  SleepInv'
<1> DEFINE part == PerSecond - 1
<1>1. /\ phase = "useconds" /\ Sleep!Interrupted /\ left' = UintMax
      /\ late' = IF signals' <= MaxSignals THEN late + 1 ELSE late
      /\ UNCHANGED <<phase, seconds, mseconds>>
  BY DEF Sleep!USecondsInterrupted, Sleep!InterruptedLate
<1>2. PICK d \in 0 .. left - 1 :
        slept' = IF signals' <= MaxSignals THEN slept + d ELSE slept
  BY DEF Sleep!USecondsInterrupted, Sleep!Passes
<1>3. Sleep!TypeOK
  BY DEF SleepInv
<1>4. /\ slept \in Nat /\ left \in Nat /\ left <= UintMax /\ UintMax \in Nat
      /\ signals \in Nat /\ late \in Nat /\ late <= signals /\ part \in Nat
      /\ signals * part \in Nat /\ late * UintMax \in Nat /\ Sleep!Asked \in Nat
  BY <1>3, SleepNumbers
<1>5. /\ signals' \in 0 .. MaxSignals + 2
      /\ signals' <= MaxSignals => signals <= MaxSignals /\ signals' = signals + 1
      /\ late <= MaxSignals /\ late \in 0 .. signals'
  BY <1>1, <1>3, SignalFacts
<1>6. Sleep!TypeOK'
  <2>1. slept' \in Nat /\ left' \in 0 .. UintMax
    BY <1>1, <1>2, <1>4
  <2>2. late' \in 0 .. signals' /\ late' <= MaxSignals
    BY <1>1, <1>4, <1>5, SleepAssumption
  <2> QED
    BY <1>1, <1>3, <1>5, <2>1, <2>2 DEF Sleep!TypeOK
<1>7. ASSUME signals' <= MaxSignals
      PROVE  SleepTimes'
  <2>1. /\ slept + left <= Sleep!Asked + late * UintMax
        /\ mseconds * PerMs <= UintMax => slept + left + signals * part >= Sleep!Asked
    BY <1>1, <1>5, <1>7 DEF SleepInv, SleepTimes
  <2>2. /\ signals' * part = signals * part + part
        /\ late' * UintMax = late * UintMax + UintMax
    <3> HIDE DEF part
    <3> QED
      BY <1>1, <1>4, <1>5, <1>7, OneMore
  <2>3. slept' \in Nat /\ slept' <= slept + left /\ slept' >= slept
    BY <1>2, <1>4, <1>7
  <2>4. slept' + left' <= Sleep!Asked + late' * UintMax
    <3>1. slept' <= Sleep!Asked + late * UintMax
      BY <1>4, <2>1, <2>3
    <3>2. slept' + UintMax <= Sleep!Asked + (late * UintMax + UintMax)
      BY <1>4, <2>3, <3>1, AddedToBoth, Zenon
    <3> QED
      BY <1>1, <2>2, <3>2, Zenon
  <2>5. ASSUME mseconds * PerMs <= UintMax
        PROVE  slept' + left' + signals' * part >= Sleep!Asked
    <3>1. slept + left + signals * part >= Sleep!Asked
      BY <2>1, <2>5
    <3>2. ASSUME NEW s \in Nat, NEW more \in Nat, NEW asked \in Nat,
                 s >= slept, slept + left + more >= asked
          PROVE  s + UintMax + (more + part) >= asked
      BY <1>4, <3>2
    <3>3. slept' + UintMax + (signals * part + part) >= Sleep!Asked
      <4> HIDE DEF part
      <4> QED
        BY <1>4, <2>3, <3>1, <3>2, Zenon
    <3> QED
      BY <1>1, <2>2, <3>3, Zenon
  <2>6. Sleep!Asked' = Sleep!Asked
    BY <1>1 DEF Sleep!Asked
  <2> QED
    BY <1>1, <2>4, <2>5, <2>6 DEF SleepTimes, part
<1> QED
  BY <1>1, <1>6, <1>7 DEF SleepInv

LEMMA SleepSteps ==
  ASSUME SleepInv, Sleep!Next \/ UNCHANGED Sleep!vars
  PROVE  SleepInv'
<1>1. CASE UNCHANGED Sleep!vars
  BY <1>1 DEF Sleep!vars, SleepInv, SleepTimes, Sleep!TypeOK, Sleep!Asked
<1> QED
  BY <1>1, SleepSeconds, SleepSecondsInterrupted, SleepUSeconds, SleepUSecondsInterrupted
     DEF Sleep!Next

LEMMA SleepHolds ==
  ASSUME SleepInv
  PROVE  Sleep!NotShort /\ Sleep!NotLong
<1>1. Sleep!TypeOK
  BY DEF SleepInv
<1>2. Sleep!NotShort
  BY <1>1, SleepNumbers DEF SleepInv, SleepTimes, Sleep!NotShort
<1>3. Sleep!NotLong
  <2>1. CASE phase = "seconds"
    BY <1>1, <2>1, SleepNumbers DEF SleepInv, SleepTimes, Sleep!NotLong
  <2>2. CASE phase # "seconds"
    BY <1>1, <2>2, SleepNumbers DEF SleepInv, SleepTimes, Sleep!NotLong
  <2> QED
    BY <2>1, <2>2
<1> QED
  BY <1>2, <1>3
-----------------------------------------------------------------------------
(***************************************************************************)
(* env_logWrite                                                            *)
(***************************************************************************)
\* A line has its stamp, its tag of g bytes and what vsnprintf() put of n; its
\* count has all n.
HasText(t, more) ==
  \E g \in {6, 7}, n \in LogText :
    /\ i[t] = 22 + g + n + more
    /\ put[t] = 22 + g + Log!Printed(n) + more

\* What each place says of a thread's buffer.
LogAt(t) ==
  /\ at[t] \in {"idle", "timed", "converted", "dated"} => i[t] = 0 /\ put[t] = 0
  /\ at[t] = "stamped" => i[t] = 22 /\ put[t] = 22
  /\ at[t] \in {"printed", "overrun"} => HasText(t, 0)
  /\ at[t] = "overrun" => i[t] >= 1024
  /\ at[t] = "ended" => HasText(t, 1) /\ i[t] <= 1024

\* What it says of the time, while no other thread has called gmtime().
LogOwn(t) ==
  ~ others[t] =>
    /\ at[t] \in {"converted", "dated"} => tm = now[t]
    /\ at[t] = "dated" => stamp[t].day = Log!Day(now[t])
    /\ at[t] \in {"stamped", "printed", "ended"} =>
         stamp[t] = [day |-> Log!Day(now[t]), time |-> Log!TimeOfDay(now[t])]

LogInv == Log!TypeOK /\ \A t \in Thread : LogAt(t) /\ LogOwn(t)

\* What vsnprintf() puts is less than its room, and all there is unless that is
\* too much.
LEMMA TextFacts ==
  ASSUME NEW n \in LogText
  PROVE  /\ n \in Nat /\ Log!Longest \in Nat /\ n <= Log!Longest
         /\ Log!Printed(n) \in 0 .. 899 /\ (n < 900 => Log!Printed(n) = n)
<1>1. LogText \subseteq Nat /\ \E m \in LogText : \A k \in LogText : k <= m
  BY LogAssumption
<1>2. Log!Longest \in LogText /\ \A k \in LogText : k <= Log!Longest
  BY <1>1 DEF Log!Longest
<1> QED
  BY <1>1, <1>2 DEF Log!Printed

\* Moments have a day and a time of day.
LEMMA StampFacts ==
  /\ Log!NoStamp \in Log!Stamps
  /\ \A m \in Log!Moment, s \in Log!Stamps :
       /\ [s EXCEPT !.day = Log!Day(m)] \in Log!Stamps
       /\ [s EXCEPT !.time = Log!TimeOfDay(m)] \in Log!Stamps
<1>1. 0 \in Log!Moment /\ Log!Day(0) = 0 /\ Log!TimeOfDay(0) = 0
  BY LogAssumption DEF Log!Moment, Log!Day, Log!TimeOfDay
<1>2. Log!NoStamp \in Log!Stamps
  BY <1>1 DEF Log!NoStamp, Log!Stamps
<1> QED
  BY <1>2 DEF Log!Stamps

\* A thread is where it was with what it had.
LEMMA LogFrame ==
  ASSUME NEW u \in Thread, LogAt(u),
         at'[u] = at[u], i'[u] = i[u], put'[u] = put[u]
  PROVE  LogAt(u)'
BY DEF LogAt, HasText, Log!Printed

LEMMA OwnFrame ==
  ASSUME NEW u \in Thread, LogOwn(u), at'[u] = at[u], others'[u] = others[u],
         now'[u] = now[u], stamp'[u] = stamp[u],
         tm' = tm \/ at[u] \notin {"converted", "dated"}
  PROVE  LogOwn(u)'
BY DEF LogOwn, Log!Day, Log!TimeOfDay

LEMMA LogStarts == Log!Init => LogInv
<1> SUFFICES ASSUME Log!Init
             PROVE  LogInv
  OBVIOUS
<1>1. /\ log_enabled \in BOOLEAN /\ clock = 0 /\ tm = 0
      /\ at = [t \in Thread |-> "idle"]
      /\ now = [t \in Thread |-> 0] /\ stamp = [t \in Thread |-> Log!NoStamp]
      /\ i = [t \in Thread |-> 0] /\ put = [t \in Thread |-> 0]
      /\ others = [t \in Thread |-> FALSE]
  BY DEF Log!Init
<1>2. 0 \in Log!Moment /\ 0 \in 0 .. 1024
  BY LogAssumption DEF Log!Moment
<1>3. 0 \in 0 .. 1024 + Log!Longest
  BY LogAssumption, TextFacts
<1>4. Log!TypeOK
  BY <1>1, <1>2, <1>3, StampFacts DEF Log!TypeOK
<1>5. ASSUME NEW t \in Thread
      PROVE  LogAt(t) /\ LogOwn(t)
  BY <1>1, <1>5 DEF LogAt, LogOwn
<1> QED
  BY <1>4, <1>5 DEF LogInv

LogPlaces == {"idle", "timed", "converted", "dated", "stamped", "printed", "ended", "overrun"}

\* A step of a thread changes its own place only.
LEMMA GoFacts ==
  ASSUME LogInv, NEW t \in Thread, NEW here, NEW there \in LogPlaces, Log!Go(t, here, there)
  PROVE  /\ at[t] = here /\ at'[t] = there /\ at' \in [Thread -> LogPlaces]
         /\ \A u \in Thread \ {t} : at'[u] = at[u]
<1>1. at[t] = here /\ at' = [at EXCEPT ![t] = there]
  BY DEF Log!Go
<1>2. at \in [Thread -> LogPlaces]
  BY DEF LogInv, Log!TypeOK, LogPlaces
<1> QED
  BY <1>1, <1>2

LEMMA LogTypes ==
  Log!TypeOK <=>
    /\ log_enabled \in BOOLEAN
    /\ clock \in Log!Moment /\ tm \in Log!Moment
    /\ at \in [Thread -> LogPlaces]
    /\ now \in [Thread -> Log!Moment]
    /\ stamp \in [Thread -> Log!Stamps]
    /\ i \in [Thread -> 0 .. 1024 + Log!Longest]
    /\ put \in [Thread -> 0 .. 1024]
    /\ others \in [Thread -> BOOLEAN]
BY DEF Log!TypeOK, LogPlaces

\* The same of the step's result.
LEMMA LogTypesNext ==
  ASSUME log_enabled' \in BOOLEAN,
         clock' \in Log!Moment, tm' \in Log!Moment,
         at' \in [Thread -> LogPlaces], now' \in [Thread -> Log!Moment],
         stamp' \in [Thread -> Log!Stamps],
         i' \in [Thread -> 0 .. 1024 + Log!Longest], put' \in [Thread -> 0 .. 1024],
         others' \in [Thread -> BOOLEAN]
  PROVE  Log!TypeOK'
BY DEF Log!TypeOK, LogPlaces, Log!Moment, Log!Stamps, Log!Longest, Log!Day, Log!TimeOfDay

LEMMA LogTicks ==
  ASSUME LogInv, Log!Tick
  PROVE  LogInv'
<1>1. /\ clock < MaxTime /\ clock' = clock + 1
      /\ UNCHANGED <<log_enabled, tm, at, now, stamp, i, put, others>>
  BY DEF Log!Tick
<1>2. clock' \in Log!Moment
  BY <1>1, LogAssumption DEF LogInv, Log!TypeOK, Log!Moment
<1>3. Log!TypeOK'
  BY <1>1, <1>2, LogTypes, LogTypesNext DEF LogInv
<1>4. ASSUME NEW u \in Thread
      PROVE  LogAt(u)' /\ LogOwn(u)'
  BY <1>1, <1>4, LogFrame, OwnFrame DEF LogInv
<1> QED
  BY <1>3, <1>4 DEF LogInv

LEMMA LogReads ==
  ASSUME LogInv, NEW t \in Thread, Log!ReadClock(t)
  PROVE  LogInv'
<1>1. /\ Log!Go(t, "idle", "timed") /\ now' = [now EXCEPT ![t] = clock]
      /\ UNCHANGED <<log_enabled, clock, tm, stamp, i, put, others>>
  BY DEF Log!ReadClock
<1>2. /\ at[t] = "idle" /\ at'[t] = "timed" /\ at' \in [Thread -> LogPlaces]
      /\ \A u \in Thread \ {t} : at'[u] = at[u]
  BY <1>1, GoFacts DEF LogPlaces
<1>3. Log!TypeOK'
  BY <1>1, <1>2, LogTypes, LogTypesNext DEF LogInv
<1>4. LogAt(t)' /\ LogOwn(t)'
  <2>1. LogAt(t)'
    BY <1>1, <1>2 DEF LogInv, LogAt
  <2>2. LogOwn(t)'
    BY <1>2 DEF LogOwn
  <2> QED
    BY <2>1, <2>2
<1>5. ASSUME NEW u \in Thread \ {t}
      PROVE  LogAt(u)' /\ LogOwn(u)'
  <2>1. now'[u] = now[u]
    BY <1>1, LogTypes DEF LogInv
  <2> QED
    BY <1>1, <1>2, <2>1, LogFrame, OwnFrame DEF LogInv
<1> QED
  BY <1>3, <1>4, <1>5 DEF LogInv

LEMMA LogConverts ==
  ASSUME LogInv, NEW t \in Thread, Log!Convert(t)
  PROVE  LogInv'
<1>1. /\ Log!Go(t, "timed", "converted") /\ tm' = now[t]
      /\ others' = [u \in Thread |->
                      u # t /\ (others[u] \/ at[u] \in {"converted", "dated"})]
      /\ UNCHANGED <<log_enabled, clock, now, stamp, i, put>>
  BY DEF Log!Convert
<1>2. /\ at[t] = "timed" /\ at'[t] = "converted" /\ at' \in [Thread -> LogPlaces]
      /\ \A u \in Thread \ {t} : at'[u] = at[u]
  BY <1>1, GoFacts DEF LogPlaces
<1>3. Log!TypeOK'
  <2>1. others' \in [Thread -> BOOLEAN] /\ tm' \in Log!Moment
    BY <1>1, LogTypes DEF LogInv
  <2> QED
    BY <1>1, <1>2, <2>1, LogTypes, LogTypesNext DEF LogInv
<1>4. LogAt(t)' /\ LogOwn(t)'
  <2>1. LogAt(t)'
    BY <1>1, <1>2 DEF LogInv, LogAt
  <2>2. tm' = now'[t]
    BY <1>1
  <2>3. LogOwn(t)'
    BY <1>2, <2>2 DEF LogOwn
  <2> QED
    BY <2>1, <2>3
<1>5. ASSUME NEW u \in Thread \ {t}
      PROVE  LogAt(u)' /\ LogOwn(u)'
  <2>1. LogAt(u)'
    BY <1>1, <1>2, LogFrame DEF LogInv
  <2>2. CASE others[u] \/ at[u] \in {"converted", "dated"}
    <3>1. others'[u]
      BY <1>1, <2>2
    <3> QED
      BY <2>1, <3>1 DEF LogOwn
  <2>3. CASE ~ (others[u] \/ at[u] \in {"converted", "dated"})
    <3>1. others'[u] = others[u]
      BY <1>1, <2>3, LogTypes DEF LogInv
    <3> QED
      BY <1>1, <1>2, <2>1, <2>3, <3>1, OwnFrame DEF LogInv
  <2> QED
    BY <2>2, <2>3
<1> QED
  BY <1>3, <1>4, <1>5 DEF LogInv

LEMMA LogPrintsDay ==
  ASSUME LogInv, NEW t \in Thread, Log!PrintDay(t)
  PROVE  LogInv'
<1>1. /\ Log!Go(t, "converted", "dated")
      /\ stamp' = [stamp EXCEPT ![t].day = Log!Day(tm)]
      /\ UNCHANGED <<log_enabled, clock, tm, now, i, put, others>>
  BY DEF Log!PrintDay
<1>2. /\ at[t] = "converted" /\ at'[t] = "dated" /\ at' \in [Thread -> LogPlaces]
      /\ \A u \in Thread \ {t} : at'[u] = at[u]
  BY <1>1, GoFacts DEF LogPlaces
<1>3. stamp \in [Thread -> Log!Stamps] /\ tm \in Log!Moment /\ stamp[t] \in Log!Stamps
  BY LogTypes DEF LogInv
<1>4. stamp' = [stamp EXCEPT ![t] = [stamp[t] EXCEPT !.day = Log!Day(tm)]]
  BY <1>1
<1>5. [stamp[t] EXCEPT !.day = Log!Day(tm)] \in Log!Stamps
  BY <1>3, StampFacts
<1>6. Log!TypeOK'
  <2>1. stamp' \in [Thread -> Log!Stamps]
    BY <1>3, <1>4, <1>5
  <2> QED
    BY <1>1, <1>2, <2>1, LogTypes, LogTypesNext DEF LogInv
<1>7. LogAt(t)' /\ LogOwn(t)'
  <2>1. LogAt(t)'
    BY <1>1, <1>2 DEF LogInv, LogAt
  <2>2. stamp'[t].day = Log!Day(tm)
    BY <1>3, <1>4 DEF Log!Stamps
  <2>3. ~ others[t] => tm = now[t]
    BY <1>2 DEF LogInv, LogOwn
  <2>4. LogOwn(t)'
    BY <1>1, <1>2, <2>2, <2>3 DEF LogOwn, Log!Day
  <2> QED
    BY <2>1, <2>4
<1>8. ASSUME NEW u \in Thread \ {t}
      PROVE  LogAt(u)' /\ LogOwn(u)'
  <2>1. stamp'[u] = stamp[u]
    BY <1>3, <1>4
  <2> QED
    BY <1>1, <1>2, <2>1, LogFrame, OwnFrame DEF LogInv
<1> QED
  BY <1>6, <1>7, <1>8 DEF LogInv

LEMMA LogPrintsTime ==
  ASSUME LogInv, NEW t \in Thread, Log!PrintTime(t)
  PROVE  LogInv'
<1>1. /\ Log!Go(t, "dated", "stamped")
      /\ stamp' = [stamp EXCEPT ![t].time = Log!TimeOfDay(tm)]
      /\ i' = [i EXCEPT ![t] = 22] /\ put' = [put EXCEPT ![t] = 22]
      /\ UNCHANGED <<log_enabled, clock, tm, now, others>>
  BY DEF Log!PrintTime
<1>2. /\ at[t] = "dated" /\ at'[t] = "stamped" /\ at' \in [Thread -> LogPlaces]
      /\ \A u \in Thread \ {t} : at'[u] = at[u]
  BY <1>1, GoFacts DEF LogPlaces
<1>3. /\ stamp \in [Thread -> Log!Stamps] /\ tm \in Log!Moment /\ stamp[t] \in Log!Stamps
      /\ i \in [Thread -> 0 .. 1024 + Log!Longest] /\ put \in [Thread -> 0 .. 1024]
  BY LogTypes DEF LogInv
<1>4. stamp' = [stamp EXCEPT ![t] = [stamp[t] EXCEPT !.time = Log!TimeOfDay(tm)]]
  BY <1>1
<1>5. [stamp[t] EXCEPT !.time = Log!TimeOfDay(tm)] \in Log!Stamps
  BY <1>3, StampFacts
<1>6. Log!TypeOK'
  <2>1. stamp' \in [Thread -> Log!Stamps]
    BY <1>3, <1>4, <1>5
  <2>2. i' \in [Thread -> 0 .. 1024 + Log!Longest] /\ put' \in [Thread -> 0 .. 1024]
    <3>1. 22 \in 0 .. 1024 + Log!Longest /\ 22 \in 0 .. 1024
      BY LogAssumption, TextFacts
    <3> QED
      BY <1>1, <1>3, <3>1
  <2> QED
    BY <1>1, <1>2, <2>1, <2>2, LogTypes, LogTypesNext DEF LogInv
<1>7. LogAt(t)' /\ LogOwn(t)'
  <2>1. LogAt(t)'
    BY <1>1, <1>2, <1>3 DEF LogAt
  <2>2. /\ stamp'[t].day = stamp[t].day /\ stamp'[t].time = Log!TimeOfDay(tm)
        /\ stamp'[t] = [day |-> stamp'[t].day, time |-> stamp'[t].time]
    BY <1>3, <1>4 DEF Log!Stamps
  <2>3. ~ others[t] => tm = now[t] /\ stamp[t].day = Log!Day(now[t])
    BY <1>2 DEF LogInv, LogOwn
  <2>4. ~ others[t] =>
          stamp'[t] = [day |-> Log!Day(now[t]), time |-> Log!TimeOfDay(now[t])]
    BY <2>2, <2>3, Zenon
  <2>5. LogOwn(t)'
    BY <1>1, <1>2, <2>4 DEF LogOwn, Log!Day, Log!TimeOfDay
  <2> QED
    BY <2>1, <2>5
<1>8. ASSUME NEW u \in Thread \ {t}
      PROVE  LogAt(u)' /\ LogOwn(u)'
  <2>1. stamp'[u] = stamp[u] /\ i'[u] = i[u] /\ put'[u] = put[u]
    BY <1>1, <1>3, <1>4
  <2> QED
    BY <1>1, <1>2, <2>1, LogFrame, OwnFrame DEF LogInv
<1> QED
  BY <1>6, <1>7, <1>8 DEF LogInv

LEMMA LogPrintsText ==
  ASSUME LogInv, NEW t \in Thread, Log!PrintText(t)
  PROVE  LogInv'
<1>1. /\ Log!Go(t, "stamped", "printed")
      /\ UNCHANGED <<log_enabled, clock, tm, now, stamp, others>>
  BY DEF Log!PrintText
<1>2. PICK g \in {6, 7}, n \in LogText :
        /\ i' = [i EXCEPT ![t] = @ + g + n]
        /\ put' = [put EXCEPT ![t] = @ + g + Log!Printed(n)]
  BY DEF Log!PrintText
<1>3. /\ at[t] = "stamped" /\ at'[t] = "printed" /\ at' \in [Thread -> LogPlaces]
      /\ \A u \in Thread \ {t} : at'[u] = at[u]
  BY <1>1, GoFacts DEF LogPlaces
<1>4. /\ i \in [Thread -> 0 .. 1024 + Log!Longest] /\ put \in [Thread -> 0 .. 1024]
      /\ i[t] = 22 /\ put[t] = 22
  BY <1>3, LogTypes DEF LogInv, LogAt
<1>5. i' = [i EXCEPT ![t] = 22 + g + n] /\ put' = [put EXCEPT ![t] = 22 + g + Log!Printed(n)]
  BY <1>2, <1>4
<1>6. Log!TypeOK'
  <2>1. 22 + g + n \in 0 .. 1024 + Log!Longest /\ 22 + g + Log!Printed(n) \in 0 .. 1024
    BY TextFacts
  <2>2. i' \in [Thread -> 0 .. 1024 + Log!Longest] /\ put' \in [Thread -> 0 .. 1024]
    BY <1>4, <1>5, <2>1
  <2> QED
    BY <1>1, <1>3, <2>2, LogTypes, LogTypesNext DEF LogInv
<1>7. LogAt(t)' /\ LogOwn(t)'
  <2>1. i'[t] = 22 + g + n + 0 /\ put'[t] = 22 + g + Log!Printed(n) + 0
    <3>1. i'[t] = 22 + g + n /\ put'[t] = 22 + g + Log!Printed(n)
      BY <1>4, <1>5
    <3>2. n \in Nat /\ Log!Printed(n) \in Nat
      BY TextFacts
    <3> QED
      BY <3>1, <3>2
  <2>2. HasText(t, 0)'
    BY <2>1 DEF HasText, Log!Printed
  <2>3. LogAt(t)'
    BY <1>3, <2>2 DEF LogAt
  <2>4. LogOwn(t)'
    BY <1>1, <1>3 DEF LogInv, LogOwn, Log!Day, Log!TimeOfDay
  <2> QED
    BY <2>3, <2>4
<1>8. ASSUME NEW u \in Thread \ {t}
      PROVE  LogAt(u)' /\ LogOwn(u)'
  <2>1. i'[u] = i[u] /\ put'[u] = put[u]
    BY <1>4, <1>5
  <2> QED
    BY <1>1, <1>3, <2>1, LogFrame, OwnFrame DEF LogInv
<1> QED
  BY <1>6, <1>7, <1>8 DEF LogInv

LEMMA LogEndsLine ==
  ASSUME LogInv, NEW t \in Thread, Log!EndLine(t)
  PROVE  LogInv'
<1>1. /\ Log!Go(t, "printed", "ended") /\ i[t] < 1024
      /\ put' = [put EXCEPT ![t] = @ + 1] /\ i' = [i EXCEPT ![t] = @ + 1]
      /\ UNCHANGED <<log_enabled, clock, tm, now, stamp, others>>
  BY DEF Log!EndLine
<1>2. /\ at[t] = "printed" /\ at'[t] = "ended" /\ at' \in [Thread -> LogPlaces]
      /\ \A u \in Thread \ {t} : at'[u] = at[u]
  BY <1>1, GoFacts DEF LogPlaces
<1>3. i \in [Thread -> 0 .. 1024 + Log!Longest] /\ put \in [Thread -> 0 .. 1024]
  BY LogTypes DEF LogInv
<1>4. PICK g \in {6, 7}, n \in LogText :
        i[t] = 22 + g + n + 0 /\ put[t] = 22 + g + Log!Printed(n) + 0
  BY <1>2 DEF LogInv, LogAt, HasText
<1>5. i'[t] = 22 + g + n + 1 /\ put'[t] = 22 + g + Log!Printed(n) + 1
  <2>1. i'[t] = i[t] + 1 /\ put'[t] = put[t] + 1
    BY <1>1, <1>3
  <2>2. n \in Nat /\ Log!Printed(n) \in Nat
    BY TextFacts
  <2> QED
    BY <1>4, <2>1, <2>2
<1>6. i'[t] \in 0 .. 1024 /\ put'[t] \in 0 .. 1024
  <2>1. i'[t] = i[t] + 1 /\ i[t] \in Nat
    BY <1>1, <1>3
  <2>2. i'[t] \in 0 .. 1024
    BY <1>1, <2>1
  <2>3. put'[t] \in 0 .. 1024
    <3>1. Log!Printed(n) \in 0 .. 899
      BY TextFacts
    <3>2. 22 + g + Log!Printed(n) + 1 \in 0 .. 1024
      BY <3>1
    <3> QED
      BY <1>5, <3>2
  <2> QED
    BY <2>2, <2>3
<1>7. Log!TypeOK'
  <2>1. i'[t] \in 0 .. 1024 + Log!Longest
    <3>1. Log!Longest \in Nat
      BY TextFacts
    <3>2. ASSUME NEW x \in 0 .. 1024
          PROVE  x \in 0 .. 1024 + Log!Longest
      BY <3>1
    <3>3. i'[t] \in 0 .. 1024
      BY <1>6
    <3> QED
      BY <3>2, <3>3
  <2>2. i' \in [Thread -> 0 .. 1024 + Log!Longest] /\ put' \in [Thread -> 0 .. 1024]
    BY <1>1, <1>3, <1>6, <2>1
  <2> QED
    BY <1>1, <1>2, <2>2, LogTypes, LogTypesNext DEF LogInv
<1>8. LogAt(t)' /\ LogOwn(t)'
  <2>1. HasText(t, 1)'
    BY <1>5 DEF HasText, Log!Printed
  <2>2. LogAt(t)'
    <3>1. at'[t] = "ended" /\ i'[t] <= 1024
      BY <1>2, <1>6
    <3> QED
      BY <2>1, <3>1, Zenon DEF LogAt
  <2>3. LogOwn(t)'
    BY <1>1, <1>2 DEF LogInv, LogOwn, Log!Day, Log!TimeOfDay
  <2> QED
    BY <2>2, <2>3
<1>9. ASSUME NEW u \in Thread \ {t}
      PROVE  LogAt(u)' /\ LogOwn(u)'
  <2>1. i'[u] = i[u] /\ put'[u] = put[u]
    BY <1>1, <1>3
  <2> QED
    BY <1>1, <1>2, <2>1, LogFrame, OwnFrame DEF LogInv
<1> QED
  BY <1>7, <1>8, <1>9 DEF LogInv

LEMMA LogOverruns ==
  ASSUME LogInv, NEW t \in Thread, Log!Overrun(t)
  PROVE  LogInv'
<1>1. /\ Log!Go(t, "printed", "overrun") /\ i[t] >= 1024
      /\ UNCHANGED <<log_enabled, clock, tm, now, stamp, i, put, others>>
  BY DEF Log!Overrun
<1>2. /\ at[t] = "printed" /\ at'[t] = "overrun" /\ at' \in [Thread -> LogPlaces]
      /\ \A u \in Thread \ {t} : at'[u] = at[u]
  BY <1>1, GoFacts DEF LogPlaces
<1>3. Log!TypeOK'
  BY <1>1, <1>2, LogTypes, LogTypesNext DEF LogInv
<1>4. LogAt(t)' /\ LogOwn(t)'
  <2>1. HasText(t, 0)'
    BY <1>1, <1>2 DEF LogInv, LogAt, HasText, Log!Printed
  <2>2. LogAt(t)'
    BY <1>1, <1>2, <2>1 DEF LogAt
  <2>3. LogOwn(t)'
    BY <1>1, <1>2 DEF LogInv, LogOwn, Log!Day, Log!TimeOfDay
  <2> QED
    BY <2>2, <2>3
<1>5. ASSUME NEW u \in Thread \ {t}
      PROVE  LogAt(u)' /\ LogOwn(u)'
  BY <1>1, <1>2, <1>5, LogFrame, OwnFrame DEF LogInv
<1> QED
  BY <1>3, <1>4, <1>5 DEF LogInv

LEMMA LogWrites ==
  ASSUME LogInv, NEW t \in Thread, Log!Write(t)
  PROVE  LogInv'
<1>1. /\ Log!Go(t, "ended", "idle")
      /\ now' = [now EXCEPT ![t] = 0] /\ stamp' = [stamp EXCEPT ![t] = Log!NoStamp]
      /\ i' = [i EXCEPT ![t] = 0] /\ put' = [put EXCEPT ![t] = 0]
      /\ others' = [others EXCEPT ![t] = FALSE]
      /\ UNCHANGED <<log_enabled, clock, tm>>
  BY DEF Log!Write
<1>2. /\ at[t] = "ended" /\ at'[t] = "idle" /\ at' \in [Thread -> LogPlaces]
      /\ \A u \in Thread \ {t} : at'[u] = at[u]
  BY <1>1, GoFacts DEF LogPlaces
<1>3. /\ now \in [Thread -> Log!Moment] /\ stamp \in [Thread -> Log!Stamps]
      /\ i \in [Thread -> 0 .. 1024 + Log!Longest] /\ put \in [Thread -> 0 .. 1024]
      /\ others \in [Thread -> BOOLEAN]
  BY LogTypes DEF LogInv
<1>4. Log!TypeOK'
  <2>1. 0 \in Log!Moment /\ 0 \in 0 .. 1024 /\ 0 \in 0 .. 1024 + Log!Longest
    BY LogAssumption, TextFacts DEF Log!Moment
  <2>2. /\ now' \in [Thread -> Log!Moment] /\ stamp' \in [Thread -> Log!Stamps]
        /\ i' \in [Thread -> 0 .. 1024 + Log!Longest] /\ put' \in [Thread -> 0 .. 1024]
        /\ others' \in [Thread -> BOOLEAN]
    BY <1>1, <1>3, <2>1, StampFacts
  <2> QED
    BY <1>1, <1>2, <2>2, LogTypes, LogTypesNext DEF LogInv
<1>5. LogAt(t)' /\ LogOwn(t)'
  <2>1. i'[t] = 0 /\ put'[t] = 0
    BY <1>1, <1>3
  <2> QED
    BY <1>2, <2>1 DEF LogAt, LogOwn
<1>6. ASSUME NEW u \in Thread \ {t}
      PROVE  LogAt(u)' /\ LogOwn(u)'
  <2>1. /\ i'[u] = i[u] /\ put'[u] = put[u] /\ others'[u] = others[u]
        /\ now'[u] = now[u] /\ stamp'[u] = stamp[u]
    BY <1>1, <1>3
  <2> QED
    BY <1>1, <1>2, <2>1, LogFrame, OwnFrame DEF LogInv
<1> QED
  BY <1>4, <1>5, <1>6 DEF LogInv

LEMMA LogSteps ==
  ASSUME LogInv, Log!Next \/ UNCHANGED Log!vars
  PROVE  LogInv'
<1>1. CASE UNCHANGED Log!vars
  <2>1. UNCHANGED <<log_enabled, clock, tm, at, now, stamp, i, put, others>>
    BY <1>1 DEF Log!vars
  <2>2. Log!TypeOK'
    BY <2>1, LogTypes, LogTypesNext DEF LogInv
  <2>3. ASSUME NEW u \in Thread
        PROVE  LogAt(u)' /\ LogOwn(u)'
    BY <2>1, <2>3, LogFrame, OwnFrame DEF LogInv
  <2> QED
    BY <2>2, <2>3 DEF LogInv
<1> QED
  BY <1>1, LogTicks, LogReads, LogConverts, LogPrintsDay, LogPrintsTime,
     LogPrintsText, LogEndsLine, LogOverruns, LogWrites DEF Log!Next

LEMMA LogHolds ==
  ASSUME LogInv
  PROVE  Log!StaleOnlyLong /\ Log!OverrunOnlyCut /\ Log!StampOfOwnTime
<1>1. ASSUME NEW t \in Thread, at[t] = "ended", i[t] # put[t]
      PROVE  \E g \in {6, 7}, n \in LogText : n >= 900 /\ i[t] = 22 + g + n + 1
  <2>1. PICK g \in {6, 7}, n \in LogText :
          i[t] = 22 + g + n + 1 /\ put[t] = 22 + g + Log!Printed(n) + 1
    BY <1>1 DEF LogInv, LogAt, HasText
  <2>2. n >= 900
    BY <1>1, <2>1, TextFacts
  <2> QED
    BY <2>1, <2>2
<1>2. ASSUME NEW t \in Thread, at[t] = "overrun"
      PROVE  put[t] < i[t]
  <2>1. PICK g \in {6, 7}, n \in LogText :
          i[t] = 22 + g + n + 0 /\ put[t] = 22 + g + Log!Printed(n) + 0
    BY <1>2 DEF LogInv, LogAt, HasText
  <2>2. i[t] >= 1024
    BY <1>2 DEF LogInv, LogAt
  <2> QED
    BY <2>1, <2>2, TextFacts
<1>3. ASSUME NEW t \in Thread, at[t] = "ended", ~ others[t]
      PROVE  stamp[t] = [day |-> Log!Day(now[t]), time |-> Log!TimeOfDay(now[t])]
  BY <1>3 DEF LogInv, LogOwn
<1> QED
  BY <1>1, <1>2, <1>3 DEF Log!StaleOnlyLong, Log!OverrunOnlyCut, Log!StampOfOwnTime
-----------------------------------------------------------------------------
(***************************************************************************)
(* http_parse_endpoint                                                     *)
(***************************************************************************)
\* Quotient and remainder, and that there are no others.
LEMMA Division ==
  ASSUME NEW a \in Nat, NEW p \in Nat \ {0}
  PROVE  /\ a = p * (a \div p) + (a % p)
         /\ a \div p \in Nat /\ a % p \in Nat /\ a % p < p
<1>1. a \div p \in Nat
  OBVIOUS
<1>2. a % p \in Nat /\ a % p < p
  OBVIOUS
<1>3. a = p * (a \div p) + (a % p)
  OBVIOUS
<1> QED
  BY <1>1, <1>2, <1>3

LEMMA Remainder ==
  ASSUME NEW p \in Nat \ {0}, NEW q \in Nat, NEW r \in Nat, r < p
  PROVE  (p * q + r) % p = r
<1> DEFINE a == p * q + r
<1>1. a \in Nat /\ a = p * q + r
  OBVIOUS
<1> HIDE DEF a
<1>2. /\ a = p * (a \div p) + (a % p)
      /\ a \div p \in Nat /\ a % p \in Nat /\ a % p < p
  BY <1>1, Division
<1>3. r = a % p
  BY <1>1, <1>2
<1> QED
  BY <1>3 DEF a

\* A number that wraps at each digit is what the whole number wraps to.
LEMMA WrappedDigit ==
  ASSUME NEW p \in Nat \ {0}, NEW x \in Nat, NEW v \in Nat
  PROVE  ((x % p) * 10 + v) % p = (x * 10 + v) % p
<1> DEFINE q == x \div p
           r == x % p
           a == r * 10 + v
           b == x * 10 + v
<1>1. x = p * q + r /\ q \in Nat /\ r \in Nat
  BY Division
<1>2. a \in Nat /\ b \in Nat
  <2> HIDE DEF r, q
  <2> QED
    BY <1>1
<1>3. a = p * (a \div p) + (a % p) /\ a \div p \in Nat /\ a % p \in Nat /\ a % p < p
  <2> HIDE DEF a
  <2> QED
    BY <1>2, Division
<1>4. b = p * (10 * q) + a
  <2> HIDE DEF r, q
  <2> QED
    BY <1>1
<1>5. b = p * (10 * q + (a \div p)) + (a % p)
  <2> DEFINE tens == 10 * q
             d == a \div p
             m == a % p
  <2>1. tens \in Nat
    BY <1>1
  <2> HIDE DEF a, b, tens, d, m
  <2>2. /\ b = p * tens + a /\ a = p * d + m
        /\ p \in Nat /\ tens \in Nat /\ d \in Nat /\ m \in Nat
    BY <1>3, <1>4, <2>1 DEF tens, d, m
  <2>3. b = p * (tens + d) + m
    BY <2>2
  <2> QED
    BY <2>3 DEF tens, d, m
<1>6. 10 * q + (a \div p) \in Nat
  BY <1>1, <1>3
<1> HIDE DEF a, b
<1>7. (p * (10 * q + (a \div p)) + (a % p)) % p = a % p
  BY <1>3, <1>6, Remainder
<1>8. b % p = a % p
  BY <1>5, <1>7
<1> QED
  BY <1>8 DEF a, b

\* What is assumed of the constants, part by part.
LEMMA DigitFacts ==
  /\ \A d \in DOMAIN Value : Value[d] \in Nat
  /\ PortSpan \in Nat \ {0} /\ PortSpan > 443 /\ AddressLength \in Nat
<1>1. \A d \in DOMAIN Value : Value[d] \in 0 .. 9
  BY EndpointAssumption, Zenon
<1>2. \A n \in 0 .. 9 : n \in Nat
  OBVIOUS
<1>3. PortSpan \in Nat /\ PortSpan > 443 /\ AddressLength \in Nat
  BY EndpointAssumption, Zenon
<1>4. PortSpan # 0
  BY <1>3
<1> QED
  BY <1>1, <1>2, <1>3, <1>4, Zenon

\* What more and more digits make: the recursion is a function.
LEMMA NumbersOf ==
  ASSUME NEW digits \in Seq(DOMAIN Value)
  PROVE  LET number == Endpoint!Numbers(digits) IN
         /\ number \in [0 .. Len(digits) -> Nat]
         /\ number[0] = 0
         /\ \A n \in 1 .. Len(digits) : number[n] = number[n - 1] * 10 + Value[digits[n]]
<1> DEFINE N == Len(digits)
           G == [n \in 1 .. N |-> [x \in Nat |-> x * 10 + Value[digits[n]]]]
           Step(f) == [n \in 0 .. N |-> IF n = 0 THEN 0 ELSE f[n - 1] * 10 + Value[digits[n]]]
           number == Endpoint!Numbers(digits)
<1>1. N \in Nat
  OBVIOUS
<1>2. ASSUME NEW n \in 1 .. N
      PROVE  Value[digits[n]] \in Nat
  <2>1. digits[n] \in DOMAIN Value
    BY <1>2, ElementOfSeq
  <2> QED
    BY <2>1, DigitFacts, Zenon
<1>3. G \in [1 .. N -> [Nat -> Nat]]
  BY <1>2
<1>4. PICK f : Recursive(f, N, Nat, 0, G)
  <2>1. 0 \in Nat
    OBVIOUS
  <2> HIDE DEF G, N
  <2> QED
    BY <1>1, <1>3, <2>1, Recursion, Zenon
<1>5. f \in [0 .. N -> Nat] /\ f[0] = 0
  BY <1>4, Zenon DEF Recursive
<1>6. ASSUME NEW n \in 1 .. N
      PROVE  f[n] = f[n - 1] * 10 + Value[digits[n]]
  <2>1. f[n] = G[n][f[n - 1]]
    BY <1>4, Zenon DEF Recursive
  <2>2. f[n - 1] \in Nat
    <3>1. n - 1 \in 0 .. N
      BY <1>1
    <3> QED
      BY <1>5, <3>1, Zenon
  <2>3. G[n] = [x \in Nat |-> x * 10 + Value[digits[n]]]
    OBVIOUS
  <2> HIDE DEF G
  <2> QED
    BY <2>1, <2>2, <2>3
<1>7. f = Step(f)
  <2>1. \A n \in 0 .. N : f[n] = IF n = 0 THEN 0 ELSE f[n - 1] * 10 + Value[digits[n]]
    BY <1>1, <1>5, <1>6
  <2> QED
    BY <1>5, <2>1, Zenon
<1>8. number = CHOOSE g : g = Step(g)
  BY Zenon DEF Endpoint!Numbers
<1>9. number = Step(number)
  <2> HIDE DEF Step, number
  <2> QED
    BY <1>7, <1>8
<1>10. DOMAIN number = 0 .. N /\ number = [n \in 0 .. N |-> number[n]]
  <2> HIDE DEF number
  <2> QED
    BY <1>9, Zenon
<1>11. \A n \in 0 .. N : number[n] = IF n = 0 THEN 0 ELSE number[n - 1] * 10 + Value[digits[n]]
  <2> HIDE DEF number
  <2> QED
    BY <1>9, Zenon
<1> HIDE DEF number
<1>12. number[0] = 0 /\ \A n \in 1 .. N : number[n] = number[n - 1] * 10 + Value[digits[n]]
  <2>1. 0 \in 0 .. N
    BY <1>1
  <2>2. ASSUME NEW n \in 1 .. N
        PROVE  n \in 0 .. N /\ n # 0
    BY <1>1
  <2> QED
    BY <1>11, <2>1, <2>2, Zenon
<1>13. number \in [0 .. N -> Nat]
  <2> DEFINE fine == {n \in Nat : n <= N => number[n] \in Nat}
  <2>1. 0 \in fine
    BY <1>12
  <2>2. ASSUME NEW n \in Nat, n \in fine
        PROVE  n + 1 \in fine
    <3> SUFFICES ASSUME n + 1 <= N
                 PROVE  number[n + 1] \in Nat
      BY <2>2
    <3>1. n + 1 \in 1 .. N /\ (n + 1) - 1 = n
      BY <1>1
    <3>2. number[n + 1] = number[n] * 10 + Value[digits[n + 1]]
      BY <1>12, <3>1, Zenon
    <3>3. Value[digits[n + 1]] \in Nat
      BY <1>2, <3>1, Zenon
    <3>4. number[n] \in Nat
      BY <1>1, <2>2, <3>1
    <3> QED
      BY <3>2, <3>3, <3>4
  <2>3. \A n \in Nat : n \in fine
    <3> HIDE DEF fine
    <3> QED
      BY <2>1, <2>2, Induction
  <2>4. \A n \in 0 .. N : number[n] \in Nat
    BY <1>1, <2>3
  <2> QED
    BY <1>10, <2>4, Zenon
<1> QED
  BY <1>12, <1>13, Zenon DEF number

\* An address after its prefix is a string of its characters.
LEMMA RestFacts ==
  ASSUME address \in Endpoint!Address
  PROVE  /\ Endpoint!Rest \in Seq(Char)
         /\ address.prefix \in Endpoint!Protocol \cup {"other", "short"}
<1>1. /\ address.prefix \in Endpoint!Protocol \cup {"other", "short"}
      /\ address.rest \in UNION {[1 .. len -> Char] : len \in 0 .. AddressLength}
  BY DEF Endpoint!Address
<1>2. PICK len \in 0 .. AddressLength : address.rest \in [1 .. len -> Char]
  BY <1>1
<1>3. len \in Nat
  BY <1>2, DigitFacts
<1>4. address.rest \in Seq(Char)
  BY <1>2, <1>3, SeqDef
<1> QED
  BY <1>1, <1>4 DEF Endpoint!Rest

\* FirstIn is the first place that is in the set, or the one after the end.
LEMMA FirstInFacts ==
  ASSUME NEW C, NEW s \in Seq(C), NEW set
  PROVE  LET k == Endpoint!FirstIn(s, set) IN
         /\ k \in 1 .. Len(s) + 1
         /\ k = Len(s) + 1 \/ s[k] \in set
         /\ \A m \in 1 .. k - 1 : s[m] \notin set
<1> DEFINE N == Len(s)
           First(k) == /\ k = N + 1 \/ s[k] \in set
                       /\ \A m \in 1 .. k - 1 : s[m] \notin set
           places == {k \in 1 .. N + 1 : k = N + 1 \/ s[k] \in set}
<1>1. N \in Nat
  OBVIOUS
<1>2. PICK k \in places : \A m \in places : k <= m
  <2>1. places \subseteq Nat /\ N + 1 \in places
    BY <1>1
  <2> HIDE DEF places
  <2> QED
    BY <2>1, LeastElement
<1>3. k \in 1 .. N + 1 /\ First(k)
  BY <1>1, <1>2
<1>4. Endpoint!FirstIn(s, set) = CHOOSE n \in 1 .. N + 1 : First(n)
  BY Zenon DEF Endpoint!FirstIn
<1> HIDE DEF First
<1>5. Endpoint!FirstIn(s, set) \in 1 .. N + 1 /\ First(Endpoint!FirstIn(s, set))
  BY <1>3, <1>4, Zenon
<1> QED
  BY <1>5, Zenon DEF First

\* A part of a sequence, and a part of what follows a place.
LEMMA PartOf ==
  ASSUME NEW C, NEW s \in Seq(C), NEW a \in 1 .. Len(s) + 1, NEW b \in a - 1 .. Len(s)
  PROVE  /\ SubSeq(s, a, b) \in Seq(C) /\ Len(SubSeq(s, a, b)) = b - a + 1
         /\ \A k \in 1 .. b - a + 1 : SubSeq(s, a, b)[k] = s[a + k - 1]
<1>1. Len(s) \in Nat /\ a \in Int /\ b \in Int
  OBVIOUS
<1>2. ASSUME NEW k \in a .. b
      PROVE  s[k] \in C
  <2>1. k \in 1 .. Len(s)
    BY <1>1
  <2> QED
    BY <2>1, ElementOfSeq, Zenon
<1>3. /\ SubSeq(s, a, b) \in Seq(C)
      /\ Len(SubSeq(s, a, b)) = IF a <= b THEN b - a + 1 ELSE 0
      /\ \A k \in 1 .. b - a + 1 : SubSeq(s, a, b)[k] = s[a + k - 1]
  <2>1. a \in Int /\ b \in Int /\ \A k \in a .. b : s[k] \in C
    BY <1>1, <1>2
  <2> QED
    BY <2>1, SubSeqProperties
<1>4. Len(SubSeq(s, a, b)) = b - a + 1
  <2>1. CASE a <= b
    BY <1>3, <2>1
  <2>2. CASE ~ (a <= b)
    <3>1. b - a + 1 = 0
      BY <1>1, <2>2
    <3> QED
      BY <1>3, <2>2, <3>1
  <2> QED
    BY <2>1, <2>2
<1> QED
  BY <1>3, <1>4

LEMMA PartOfRest ==
  ASSUME NEW C, NEW s \in Seq(C), NEW a \in 1 .. Len(s) + 1,
         NEW m \in 1 .. Len(s) - a + 2, NEW n \in m - 1 .. Len(s) - a + 1
  PROVE  SubSeq(SubSeq(s, a, Len(s)), m, n) = SubSeq(s, a + m - 1, a + n - 1)
<1> DEFINE rest == SubSeq(s, a, Len(s))
           part == SubSeq(rest, m, n)
           same == SubSeq(s, a + m - 1, a + n - 1)
           N == Len(s)
<1>1. N \in Nat
  OBVIOUS
<1>2. Len(s) \in a - 1 .. Len(s)
  BY <1>1
<1>3. /\ rest \in Seq(C) /\ Len(rest) = N - a + 1
      /\ \A k \in 1 .. N - a + 1 : rest[k] = s[a + k - 1]
  BY <1>2, PartOf, Zenon
<1>4. m \in 1 .. Len(rest) + 1 /\ n \in m - 1 .. Len(rest)
  BY <1>1, <1>3
<1>5. /\ part \in Seq(C) /\ Len(part) = n - m + 1
      /\ \A k \in 1 .. n - m + 1 : part[k] = rest[m + k - 1]
  <2> HIDE DEF rest
  <2> QED
    BY <1>3, <1>4, PartOf, Zenon
<1>6. a + m - 1 \in 1 .. N + 1 /\ a + n - 1 \in (a + m - 1) - 1 .. N
  BY <1>1
<1>7. (a + n - 1) - (a + m - 1) + 1 = n - m + 1
  BY <1>1
<1>8. /\ same \in Seq(C) /\ Len(same) = n - m + 1
      /\ \A k \in 1 .. n - m + 1 : same[k] = s[(a + m - 1) + k - 1]
  <2>1. /\ same \in Seq(C) /\ Len(same) = (a + n - 1) - (a + m - 1) + 1
        /\ \A k \in 1 .. (a + n - 1) - (a + m - 1) + 1 : same[k] = s[(a + m - 1) + k - 1]
    BY <1>6, PartOf, Zenon
  <2> QED
    BY <1>7, <2>1, Zenon
<1>9. ASSUME NEW k \in 1 .. n - m + 1
      PROVE  part[k] = same[k]
  <2>1. /\ m + k - 1 \in 1 .. N - a + 1
        /\ a + (m + k - 1) - 1 = (a + m - 1) + k - 1
    BY <1>1
  <2> HIDE DEF part, same, rest
  <2> QED
    BY <1>3, <1>5, <1>8, <2>1, Zenon
<1>10. part = same
  <2> HIDE DEF part, same
  <2> QED
    BY <1>5, <1>8, <1>9, SeqEqual, Zenon
<1> QED
  BY <1>10

\* The domain is what comes before the first slash or colon.
LEMMA DomainFacts ==
  ASSUME address \in Endpoint!Address
  PROVE  LET s == Endpoint!Rest
             d == Len(Endpoint!Domain)
         IN  /\ s \in Seq(Char) /\ d \in 0 .. Len(s)
             /\ Endpoint!Domain = SubSeq(s, 1, d) /\ Endpoint!Domain \in Seq(Char)
             /\ \A k \in 1 .. d : s[k] \notin {"/", ":"}
             /\ d < Len(s) => s[d + 1] \in {"/", ":"}
             /\ Endpoint!AfterDomain = SubSeq(s, d + 1, Len(s))
             /\ Endpoint!HasColon <=> d < Len(s) /\ s[d + 1] = ":"
<1> DEFINE s == Endpoint!Rest
           N == Len(s)
           k == Endpoint!FirstIn(s, {"/", ":"})
           d == Len(Endpoint!Domain)
           after == Endpoint!AfterDomain
<1>1. s \in Seq(Char)
  BY RestFacts
<1>2. N \in Nat
  BY <1>1
<1>3. /\ k \in 1 .. N + 1 /\ (k = N + 1 \/ s[k] \in {"/", ":"})
      /\ \A m \in 1 .. k - 1 : s[m] \notin {"/", ":"}
  <2> HIDE DEF s
  <2> QED
    BY <1>1, FirstInFacts, Zenon
<1>4. Endpoint!Domain = SubSeq(s, 1, k - 1)
  BY DEF Endpoint!Domain
<1> HIDE DEF s, k
<1>5. Endpoint!Domain \in Seq(Char) /\ d = k - 1
  <2>1. 1 \in 1 .. N + 1 /\ k - 1 \in 1 - 1 .. N
    BY <1>2, <1>3
  <2>2. /\ SubSeq(s, 1, k - 1) \in Seq(Char)
        /\ Len(SubSeq(s, 1, k - 1)) = (k - 1) - 1 + 1
    BY <1>1, <2>1, PartOf, Zenon
  <2> QED
    BY <1>3, <1>4, <2>2
<1>6. after = SubSeq(s, d + 1, N)
  BY DEF Endpoint!AfterDomain, s
<1>7. /\ after \in Seq(Char) /\ Len(after) = N - (d + 1) + 1
      /\ \A m \in 1 .. N - (d + 1) + 1 : after[m] = s[(d + 1) + m - 1]
  <2>1. d + 1 \in 1 .. N + 1 /\ N \in (d + 1) - 1 .. N
    BY <1>2, <1>3, <1>5
  <2> QED
    BY <1>1, <1>6, <2>1, PartOf, Zenon
<1>8. Endpoint!HasColon <=> d < N /\ s[d + 1] = ":"
  <2>1. after # <<>> <=> d < N
    <3> HIDE DEF after, d
    <3>1. after # <<>> <=> Len(after) # 0
      BY <1>7
    <3> QED
      BY <1>2, <1>3, <1>5, <1>7, <3>1
  <2>2. d < N => after[1] = s[d + 1]
    <3> HIDE DEF after
    <3>1. d \in Int
      BY <1>3, <1>5
    <3> HIDE DEF d
    <3>2. d < N => 1 \in 1 .. N - (d + 1) + 1 /\ (d + 1) + 1 - 1 = d + 1
      BY <1>2, <3>1
    <3> QED
      BY <1>7, <3>2, Zenon
  <2> QED
    BY <2>1, <2>2, Zenon DEF Endpoint!HasColon
<1>9. d \in 0 .. N /\ d + 1 = k
  BY <1>2, <1>3, <1>5
<1>10. \A m \in 1 .. d : s[m] \notin {"/", ":"}
  BY <1>3, <1>5, Zenon
<1>11. d < N => s[d + 1] \in {"/", ":"}
  BY <1>2, <1>3, <1>9
<1>12. Endpoint!Domain = SubSeq(s, 1, d)
  BY <1>4, <1>5, Zenon
<1> QED
  BY <1>1, <1>5, <1>6, <1>8, <1>9, <1>10, <1>11, <1>12, Zenon DEF s

\* After a colon come the digits of the number, and then the path.
LEMMA NumberFacts ==
  ASSUME address \in Endpoint!Address, Endpoint!HasColon
  PROVE  LET s == Endpoint!Rest
             d == Len(Endpoint!Domain)
             l == Len(Endpoint!Number)
         IN  /\ Endpoint!Number \in Seq(DOMAIN Value) /\ l \in 0 .. Len(s) - d - 1
             /\ \A k \in 1 .. l : Endpoint!Number[k] = s[d + 1 + k]
             /\ d + 1 + l < Len(s) => s[d + 1 + l + 1] \notin DOMAIN Value
             /\ Endpoint!Path = SubSeq(s, d + l + 2, Len(s))
<1> DEFINE s == Endpoint!Rest
           N == Len(s)
           d == Len(Endpoint!Domain)
           after == Endpoint!AfterDomain
           q == Endpoint!FirstIn(Tail(after), Char \ Endpoint!Digit)
           number == Endpoint!Number
<1>1. s \in Seq(Char) /\ d \in 0 .. N /\ d < N /\ after = SubSeq(s, d + 1, N)
  BY DomainFacts
<1>2. number = SubSeq(after, 2, q)
  BY DEF Endpoint!Number
<1>3. Endpoint!Path = SubSeq(after, Len(number) + 2, Len(after))
  BY DEF Endpoint!Path
<1> HIDE DEF s, d, after, q, number
<1>4. N \in Nat /\ d \in Nat
  BY <1>1
<1>5. /\ after \in Seq(Char) /\ Len(after) = N - d
      /\ \A k \in 1 .. N - d : after[k] = s[d + k]
  <2>1. d + 1 \in 1 .. N + 1 /\ N \in (d + 1) - 1 .. N
    BY <1>1, <1>4
  <2>2. /\ after \in Seq(Char) /\ Len(after) = N - (d + 1) + 1
        /\ \A k \in 1 .. N - (d + 1) + 1 : after[k] = s[(d + 1) + k - 1]
    BY <1>1, <2>1, PartOf, Zenon
  <2>3. N - (d + 1) + 1 = N - d /\ \A k \in 1 .. N - d : (d + 1) + k - 1 = d + k
    BY <1>4
  <2> QED
    BY <2>2, <2>3, Zenon
<1>6. /\ Tail(after) \in Seq(Char) /\ Len(Tail(after)) = N - d - 1
      /\ \A k \in 1 .. N - d - 1 : Tail(after)[k] = after[k + 1]
  <2>1. after # <<>>
    <3>1. after # <<>> <=> Len(after) # 0
      BY <1>5
    <3> QED
      BY <1>1, <1>4, <1>5, <3>1
  <2>2. /\ Tail(after) \in Seq(Char) /\ Len(Tail(after)) = Len(after) - 1
        /\ \A k \in 1 .. Len(Tail(after)) : Tail(after)[k] = after[k + 1]
    BY <1>5, <2>1, HeadTailProperties, Zenon
  <2> QED
    BY <1>5, <2>2, Zenon
<1>7. /\ q \in 1 .. N - d
      /\ q = N - d \/ Tail(after)[q] \in Char \ DOMAIN Value
      /\ \A k \in 1 .. q - 1 : Tail(after)[k] \notin Char \ DOMAIN Value
  <2>1. /\ q \in 1 .. Len(Tail(after)) + 1
        /\ q = Len(Tail(after)) + 1 \/ Tail(after)[q] \in Char \ Endpoint!Digit
        /\ \A k \in 1 .. q - 1 : Tail(after)[k] \notin Char \ Endpoint!Digit
    BY <1>6, FirstInFacts, Zenon DEF q
  <2>2. (N - d - 1) + 1 = N - d
    BY <1>4
  <2> QED
    BY <1>6, <2>1, <2>2, Zenon DEF Endpoint!Digit
<1>8. /\ number \in Seq(Char) /\ Len(number) = q - 1
      /\ \A k \in 1 .. q - 1 : number[k] = after[k + 1]
  <2>1. 2 \in 1 .. Len(after) + 1 /\ q \in 2 - 1 .. Len(after)
    BY <1>1, <1>4, <1>5, <1>7
  <2>2. /\ number \in Seq(Char) /\ Len(number) = q - 2 + 1
        /\ \A k \in 1 .. q - 2 + 1 : number[k] = after[2 + k - 1]
    <3>1. PICK two \in 1 .. Len(after) + 1 : two = 2
      BY <2>1
    <3>2. q \in two - 1 .. Len(after)
      BY <2>1, <3>1
    <3>3. /\ SubSeq(after, two, q) \in Seq(Char) /\ Len(SubSeq(after, two, q)) = q - two + 1
          /\ \A k \in 1 .. q - two + 1 : SubSeq(after, two, q)[k] = after[two + k - 1]
      BY <1>5, <3>2, PartOf, Zenon
    <3> QED
      BY <1>2, <3>1, <3>3, Zenon
  <2>3. q - 2 + 1 = q - 1 /\ \A k \in 1 .. q - 1 : 2 + k - 1 = k + 1
    BY <1>7
  <2> QED
    BY <2>2, <2>3, Zenon
<1>9. ASSUME NEW k \in 1 .. q - 1
      PROVE  number[k] = s[d + 1 + k] /\ number[k] \in DOMAIN Value
  <2>1. /\ k + 1 \in 1 .. N - d /\ k \in 1 .. N - d - 1 /\ d + (k + 1) = d + 1 + k
    BY <1>4, <1>7
  <2>2. number[k] = after[k + 1] /\ after[k + 1] = s[d + 1 + k]
    BY <1>5, <1>8, <2>1, Zenon
  <2>3. number[k] = Tail(after)[k]
    BY <1>6, <2>1, <2>2, Zenon
  <2>4. number[k] \in Char
    BY <1>8, ElementOfSeq, Zenon
  <2> QED
    BY <1>7, <2>2, <2>3, <2>4, Zenon
<1>10. number \in Seq(DOMAIN Value)
  <2>1. number = [k \in 1 .. Len(number) |-> number[k]] /\ Len(number) \in Nat
    BY <1>8
  <2>2. number \in [1 .. Len(number) -> DOMAIN Value]
    BY <1>8, <1>9, <2>1, Zenon
  <2> QED
    BY <2>1, <2>2, SeqDef
<1>11. Len(number) \in 0 .. N - d - 1
  BY <1>4, <1>7, <1>8
<1>12. ASSUME d + 1 + Len(number) < N
       PROVE  s[d + 1 + Len(number) + 1] \notin DOMAIN Value
  <2>1. q \in 1 .. N - d - 1 /\ q + 1 \in 1 .. N - d /\ q # N - d
    BY <1>4, <1>7, <1>8, <1>12
  <2>2. Tail(after)[q] = after[q + 1] /\ after[q + 1] = s[d + (q + 1)]
    BY <1>5, <1>6, <2>1, Zenon
  <2>3. d + (q + 1) = d + 1 + Len(number) + 1
    BY <1>4, <1>7, <1>8
  <2>4. Tail(after)[q] \notin DOMAIN Value
    BY <1>7, <2>1
  <2> QED
    BY <2>2, <2>3, <2>4, Zenon
<1>13. Endpoint!Path = SubSeq(s, d + Len(number) + 2, N)
  <2> DEFINE m == Len(number) + 2
             n == Len(after)
  <2>1. d + 1 \in 1 .. N + 1 /\ m \in 1 .. N - (d + 1) + 2 /\ n \in m - 1 .. N - (d + 1) + 1
    BY <1>4, <1>5, <1>7, <1>8
  <2>2. (d + 1) + m - 1 = d + Len(number) + 2 /\ (d + 1) + n - 1 = N
    BY <1>4, <1>5, <1>7, <1>8
  <2>3. SubSeq(after, m, n) = SubSeq(s, (d + 1) + m - 1, (d + 1) + n - 1)
    <3> HIDE DEF m, n
    <3> QED
      BY <1>1, <2>1, PartOfRest, Zenon
  <2> QED
    BY <1>3, <2>2, <2>3, Zenon
<1> QED
  BY <1>9, <1>8, <1>10, <1>11, <1>12, <1>13, Zenon DEF s, d, number

\* The place of the path, and the port, that the address says.
PathStart == IF Endpoint!HasColon
             THEN Len(Endpoint!Domain) + 1 + Len(Endpoint!Number)
             ELSE Len(Endpoint!Domain)

PortSaid == IF Endpoint!HasColon
            THEN Endpoint!Numbers(Endpoint!Number)[Len(Endpoint!Number)] % PortSpan
            ELSE Endpoint!Default(address.prefix)

\* The parts before the place that is read are those of the address: the
\* domain while no slash and no colon was met, then the number of the digits
\* that were, then the path from the place it begins.
EndpointRead ==
  /\ phase = "prefix" => i = 0 /\ j = 0
  /\ phase \notin {"prefix", "null", "fault"} =>
       proto = address.prefix /\ proto \in Endpoint!Protocol
  /\ phase = "domain" =>
       /\ i <= Len(Endpoint!Domain)
       /\ port = Endpoint!Default(address.prefix)
  /\ phase \in {"port", "path", "done"} => domain = Endpoint!Domain
  /\ phase = "port" =>
       /\ Endpoint!HasColon
       /\ i - Len(Endpoint!Domain) - 1 \in 0 .. Len(Endpoint!Number)
       /\ port = Endpoint!Numbers(Endpoint!Number)[i - Len(Endpoint!Domain) - 1] % PortSpan
  /\ phase \in {"path", "done"} => port = PortSaid
  /\ phase = "path" => i = PathStart /\ i < j
  /\ phase = "done" =>
       url_path = IF Endpoint!Path = <<>> THEN <<"/">> ELSE Endpoint!Path

EndpointInv == Endpoint!TypeOK /\ EndpointRead

\* Where the path begins, and what is there.
LEMMA PathFacts ==
  ASSUME address \in Endpoint!Address
  PROVE  LET s == Endpoint!Rest
         IN  /\ PathStart \in 0 .. Len(s) /\ Len(Endpoint!Domain) \in 0 .. PathStart
             /\ Endpoint!Path = SubSeq(s, PathStart + 1, Len(s))
             /\ Endpoint!Path \in Seq(Char)
             /\ Endpoint!Path = <<>> <=> PathStart = Len(s)
             /\ PathStart < Len(s) => Endpoint!Path[1] = s[PathStart + 1]
<1> DEFINE s == Endpoint!Rest
           N == Len(s)
           d == Len(Endpoint!Domain)
           p == PathStart
           path == Endpoint!Path
<1>1. s \in Seq(Char) /\ d \in 0 .. N /\ Endpoint!AfterDomain = SubSeq(s, d + 1, N)
  BY DomainFacts
<1>2. N \in Nat
  BY <1>1
<1>3. p \in 0 .. N /\ d \in 0 .. p /\ path = SubSeq(s, p + 1, N)
  <2>1. CASE Endpoint!HasColon
    <3> DEFINE l == Len(Endpoint!Number)
    <3>1. l \in 0 .. N - d - 1 /\ path = SubSeq(s, d + l + 2, N)
      BY <2>1, NumberFacts
    <3>2. d < N
      BY <2>1, DomainFacts
    <3>3. p = d + 1 + l
      BY <2>1 DEF PathStart
    <3> HIDE DEF s, d, l, p, path
    <3>4. p \in 0 .. N /\ d \in 0 .. p /\ d + l + 2 = p + 1
      BY <1>1, <1>2, <3>1, <3>2, <3>3
    <3> QED
      BY <3>1, <3>4
  <2>2. CASE ~ Endpoint!HasColon
    <3>1. p = d /\ path = Endpoint!AfterDomain
      BY <2>2 DEF PathStart, Endpoint!Path
    <3> HIDE DEF s, d, p, path
    <3> QED
      BY <1>1, <1>2, <3>1
  <2> QED
    BY <2>1, <2>2
<1> HIDE DEF s, d, p, path
<1>4. /\ path \in Seq(Char) /\ Len(path) = N - (p + 1) + 1
      /\ \A k \in 1 .. N - (p + 1) + 1 : path[k] = s[(p + 1) + k - 1]
  <2>1. p + 1 \in 1 .. N + 1 /\ N \in (p + 1) - 1 .. N
    BY <1>2, <1>3
  <2> QED
    BY <1>1, <1>3, <2>1, PartOf, Zenon
<1>5. path = <<>> <=> p = N
  <2>1. path = <<>> <=> Len(path) = 0
    BY <1>4
  <2> QED
    BY <1>2, <1>3, <1>4, <2>1
<1>6. p < N => path[1] = s[p + 1]
  <2>1. p < N => 1 \in 1 .. N - (p + 1) + 1 /\ (p + 1) + 1 - 1 = p + 1
    BY <1>2, <1>3
  <2> QED
    BY <1>4, <2>1, Zenon
<1> QED
  BY <1>3, <1>4, <1>5, <1>6, Zenon DEF s, d, p, path

\* The characters of an address; at its end, and only there, is none.
LEMMA AtFacts ==
  ASSUME address \in Endpoint!Address, NEW k \in 0 .. Len(Endpoint!Rest)
  PROVE  /\ Endpoint!At(k) = IF k < Len(Endpoint!Rest) THEN Endpoint!Rest[k + 1] ELSE ""
         /\ Endpoint!At(k) = "" <=> k = Len(Endpoint!Rest)
<1> DEFINE s == Endpoint!Rest
           N == Len(s)
<1>1. s \in Seq(Char) /\ k \in 0 .. N
  BY RestFacts
<1>2. Endpoint!At(k) = IF k < N THEN s[k + 1] ELSE ""
  BY DEF Endpoint!At
<1> HIDE DEF s
<1>3. N \in Nat
  BY <1>1
<1>4. k < N => s[k + 1] # ""
  <2>1. k < N => k + 1 \in 1 .. N
    BY <1>3
  <2>2. k < N => s[k + 1] \in Char
    BY <1>1, <2>1, ElementOfSeq, Zenon
  <2>3. "" \notin Char
    BY EndpointAssumption, Zenon
  <2> QED
    BY <2>2, <2>3, Zenon
<1>5. k < N <=> k # N
  BY <1>1, <1>3
<1>6. Endpoint!At(k) = "" <=> k = N
  BY <1>2, <1>4, <1>5, Zenon
<1> QED
  BY <1>2, <1>6, Zenon DEF s

\* What the address says stays while it is read.
LEMMA EndpointFrame ==
  ASSUME address' = address
  PROVE  /\ Endpoint!Rest' = Endpoint!Rest /\ Endpoint!Domain' = Endpoint!Domain
         /\ Endpoint!HasColon' = Endpoint!HasColon /\ Endpoint!Number' = Endpoint!Number
         /\ Endpoint!Path' = Endpoint!Path
         /\ PathStart' = PathStart /\ PortSaid' = PortSaid
<1>1. Endpoint!Rest' = Endpoint!Rest
  BY DEF Endpoint!Rest
<1>2. Endpoint!Domain' = Endpoint!Domain
  BY <1>1 DEF Endpoint!Domain
<1>3. Endpoint!AfterDomain' = Endpoint!AfterDomain
  BY <1>1, <1>2 DEF Endpoint!AfterDomain
<1>4. Endpoint!HasColon' = Endpoint!HasColon
  BY <1>3 DEF Endpoint!HasColon
<1>5. Endpoint!Number' = Endpoint!Number
  BY <1>3, <1>4 DEF Endpoint!Number
<1>6. Endpoint!Path' = Endpoint!Path
  BY <1>3, <1>4, <1>5 DEF Endpoint!Path
<1>7. PathStart' = PathStart
  BY <1>2, <1>4, <1>5 DEF PathStart
<1>8. PortSaid' = PortSaid
  BY <1>4, <1>5 DEF PortSaid
<1> QED
  BY <1>1, <1>2, <1>4, <1>5, <1>6, <1>7, <1>8

\* Both default ports fit, the slash is a character, and a digit is neither
\* slash nor colon nor the end.
LEMMA CharFacts ==
  /\ 0 \in 0 .. PortSpan - 1
  /\ \A p : Endpoint!Default(p) \in 0 .. PortSpan - 1
  /\ <<"/">> \in Seq(Char) /\ <<>> \in Seq(Char)
  /\ Endpoint!Digit = DOMAIN Value /\ "" \notin Endpoint!Digit
  /\ "/" \notin Endpoint!Digit
  /\ <<"/">> # <<>> /\ <<"/">>[1] = "/"
<1>1. PortSpan \in Nat /\ PortSpan > 443
  BY DigitFacts
<1>2. 0 \in 0 .. PortSpan - 1 /\ \A p : Endpoint!Default(p) \in 0 .. PortSpan - 1
  BY <1>1 DEF Endpoint!Default
<1>3. "/" \in Char /\ "" \notin Char /\ DOMAIN Value \subseteq Char \ {"/", ":"}
  BY EndpointAssumption, Zenon
<1>4. <<"/">> \in Seq(Char) /\ <<>> \in Seq(Char)
  <2>1. "/" \in Char
    BY <1>3, Zenon
  <2> QED
    BY <2>1
<1>5. Endpoint!Digit = DOMAIN Value
  BY DEF Endpoint!Digit
<1>6. "" \notin Endpoint!Digit /\ "/" \notin Endpoint!Digit
  BY <1>3, <1>5, Zenon
<1>7. <<"/">> # <<>> /\ <<"/">>[1] = "/"
  OBVIOUS
<1> QED
  BY <1>2, <1>4, <1>5, <1>6, <1>7

LEMMA EndpointStarts == Endpoint!Init => EndpointInv
<1> SUFFICES ASSUME Endpoint!Init
             PROVE  EndpointInv
  OBVIOUS
<1>1. /\ address \in Endpoint!Address /\ phase = "prefix" /\ proto = "none"
      /\ i = 0 /\ j = 0 /\ port = 0 /\ domain = <<>> /\ url_path = <<>>
  BY DEF Endpoint!Init
<1>2. 0 \in 0 .. Len(Endpoint!Rest)
  BY <1>1, RestFacts
<1>3. Endpoint!TypeOK
  BY <1>1, <1>2, CharFacts DEF Endpoint!TypeOK
<1>4. EndpointRead
  BY <1>1 DEF EndpointRead
<1> QED
  BY <1>3, <1>4 DEF EndpointInv

LEMMA EndpointPrefix ==
  ASSUME EndpointInv,
         Endpoint!PrefixFound \/ Endpoint!PrefixMissing \/ Endpoint!PrefixOverread
  PROVE  EndpointInv'
<1>1. /\ address \in Endpoint!Address /\ i = 0 /\ j = 0
      /\ domain \in Seq(Char) /\ url_path \in Seq(Char) /\ port \in 0 .. PortSpan - 1
      /\ proto \in Endpoint!Protocol \cup {"none"}
  BY DEF EndpointInv, Endpoint!TypeOK, EndpointRead, Endpoint!PrefixFound,
         Endpoint!PrefixMissing, Endpoint!PrefixOverread
<1>2. /\ address' = address /\ i' = 0 /\ j' = 0
      /\ domain' = domain /\ url_path' = url_path
  BY <1>1 DEF Endpoint!PrefixFound, Endpoint!PrefixMissing, Endpoint!PrefixOverread
<1>3. /\ Endpoint!Rest' = Endpoint!Rest /\ Endpoint!Domain' = Endpoint!Domain
      /\ 0 \in 0 .. Len(Endpoint!Rest) /\ Len(Endpoint!Domain) \in Nat
  <2>1. Len(Endpoint!Rest) \in Nat /\ Len(Endpoint!Domain) \in 0 .. Len(Endpoint!Rest)
    BY <1>1, DomainFacts
  <2> QED
    BY <1>2, <2>1, EndpointFrame
<1>4. CASE Endpoint!PrefixFound
  <2>1. /\ address.prefix \in Endpoint!Protocol /\ proto' = address.prefix
        /\ port' = Endpoint!Default(address.prefix) /\ phase' = "domain"
    BY <1>4 DEF Endpoint!PrefixFound
  <2>2. proto' \in Endpoint!Protocol \cup {"none"} /\ port' \in 0 .. PortSpan - 1
    BY <1>1, <2>1, RestFacts, CharFacts
  <2>3. Endpoint!TypeOK'
    BY <1>1, <1>2, <1>3, <2>1, <2>2 DEF Endpoint!TypeOK
  <2>4. EndpointRead'
    BY <1>2, <1>3, <2>1 DEF EndpointRead
  <2> QED
    BY <2>3, <2>4 DEF EndpointInv
<1>5. CASE Endpoint!PrefixMissing \/ Endpoint!PrefixOverread
  <2>1. proto' = proto /\ port' = port /\ phase' \in {"null", "fault"}
    BY <1>5 DEF Endpoint!PrefixMissing, Endpoint!PrefixOverread
  <2>2. Endpoint!TypeOK'
    BY <1>1, <1>2, <1>3, <2>1 DEF Endpoint!TypeOK
  <2>3. EndpointRead'
    BY <2>1 DEF EndpointRead
  <2> QED
    BY <2>2, <2>3 DEF EndpointInv
<1> QED
  BY <1>4, <1>5

\* The domain ends where its characters do.
LEMMA DomainPlace ==
  ASSUME EndpointInv, phase = "domain"
  PROVE  /\ Endpoint!At(i) \in {"/", ":", ""} <=> i = Len(Endpoint!Domain)
         /\ i \in 0 .. Len(Endpoint!Domain) /\ Len(Endpoint!Domain) \in 0 .. Len(Endpoint!Rest)
         /\ Len(Endpoint!Rest) \in Nat
<1> DEFINE s == Endpoint!Rest
           N == Len(s)
           d == Len(Endpoint!Domain)
<1>1. address \in Endpoint!Address /\ i \in 0 .. N /\ i <= d
  BY DEF EndpointInv, Endpoint!TypeOK, EndpointRead
<1>2. /\ s \in Seq(Char) /\ d \in 0 .. N
      /\ \A k \in 1 .. d : s[k] \notin {"/", ":"}
      /\ d < N => s[d + 1] \in {"/", ":"}
  BY <1>1, DomainFacts
<1>3. /\ Endpoint!At(i) = IF i < N THEN s[i + 1] ELSE ""
      /\ Endpoint!At(i) = "" <=> i = N
  BY <1>1, AtFacts
<1> HIDE DEF s, d
<1>4. N \in Nat
  BY <1>2
<1>5. i < d => i + 1 \in 1 .. d /\ i < N
  BY <1>1, <1>2, <1>4
<1>6. i < d => Endpoint!At(i) \notin {"/", ":", ""}
  <2>1. i < d => s[i + 1] \notin {"/", ":"} /\ Endpoint!At(i) = s[i + 1]
    BY <1>2, <1>3, <1>5, Zenon
  <2>2. i < d => i # N
    BY <1>1, <1>4, <1>5
  <2> QED
    BY <1>3, <2>1, <2>2, Zenon
<1>7. i = d => Endpoint!At(i) \in {"/", ":", ""}
  BY <1>1, <1>2, <1>3, <1>4
<1>8. i \in 0 .. d /\ (i < d \/ i = d)
  BY <1>1, <1>2, <1>4
<1> QED
  BY <1>2, <1>4, <1>6, <1>7, <1>8 DEF s, d

LEMMA EndpointDomain ==
  ASSUME EndpointInv, Endpoint!DomainGoesOn \/ Endpoint!DomainEnds
  PROVE  EndpointInv'
<1> DEFINE N == Len(Endpoint!Rest)
           d == Len(Endpoint!Domain)
<1>1. /\ address \in Endpoint!Address /\ j \in 0 .. N
      /\ domain \in Seq(Char) /\ url_path \in Seq(Char) /\ port \in 0 .. PortSpan - 1
      /\ proto \in Endpoint!Protocol \cup {"none"}
      /\ proto = address.prefix /\ proto \in Endpoint!Protocol
      /\ port = Endpoint!Default(address.prefix)
  BY DEF EndpointInv, Endpoint!TypeOK, EndpointRead, Endpoint!DomainGoesOn, Endpoint!DomainEnds
<1>2. address' = address /\ proto' = proto /\ phase = "domain"
  BY DEF Endpoint!DomainGoesOn, Endpoint!DomainEnds
<1>0. Endpoint!At(i) \in {"/", ":", ""} <=> i = d
  BY <1>2, DomainPlace, Zenon
<1>3. i \in 0 .. d /\ d \in 0 .. N /\ N \in Nat
  BY <1>2, DomainPlace, Zenon
<1>4. /\ Endpoint!Rest' = Endpoint!Rest /\ Endpoint!Domain' = Endpoint!Domain
      /\ Endpoint!HasColon' = Endpoint!HasColon /\ Endpoint!Number' = Endpoint!Number
      /\ Endpoint!Path' = Endpoint!Path
      /\ PathStart' = PathStart /\ PortSaid' = PortSaid
  BY <1>2, EndpointFrame
<1>5. CASE Endpoint!DomainGoesOn
  <2>1. /\ i' = i + 1 /\ phase' = "domain"
        /\ j' = j /\ domain' = domain /\ port' = port /\ url_path' = url_path
    BY <1>5, <1>2 DEF Endpoint!DomainGoesOn
  <2>2. i' \in 0 .. N /\ i' <= d
    <3>1. i # d /\ i' = i + 1
      BY <1>0, <1>5, <2>1, Zenon DEF Endpoint!DomainGoesOn
    <3> HIDE DEF N, d
    <3> QED
      BY <1>3, <3>1
  <2>3. Endpoint!TypeOK'
    BY <1>1, <1>2, <1>4, <2>1, <2>2 DEF Endpoint!TypeOK
  <2>4. EndpointRead'
    BY <1>1, <1>2, <1>4, <2>1, <2>2 DEF EndpointRead
  <2> QED
    BY <2>3, <2>4 DEF EndpointInv
<1>6. CASE Endpoint!DomainEnds
  <2>1. Endpoint!At(i) \in {"/", ":", ""} /\ domain' = Endpoint!Copy(0, i) /\ i = d
    BY <1>0, <1>6, Zenon DEF Endpoint!DomainEnds
  <2>2. /\ Endpoint!Rest \in Seq(Char)
        /\ Endpoint!Domain = SubSeq(Endpoint!Rest, 1, d) /\ Endpoint!Domain \in Seq(Char)
        /\ Endpoint!HasColon <=> d < N /\ Endpoint!Rest[d + 1] = ":"
    BY <1>1, DomainFacts
  <2>3. domain' = Endpoint!Domain /\ domain' \in Seq(Char)
    <3>1. 0 + 1 = 1
      OBVIOUS
    <3> QED
      BY <2>1, <2>2, <3>1, Zenon DEF Endpoint!Copy
  <2>4. /\ Endpoint!At(i) = IF d < N THEN Endpoint!Rest[d + 1] ELSE ""
        /\ Endpoint!At(i) = "" <=> d = N
    <3>1. i \in 0 .. N
      <4> HIDE DEF N, d
      <4> QED
        BY <1>3
    <3> QED
      BY <1>1, <2>1, <3>1, AtFacts, Zenon
  <2>5. CASE Endpoint!At(i) = ":"
    <3>1. i' = d + 1 /\ phase' = "port" /\ port' = 0 /\ j' = j /\ url_path' = url_path
      BY <1>6, <2>1, <2>5 DEF Endpoint!DomainEnds
    <3>2. Endpoint!HasColon /\ d < N
      BY <1>3, <2>2, <2>4, <2>5
    <3>3. Endpoint!Number \in Seq(DOMAIN Value)
      BY <1>1, <3>2, NumberFacts
    <3> DEFINE l == Len(Endpoint!Number)
               number == Endpoint!Numbers(Endpoint!Number)
    <3>4. number[0] = 0
      BY <3>3, NumbersOf, Zenon
    <3>5. i' \in 0 .. N /\ i' - d - 1 = 0 /\ 0 \in 0 .. l
      <4>1. l \in Nat /\ i' = d + 1 /\ d < N
        BY <3>1, <3>2, <3>3
      <4> HIDE DEF N, d, l
      <4> QED
        BY <1>3, <4>1
    <3>6. number[i' - d - 1] % PortSpan = 0
      BY <3>4, <3>5, DigitFacts
    <3>7. Endpoint!TypeOK'
      BY <1>1, <1>2, <1>4, <2>3, <3>1, <3>5, CharFacts DEF Endpoint!TypeOK
    <3>8. EndpointRead'
      <4>1. i' - Len(Endpoint!Domain') - 1 \in 0 .. Len(Endpoint!Number')
        BY <1>4, <3>5
      <4>2. port' = Endpoint!Numbers(Endpoint!Number')[i' - Len(Endpoint!Domain') - 1] % PortSpan
        BY <1>4, <3>1, <3>6
      <4> QED
        BY <1>1, <1>2, <1>4, <2>3, <3>1, <3>2, <4>1, <4>2 DEF EndpointRead
    <3> QED
      BY <3>7, <3>8 DEF EndpointInv
  <2>6. CASE Endpoint!At(i) # ":"
    <3>1. ~ Endpoint!HasColon
      BY <1>3, <2>2, <2>4, <2>6
    <3>2. PathStart = d /\ PortSaid = port
      BY <1>1, <3>1 DEF PathStart, PortSaid
    <3>3. CASE Endpoint!At(i) = "/"
      <4>1. phase' = "path" /\ j' = i + 1 /\ i' = i /\ port' = port /\ url_path' = url_path
        BY <1>6, <3>3 DEF Endpoint!DomainEnds
      <4>2. i' \in 0 .. N /\ j' \in 0 .. N /\ i' < j' /\ i' = d
        <5>1. i = d /\ d # N /\ i' = i /\ j' = i + 1
          BY <2>1, <2>4, <3>3, <4>1, Zenon
        <5> HIDE DEF N, d
        <5> QED
          BY <1>3, <5>1
      <4>3. Endpoint!TypeOK'
        BY <1>1, <1>2, <1>4, <2>3, <4>1, <4>2 DEF Endpoint!TypeOK
      <4>4. EndpointRead'
        BY <1>1, <1>2, <1>4, <2>3, <3>2, <4>1, <4>2 DEF EndpointRead
      <4> QED
        BY <4>3, <4>4 DEF EndpointInv
    <3>4. CASE Endpoint!At(i) = ""
      <4>1. phase' = "done" /\ url_path' = <<"/">> /\ i' = i /\ j' = j /\ port' = port
        BY <1>6, <3>4 DEF Endpoint!DomainEnds
      <4>2. Endpoint!Path = <<>>
        BY <1>1, <2>4, <3>2, <3>4, PathFacts
      <4>3. i' \in 0 .. N
        <5> HIDE DEF N, d
        <5> QED
          BY <1>3, <4>1
      <4>4. Endpoint!TypeOK'
        BY <1>1, <1>2, <1>4, <2>3, <4>1, <4>3, CharFacts DEF Endpoint!TypeOK
      <4>5. EndpointRead'
        BY <1>1, <1>2, <1>4, <2>3, <3>2, <4>1, <4>2 DEF EndpointRead
      <4> QED
        BY <4>4, <4>5 DEF EndpointInv
    <3> QED
      BY <2>1, <2>6, <3>3, <3>4
  <2> QED
    BY <2>5, <2>6
<1> QED
  BY <1>5, <1>6

\* The digits of the port end where those of the number do; the next of them
\* makes the number greater.
LEMMA PortPlace ==
  ASSUME EndpointInv, phase = "port"
  PROVE  LET d == Len(Endpoint!Domain)
             l == Len(Endpoint!Number)
             n == i - d - 1
             number == Endpoint!Numbers(Endpoint!Number)
         IN  /\ Endpoint!At(i) \notin Endpoint!Digit <=> n = l
             /\ n \in 0 .. l /\ PathStart = d + 1 + l
             /\ number[n] \in Nat
             /\ n < l => Value[Endpoint!At(i)] \in Nat
             /\ n < l => number[n + 1] = number[n] * 10 + Value[Endpoint!At(i)]
<1> DEFINE s == Endpoint!Rest
           N == Len(s)
           d == Len(Endpoint!Domain)
           digits == Endpoint!Number
           l == Len(digits)
           n == i - d - 1
           number == Endpoint!Numbers(digits)
<1>1. address \in Endpoint!Address /\ i \in 0 .. N /\ Endpoint!HasColon /\ n \in 0 .. l
  BY DEF EndpointInv, Endpoint!TypeOK, EndpointRead
<1>2. s \in Seq(Char) /\ d \in 0 .. N
  BY <1>1, DomainFacts
<1>3. /\ digits \in Seq(DOMAIN Value) /\ l \in 0 .. N - d - 1
      /\ \A k \in 1 .. l : digits[k] = s[d + 1 + k]
      /\ d + 1 + l < N => s[d + 1 + l + 1] \notin DOMAIN Value
  BY <1>1, NumberFacts
<1>4. /\ Endpoint!At(i) = IF i < N THEN s[i + 1] ELSE ""
      /\ Endpoint!At(i) = "" <=> i = N
  BY <1>1, AtFacts
<1>5. PathStart = d + 1 + l
  BY <1>1 DEF PathStart
<1>6. /\ number \in [0 .. l -> Nat]
      /\ \A k \in 1 .. l : number[k] = number[k - 1] * 10 + Value[digits[k]]
  BY <1>3, NumbersOf, Zenon
<1>7. Endpoint!Digit = DOMAIN Value /\ "" \notin Endpoint!Digit
  BY CharFacts
<1>8. N \in Nat /\ d \in Nat /\ i \in Nat /\ l \in Nat
  BY <1>1, <1>2, <1>3
<1> HIDE DEF s, d, digits, number
<1>9. n < l => n + 1 \in 1 .. l /\ i < N /\ d + 1 + (n + 1) = i + 1 /\ (n + 1) - 1 = n
  BY <1>1, <1>3, <1>8
<1>10. n < l => Endpoint!At(i) = digits[n + 1]
  BY <1>3, <1>4, <1>9, Zenon
<1>11. n < l => Endpoint!At(i) \in DOMAIN Value
  BY <1>3, <1>9, <1>10, ElementOfSeq, Zenon
<1>12. n < l => Value[Endpoint!At(i)] \in Nat
  BY <1>11, DigitFacts, Zenon
<1>13. n < l => number[n + 1] = number[n] * 10 + Value[Endpoint!At(i)]
  BY <1>6, <1>9, <1>10, Zenon
<1>14. number[n] \in Nat
  BY <1>1, <1>6, Zenon
<1>15. n = l => Endpoint!At(i) \notin Endpoint!Digit
  <2>1. n = l => i = d + 1 + l
    BY <1>8
  <2>2. CASE n = l /\ i < N
    BY <1>3, <1>4, <1>7, <2>1, <2>2
  <2>3. CASE n = l /\ ~ (i < N)
    BY <1>4, <1>7, <2>3
  <2> QED
    BY <2>2, <2>3
<1>16. n < l \/ n = l
  BY <1>1, <1>8
<1>17. n < l => ~ (n = l)
  BY <1>8
<1>18. Endpoint!At(i) \notin Endpoint!Digit <=> n = l
  BY <1>7, <1>11, <1>15, <1>16, <1>17, Zenon
<1> QED
  BY <1>1, <1>5, <1>12, <1>13, <1>14, <1>18, Zenon DEF d, digits, number

LEMMA EndpointPort ==
  ASSUME EndpointInv, Endpoint!PortGoesOn \/ Endpoint!PortEnds
  PROVE  EndpointInv'
<1> DEFINE N == Len(Endpoint!Rest)
           d == Len(Endpoint!Domain)
           l == Len(Endpoint!Number)
           n == i - d - 1
           number == Endpoint!Numbers(Endpoint!Number)
<1>1. /\ address \in Endpoint!Address /\ i \in 0 .. N /\ j \in 0 .. N
      /\ domain \in Seq(Char) /\ url_path \in Seq(Char) /\ port \in 0 .. PortSpan - 1
      /\ proto \in Endpoint!Protocol \cup {"none"}
      /\ proto = address.prefix /\ proto \in Endpoint!Protocol /\ domain = Endpoint!Domain
      /\ Endpoint!HasColon /\ port = number[n] % PortSpan
  BY DEF EndpointInv, Endpoint!TypeOK, EndpointRead, Endpoint!PortGoesOn, Endpoint!PortEnds
<1>2. address' = address /\ proto' = proto /\ domain' = domain /\ phase = "port"
  BY DEF Endpoint!PortGoesOn, Endpoint!PortEnds
<1>3. /\ Endpoint!At(i) \notin Endpoint!Digit <=> n = l
      /\ n \in 0 .. l /\ PathStart = d + 1 + l
      /\ number[n] \in Nat
      /\ n < l => Value[Endpoint!At(i)] \in Nat
      /\ n < l => number[n + 1] = number[n] * 10 + Value[Endpoint!At(i)]
  BY <1>2, PortPlace, Zenon
<1>4. /\ Endpoint!Rest' = Endpoint!Rest /\ Endpoint!Domain' = Endpoint!Domain
      /\ Endpoint!HasColon' = Endpoint!HasColon /\ Endpoint!Number' = Endpoint!Number
      /\ Endpoint!Path' = Endpoint!Path
      /\ PathStart' = PathStart /\ PortSaid' = PortSaid
  BY <1>2, EndpointFrame
<1>5. d \in 0 .. N /\ l \in 0 .. N - d - 1 /\ N \in Nat
  <2>1. d \in 0 .. N /\ N \in Nat
    BY <1>1, DomainFacts
  <2> QED
    BY <1>1, <2>1, NumberFacts
<1>6. CASE Endpoint!PortGoesOn
  <2>1. /\ Endpoint!At(i) \in Endpoint!Digit
        /\ port' = (port * 10 + Value[Endpoint!At(i)]) % PortSpan
        /\ i' = i + 1 /\ phase' = "port" /\ j' = j /\ url_path' = url_path
    BY <1>6, <1>2 DEF Endpoint!PortGoesOn
  <2>2. n < l
    BY <1>3, <1>5, <2>1
  <2>3. i' - d - 1 = n + 1 /\ n + 1 \in 0 .. l /\ i' \in 0 .. N
    <3>1. i \in 0 .. N /\ i' = i + 1 /\ i - d - 1 \in 0 .. l /\ i - d - 1 < l
      BY <1>1, <1>3, <2>1, <2>2, Zenon
    <3> HIDE DEF N, d, l
    <3> QED
      BY <1>5, <3>1
  <2>4. port' = number[n + 1] % PortSpan
    <3> DEFINE v == Value[Endpoint!At(i)]
               x == number[n]
    <3>1. x \in Nat /\ v \in Nat /\ PortSpan \in Nat \ {0}
      BY <1>3, <2>2, DigitFacts
    <3>2. port' = ((x % PortSpan) * 10 + v) % PortSpan /\ number[n + 1] = x * 10 + v
      BY <1>1, <1>3, <2>1, <2>2, Zenon
    <3> HIDE DEF v, x
    <3>3. ((x % PortSpan) * 10 + v) % PortSpan = (x * 10 + v) % PortSpan
      BY <3>1, WrappedDigit
    <3> QED
      BY <3>2, <3>3, Zenon
  <2>5. port' \in 0 .. PortSpan - 1
    <3> DEFINE x == number[n + 1]
    <3>1. x \in Nat
      BY <1>3, <2>2
    <3>2. PortSpan \in Nat \ {0}
      BY DigitFacts
    <3> HIDE DEF x
    <3>3. x % PortSpan \in 0 .. PortSpan - 1
      BY <3>1, <3>2
    <3> QED
      BY <2>4, <3>3 DEF x
  <2>6. Endpoint!TypeOK'
    BY <1>1, <1>2, <1>4, <2>1, <2>3, <2>5 DEF Endpoint!TypeOK
  <2>7. EndpointRead'
    <3>1. i' - Len(Endpoint!Domain') - 1 \in 0 .. Len(Endpoint!Number')
      BY <1>4, <2>3
    <3>2. port' = Endpoint!Numbers(Endpoint!Number')[i' - Len(Endpoint!Domain') - 1] % PortSpan
      BY <1>4, <2>3, <2>4
    <3> QED
      BY <1>1, <1>2, <1>4, <2>1, <3>1, <3>2 DEF EndpointRead
  <2> QED
    BY <2>6, <2>7 DEF EndpointInv
<1>7. CASE Endpoint!PortEnds
  <2>1. i' = i /\ port' = port /\ n = l
    BY <1>3, <1>7 DEF Endpoint!PortEnds
  <2>2. i = PathStart /\ PortSaid = port
    <3>1. PortSaid = number[l] % PortSpan
      BY <1>1 DEF PortSaid
    <3> QED
      BY <1>1, <1>3, <1>5, <2>1, <3>1
  <2>3. Endpoint!At(i) = "" <=> i = N
    BY <1>1, AtFacts
  <2>4. CASE Endpoint!At(i) = ""
    <3>1. phase' = "done" /\ url_path' = <<"/">> /\ j' = j
      BY <1>7, <2>4 DEF Endpoint!PortEnds
    <3>2. Endpoint!Path = <<>>
      BY <1>1, <2>2, <2>3, <2>4, PathFacts
    <3>3. Endpoint!TypeOK'
      BY <1>1, <1>2, <1>4, <2>1, <3>1, CharFacts DEF Endpoint!TypeOK
    <3>4. EndpointRead'
      BY <1>1, <1>2, <1>4, <2>1, <2>2, <3>1, <3>2 DEF EndpointRead
    <3> QED
      BY <3>3, <3>4 DEF EndpointInv
  <2>5. CASE Endpoint!At(i) # ""
    <3>1. phase' = "path" /\ j' = i + 1 /\ url_path' = url_path
      BY <1>7, <2>5 DEF Endpoint!PortEnds
    <3>2. j' \in 0 .. N /\ i' < j'
      <4>1. i \in 0 .. N /\ i # N /\ i' = i /\ j' = i + 1
        BY <1>1, <2>1, <2>3, <2>5, <3>1, Zenon
      <4> HIDE DEF N
      <4> QED
        BY <1>5, <4>1
    <3>3. Endpoint!TypeOK'
      BY <1>1, <1>2, <1>4, <2>1, <3>1, <3>2 DEF Endpoint!TypeOK
    <3>4. EndpointRead'
      BY <1>1, <1>2, <1>4, <2>1, <2>2, <3>1, <3>2 DEF EndpointRead
    <3> QED
      BY <3>3, <3>4 DEF EndpointInv
  <2> QED
    BY <2>4, <2>5
<1> QED
  BY <1>6, <1>7

LEMMA EndpointPath ==
  ASSUME EndpointInv, Endpoint!PathGoesOn \/ Endpoint!PathEnds
  PROVE  EndpointInv'
<1> DEFINE N == Len(Endpoint!Rest)
<1>1. /\ address \in Endpoint!Address /\ i \in 0 .. N /\ j \in 0 .. N
      /\ domain \in Seq(Char) /\ url_path \in Seq(Char) /\ port \in 0 .. PortSpan - 1
      /\ proto \in Endpoint!Protocol \cup {"none"}
      /\ proto = address.prefix /\ proto \in Endpoint!Protocol /\ domain = Endpoint!Domain
      /\ port = PortSaid /\ i = PathStart /\ i < j
  BY DEF EndpointInv, Endpoint!TypeOK, EndpointRead, Endpoint!PathGoesOn, Endpoint!PathEnds
<1>2. /\ address' = address /\ proto' = proto /\ domain' = domain /\ port' = port /\ i' = i
  BY DEF Endpoint!PathGoesOn, Endpoint!PathEnds
<1>3. /\ Endpoint!Rest' = Endpoint!Rest /\ Endpoint!Domain' = Endpoint!Domain
      /\ Endpoint!Path' = Endpoint!Path
      /\ PathStart' = PathStart /\ PortSaid' = PortSaid
  BY <1>2, EndpointFrame
<1>4. Endpoint!At(j) = "" <=> j = N
  BY <1>1, AtFacts
<1>5. N \in Nat
  BY <1>1, RestFacts
<1>6. CASE Endpoint!PathGoesOn
  <2>1. j' = j + 1 /\ phase' = "path" /\ url_path' = url_path /\ j # N
    BY <1>4, <1>6 DEF Endpoint!PathGoesOn
  <2>2. j' \in 0 .. N /\ i' < j'
    <3>1. /\ i \in 0 .. N /\ j \in 0 .. N /\ i < j
          /\ i' = i /\ j' = j + 1 /\ j # N
      BY <1>1, <1>2, <2>1, Zenon
    <3> HIDE DEF N
    <3> QED
      BY <1>5, <3>1
  <2>3. Endpoint!TypeOK'
    BY <1>1, <1>2, <1>3, <2>1, <2>2 DEF Endpoint!TypeOK
  <2>4. EndpointRead'
    BY <1>1, <1>2, <1>3, <2>1, <2>2 DEF EndpointRead
  <2> QED
    BY <2>3, <2>4 DEF EndpointInv
<1>7. CASE Endpoint!PathEnds
  <2>1. phase' = "done" /\ url_path' = Endpoint!Copy(i, j) /\ j' = j /\ j = N
    BY <1>4, <1>7 DEF Endpoint!PathEnds
  <2>2. url_path' = Endpoint!Path
    BY <1>1, <2>1, PathFacts DEF Endpoint!Copy
  <2>3. Endpoint!Path \in Seq(Char) /\ Endpoint!Path # <<>>
    BY <1>1, <1>5, <2>1, PathFacts
  <2>4. Endpoint!TypeOK'
    BY <1>1, <1>2, <1>3, <2>1, <2>2, <2>3 DEF Endpoint!TypeOK
  <2>5. EndpointRead'
    BY <1>1, <1>2, <1>3, <2>1, <2>2, <2>3 DEF EndpointRead
  <2> QED
    BY <2>4, <2>5 DEF EndpointInv
<1> QED
  BY <1>6, <1>7

LEMMA EndpointSteps ==
  ASSUME EndpointInv, Endpoint!Next \/ UNCHANGED Endpoint!vars
  PROVE  EndpointInv'
<1>1. CASE UNCHANGED Endpoint!vars
  <2>1. UNCHANGED <<address, phase, proto, i, j, domain, port, url_path>>
    BY <1>1 DEF Endpoint!vars
  <2>2. /\ Endpoint!Rest' = Endpoint!Rest /\ Endpoint!Domain' = Endpoint!Domain
        /\ Endpoint!HasColon' = Endpoint!HasColon /\ Endpoint!Number' = Endpoint!Number
        /\ Endpoint!Path' = Endpoint!Path
        /\ PathStart' = PathStart /\ PortSaid' = PortSaid
    BY <2>1, EndpointFrame
  <2>3. Endpoint!TypeOK'
    BY <2>1, <2>2 DEF EndpointInv, Endpoint!TypeOK
  <2>4. EndpointRead'
    BY <2>1, <2>2 DEF EndpointInv, EndpointRead
  <2> QED
    BY <2>3, <2>4 DEF EndpointInv
<1> QED
  BY <1>1, EndpointPrefix, EndpointDomain, EndpointPort, EndpointPath DEF Endpoint!Next

LEMMA EndpointHolds ==
  ASSUME EndpointInv
  PROVE  Endpoint!PartsRead /\ Endpoint!PortRead /\ Endpoint!PathAbsolute
<1> DEFINE s == Endpoint!Rest
           N == Len(s)
           d == Len(Endpoint!Domain)
<1>1. address \in Endpoint!Address
  BY DEF EndpointInv, Endpoint!TypeOK
<1>2. Endpoint!PartsRead
  BY DEF EndpointInv, EndpointRead, Endpoint!PartsRead
<1>3. Endpoint!PortRead
  BY DEF EndpointInv, EndpointRead, PortSaid, Endpoint!PortRead
<1>4. ASSUME phase = "done"
      PROVE  /\ url_path # <<>>
             /\ url_path[1] # "/" =>
                  /\ Endpoint!HasColon
                  /\ Endpoint!Path[1] \notin Endpoint!Digit \cup {"/"}
  <2>1. url_path = IF Endpoint!Path = <<>> THEN <<"/">> ELSE Endpoint!Path
    BY <1>4 DEF EndpointInv, EndpointRead
  <2>2. CASE Endpoint!Path = <<>>
    BY <2>1, <2>2, CharFacts
  <2>3. CASE Endpoint!Path # <<>>
    <3>1. PathStart < N /\ Endpoint!Path[1] = s[PathStart + 1]
      <4>1. /\ PathStart \in 0 .. N /\ (Endpoint!Path = <<>> <=> PathStart = N)
            /\ PathStart < N => Endpoint!Path[1] = s[PathStart + 1]
        BY <1>1, PathFacts
      <4>2. N \in Nat
        BY <1>1, RestFacts
      <4> QED
        BY <2>3, <4>1, <4>2
    <3>2. CASE Endpoint!HasColon
      <4>1. PathStart = d + 1 + Len(Endpoint!Number)
        BY <3>2 DEF PathStart
      <4>2. s[PathStart + 1] \notin DOMAIN Value
        BY <1>1, <3>1, <3>2, <4>1, NumberFacts
      <4> QED
        BY <2>1, <2>3, <3>1, <3>2, <4>2, CharFacts
    <3>3. CASE ~ Endpoint!HasColon
      <4>1. PathStart = d
        BY <3>3 DEF PathStart
      <4>2. /\ d < N => s[d + 1] \in {"/", ":"}
            /\ Endpoint!HasColon <=> d < N /\ s[d + 1] = ":"
        BY <1>1, DomainFacts
      <4>3. s[PathStart + 1] = "/"
        BY <3>1, <3>3, <4>1, <4>2
      <4> QED
        BY <2>1, <2>3, <3>1, <4>3
    <3> QED
      BY <3>2, <3>3
  <2> QED
    BY <2>2, <2>3
<1> QED
  BY <1>2, <1>3, <1>4 DEF Endpoint!PathAbsolute
-----------------------------------------------------------------------------
(***************************************************************************)
(* env_base64WebEncode and env_base64WebDecode                             *)
(***************************************************************************)
\* Bytes, digits, the characters that are decoded, and those that are written.
Octets == 0 .. 255
Sextets == 0 .. 63
Coded == 0 .. 67
Written == 0 .. 68

\* s[k], and 0 beyond its end.
Padded(s, k) == IF k <= Len(s) THEN s[k] ELSE 0

\* Digit r, from 0, of group g of the bytes s, and the digit at place m.
InGroup(s, g, r) ==
  IF r = 0 THEN Base64!First(Padded(s, 3 * g + 1))
  ELSE IF r = 1 THEN Base64!Second(Padded(s, 3 * g + 1), Padded(s, 3 * g + 2))
  ELSE IF r = 2 THEN Base64!Third(Padded(s, 3 * g + 2), Padded(s, 3 * g + 3))
  ELSE Base64!Fourth(Padded(s, 3 * g + 3))

Sextet(s, m) == InGroup(s, (m - 1) \div 4, (m - 1) % 4)

\* Byte r, from 0, of group g of the digits s, and the byte at place m.
InBytes(s, g, r) ==
  IF r = 0 THEN Base64!Upper(Padded(s, 4 * g + 1), Padded(s, 4 * g + 2))
  ELSE IF r = 1 THEN Base64!Centre(Padded(s, 4 * g + 2), Padded(s, 4 * g + 3))
  ELSE Base64!Lower(Padded(s, 4 * g + 3), Padded(s, 4 * g + 4))

Octet(s, m) == InBytes(s, (m - 1) \div 3, (m - 1) % 3)

\* How many digits n bytes take.
DigitsFor(n) == n + ((n + 2) \div 3)

\* The digits the string that is decoded begins with.
KnownDigits == SubSeq(input, 1, Base64!Known(input))

\* What is written when all is encoded: the digits, equals signs, one NUL.
Encoded(s, n) ==
  /\ Len(s) = 4 * ((n + 2) \div 3) + 1
  /\ \A m \in DigitsFor(n) + 1 .. Len(s) - 1 : s[m] = Base64!Equals
  /\ s[Len(s)] = Base64!Nul

\* Whole groups are read and written until the rest, each digit the one of its
\* place, and the block is of the size computed from the length.
EncodingInv ==
  /\ input \in Seq(Byte)
  /\ phase = "encode" => i = 0 /\ ret = <<>>
  /\ phase # "encode" => size = Base64!EncodedSize(Len(input))
  /\ phase = "groups" =>
       /\ \E g \in Nat : i = 3 * g /\ Len(ret) = 4 * g
       /\ \A m \in 1 .. Len(ret) : ret[m] = Sextet(input, m)
  /\ phase = "webencode" =>
       /\ Encoded(ret, Len(input))
       /\ \A m \in 1 .. DigitsFor(Len(input)) : ret[m] = Sextet(input, m)
  /\ phase = "encoded" =>
       /\ Encoded(ret, Len(input))
       /\ \A m \in 1 .. DigitsFor(Len(input)) :
            ret[m] = IF Sextet(input, m) = Base64!Plus THEN Base64!Minus
                     ELSE IF Sextet(input, m) = Base64!Slash THEN Base64!Underscore
                     ELSE Sextet(input, m)

DecodingInv ==
  /\ input \in Seq(0 .. Base64!Other)
  /\ phase \in {"webdecode", "pad", "size"} => i = 0 /\ ret = <<>>
  /\ phase \in {"bytes", "decoded"} =>
       /\ size = Base64!DecodedSize(Base64!Known(input))
       /\ \A m \in 1 .. Len(ret) : ret[m] = Octet(KnownDigits, m)
  /\ phase = "bytes" =>
       /\ i <= Base64!Known(input)
       /\ \E g \in Nat : i = 4 * g /\ Len(ret) = 3 * g
  /\ phase = "decoded" => Len(ret) = (3 * Base64!Known(input)) \div 4

Base64Inv ==
  /\ Base64!TypeOK
  /\ phase \in Base64!Encoding => EncodingInv
  /\ phase \in Base64!Decoding => DecodingInv

\* The bytes are bytes; what is decoded is one of the characters.
LEMMA CharacterFacts ==
  /\ Byte \subseteq Octets /\ Sign \subseteq Coded /\ InputLength \in Nat
  /\ 0 .. Base64!Other = Coded /\ 0 .. Base64!Nul = Written /\ 0 .. 255 = Octets
  /\ Octets \subseteq Int /\ Sextets \subseteq Coded /\ Coded \subseteq Written
  /\ Sextets \subseteq Octets /\ Sextets \subseteq Written /\ Written \subseteq Int
  /\ Base64!Minus \notin Sextets /\ Base64!Underscore \notin Sextets
  /\ Base64!Equals \notin Sextets \cup {Base64!Minus, Base64!Underscore}
  /\ Base64!Nul \notin Sextets \cup {Base64!Minus, Base64!Underscore, Base64!Equals}
  /\ Base64!Equals \in Written /\ Base64!Nul \in Written
  /\ Base64!Minus \in Written /\ Base64!Underscore \in Written
  /\ Base64!Digits = 64 /\ Base64!Plus = 62 /\ Base64!Slash = 63 /\ Base64!Minus = 64
  /\ Base64!Underscore = 65 /\ Base64!Equals = 66 /\ Base64!Other = 67 /\ Base64!Nul = 68
<1>1. Byte \subseteq Octets /\ Sign \subseteq Coded /\ InputLength \in Nat
  BY Base64Assumption DEF Octets, Coded
<1>2. /\ Base64!Digits = 64 /\ Base64!Plus = 62 /\ Base64!Slash = 63 /\ Base64!Minus = 64
      /\ Base64!Underscore = 65 /\ Base64!Equals = 66 /\ Base64!Other = 67 /\ Base64!Nul = 68
  BY DEF Base64!Digits, Base64!Plus, Base64!Slash, Base64!Minus, Base64!Underscore,
         Base64!Equals, Base64!Other, Base64!Nul
<1>3. /\ Octets \subseteq Int /\ Sextets \subseteq Coded /\ Coded \subseteq Written
      /\ Sextets \subseteq Octets /\ Sextets \subseteq Written /\ Written \subseteq Int
      /\ 0 .. 255 = Octets
  BY DEF Octets, Sextets, Coded, Written
<1>4. 0 .. Base64!Other = Coded /\ 0 .. Base64!Nul = Written
  BY <1>2 DEF Coded, Written
<1>5. /\ Base64!Minus \notin Sextets /\ Base64!Underscore \notin Sextets
      /\ Base64!Equals \notin Sextets \cup {Base64!Minus, Base64!Underscore}
      /\ Base64!Nul \notin Sextets \cup {Base64!Minus, Base64!Underscore, Base64!Equals}
      /\ Base64!Equals \in Written /\ Base64!Nul \in Written
      /\ Base64!Minus \in Written /\ Base64!Underscore \in Written
  BY <1>2 DEF Sextets, Written
<1> QED
  BY <1>1, <1>2, <1>3, <1>4, <1>5

\* The four digits of three bytes are digits, and have the bits of the bytes.
LEMMA DigitsOfBytes ==
  ASSUME NEW x \in Octets, NEW y \in Octets, NEW z \in Octets
  PROVE  /\ Base64!First(x) \in Sextets /\ Base64!Second(x, y) \in Sextets
         /\ Base64!Third(y, z) \in Sextets /\ Base64!Fourth(z) \in Sextets
  BY DEF Base64!First, Base64!Second, Base64!Third, Base64!Fourth, Octets, Sextets

LEMMA BitsOfDigits ==
  ASSUME NEW x \in Octets, NEW y \in Octets, NEW z \in Octets, NEW r \in 0 .. 23
  PROVE  Base64!Bit(<<Base64!First(x), Base64!Second(x, y),
                      Base64!Third(y, z), Base64!Fourth(z)>>, 6, r)
           = Base64!Bit(<<x, y, z>>, 8, r)
<1> DEFINE Same(b) ==
             Base64!Bit(<<Base64!First(x), Base64!Second(x, y),
                          Base64!Third(y, z), Base64!Fourth(z)>>, 6, b)
               = Base64!Bit(<<x, y, z>>, 8, b)
<1>1. Same(0) /\ Same(1) /\ Same(2) /\ Same(3) /\ Same(4) /\ Same(5)
  BY DEF Base64!Bit, Base64!Power, Base64!First, Base64!Second, Octets
<1>2. /\ Same(6) /\ Same(7) /\ Same(8)
      /\ Same(9) /\ Same(10) /\ Same(11)
  <2>1. Same(6) /\ Same(7) /\ Same(8)
    BY DEF Base64!Bit, Base64!Power, Base64!Second, Octets
  <2>2. Same(9) /\ Same(10) /\ Same(11)
    BY DEF Base64!Bit, Base64!Power, Base64!Second, Octets
  <2> QED
    BY <2>1, <2>2
<1>3. /\ Same(12) /\ Same(13) /\ Same(14)
      /\ Same(15) /\ Same(16) /\ Same(17)
  <2>1. Same(12) /\ Same(13)
    BY DEF Base64!Bit, Base64!Power, Base64!Third, Octets
  <2>2. Same(14)
    BY DEF Base64!Bit, Base64!Power, Base64!Third, Octets
  <2>3. Same(15)
    BY DEF Base64!Bit, Base64!Power, Base64!Third, Octets
  <2>4. Same(16) /\ Same(17)
    BY DEF Base64!Bit, Base64!Power, Base64!Third, Octets
  <2> QED
    BY <2>1, <2>2, <2>3, <2>4
<1>4. Same(18) /\ Same(19) /\ Same(20) /\ Same(21) /\ Same(22) /\ Same(23)
  BY DEF Base64!Bit, Base64!Power, Base64!Third, Base64!Fourth, Octets
<1> HIDE DEF Same
<1>5. \/ r = 0 \/ r = 1 \/ r = 2 \/ r = 3 \/ r = 4 \/ r = 5
      \/ r = 6 \/ r = 7 \/ r = 8 \/ r = 9 \/ r = 10 \/ r = 11
      \/ r = 12 \/ r = 13 \/ r = 14 \/ r = 15 \/ r = 16 \/ r = 17
      \/ r = 18 \/ r = 19 \/ r = 20 \/ r = 21 \/ r = 22 \/ r = 23
  OBVIOUS
<1>6. Same(r)
  BY <1>1, <1>2, <1>3, <1>4, <1>5
<1> QED
  BY <1>6 DEF Same

\* The three bytes of four digits are bytes, and have their bits.
LEMMA BytesOfDigits ==
  ASSUME NEW w \in Sextets, NEW x \in Sextets, NEW y \in Sextets, NEW z \in Sextets
  PROVE  /\ Base64!Upper(w, x) \in Octets /\ Base64!Centre(x, y) \in Octets
         /\ Base64!Lower(y, z) \in Octets
  BY DEF Base64!Upper, Base64!Centre, Base64!Lower, Octets, Sextets

KeepBit(w, x, y, z, r) ==
  Base64!Bit(<<Base64!Upper(w, x), Base64!Centre(x, y), Base64!Lower(y, z)>>, 8, r)
    = Base64!Bit(<<w, x, y, z>>, 6, r)

LEMMA BitsOfBytes ==
  ASSUME NEW w \in Sextets, NEW x \in Sextets, NEW y \in Sextets, NEW z \in Sextets,
         NEW r \in 0 .. 23
  PROVE  KeepBit(w, x, y, z, r)
<1> DEFINE Same(b) ==
             Base64!Bit(<<Base64!Upper(w, x), Base64!Centre(x, y), Base64!Lower(y, z)>>, 8, b)
               = Base64!Bit(<<w, x, y, z>>, 6, b)
<1>1. Same(0) /\ Same(1) /\ Same(2) /\ Same(3) /\ Same(4) /\ Same(5)
  BY DEF Base64!Bit, Base64!Power, Base64!Upper, Sextets
<1>2. /\ Same(6) /\ Same(7) /\ Same(8)
      /\ Same(9) /\ Same(10) /\ Same(11)
  <2>1. Same(6) /\ Same(7)
    BY DEF Base64!Bit, Base64!Power, Base64!Upper, Sextets
  <2>2. Same(8) /\ Same(9)
    BY DEF Base64!Bit, Base64!Power, Base64!Centre, Sextets
  <2>3. Same(10) /\ Same(11)
    BY DEF Base64!Bit, Base64!Power, Base64!Centre, Sextets
  <2> QED
    BY <2>1, <2>2, <2>3
<1>3. /\ Same(12) /\ Same(13) /\ Same(14)
      /\ Same(15) /\ Same(16) /\ Same(17)
  <2>1. Same(12) /\ Same(13)
    BY DEF Base64!Bit, Base64!Power, Base64!Centre, Sextets
  <2>2. Same(14) /\ Same(15)
    BY DEF Base64!Bit, Base64!Power, Base64!Centre, Sextets
  <2>3. Same(16) /\ Same(17)
    BY DEF Base64!Bit, Base64!Power, Base64!Lower, Sextets
  <2> QED
    BY <2>1, <2>2, <2>3
<1>4. Same(18) /\ Same(19) /\ Same(20) /\ Same(21) /\ Same(22) /\ Same(23)
  BY DEF Base64!Bit, Base64!Power, Base64!Lower, Sextets
<1> HIDE DEF Same
<1>5. \/ r = 0 \/ r = 1 \/ r = 2 \/ r = 3 \/ r = 4 \/ r = 5
      \/ r = 6 \/ r = 7 \/ r = 8 \/ r = 9 \/ r = 10 \/ r = 11
      \/ r = 12 \/ r = 13 \/ r = 14 \/ r = 15 \/ r = 16 \/ r = 17
      \/ r = 18 \/ r = 19 \/ r = 20 \/ r = 21 \/ r = 22 \/ r = 23
  OBVIOUS
<1>6. Same(r)
  BY <1>1, <1>2, <1>3, <1>4, <1>5
<1> QED
  BY <1>6 DEF Same, KeepBit

\* One sequence after another.
Follows(S, s, t, all) ==
  /\ all \in Seq(S) /\ Len(all) = Len(s) + Len(t)
  /\ \A m \in 1 .. Len(s) : all[m] = s[m]
  /\ \A m \in 1 .. Len(t) : all[Len(s) + m] = t[m]

LEMMA Joined ==
  ASSUME NEW S, NEW s \in Seq(S), NEW t \in Seq(S)
  PROVE  Follows(S, s, t, s \o t)
<1>1. Len(s) \in Nat /\ Len(t) \in Nat
  OBVIOUS
<1>2. s \o t \in Seq(S) /\ Len(s \o t) = Len(s) + Len(t)
  BY ConcatProperties
<1>3. ASSUME NEW m \in 1 .. Len(s)
      PROVE  (s \o t)[m] = s[m]
  BY <1>1, ConcatProperties
<1>4. ASSUME NEW m \in 1 .. Len(t)
      PROVE  (s \o t)[Len(s) + m] = t[m]
  BY <1>1, ConcatProperties
<1> QED
  BY <1>2, <1>3, <1>4, Zenon DEF Follows

LEMMA PaddedFacts ==
  ASSUME NEW S, 0 \in S, NEW s \in Seq(S), NEW k \in Nat \ {0}
  PROVE  Padded(s, k) \in S
<1>1. k <= Len(s) => k \in 1 .. Len(s)
  OBVIOUS
<1>2. k <= Len(s) => s[k] \in S
  BY <1>1, ElementOfSeq, Zenon
<1> QED
  BY <1>2, Zenon DEF Padded

\* The digits by group and place.
LEMMA SextetFacts ==
  ASSUME NEW s \in Seq(Octets), NEW g \in Nat, NEW r \in 0 .. 3
  PROVE  Sextet(s, 4 * g + r + 1) = InGroup(s, g, r) /\ InGroup(s, g, r) \in Sextets
<1>1. ((4 * g + r + 1) - 1) \div 4 = g /\ ((4 * g + r + 1) - 1) % 4 = r
  OBVIOUS
<1>2. 3 * g + 1 \in Nat \ {0} /\ 3 * g + 2 \in Nat \ {0} /\ 3 * g + 3 \in Nat \ {0} /\ 0 \in Octets
  BY DEF Octets
<1>3. /\ Padded(s, 3 * g + 1) \in Octets /\ Padded(s, 3 * g + 2) \in Octets
      /\ Padded(s, 3 * g + 3) \in Octets
  BY <1>2, PaddedFacts, Zenon
<1>4. InGroup(s, g, r) \in Sextets
  BY <1>3, DigitsOfBytes, Zenon DEF InGroup
<1> QED
  BY <1>1, <1>4, Zenon DEF Sextet

LEMMA SextetIsDigit ==
  ASSUME NEW s \in Seq(Octets), NEW m \in Nat \ {0}
  PROVE  Sextet(s, m) \in Sextets
<1> DEFINE g == (m - 1) \div 4
           r == (m - 1) % 4
<1>1. g \in Nat /\ r \in 0 .. 3
  OBVIOUS
<1> HIDE DEF g, r
<1>2. InGroup(s, g, r) \in Sextets
  BY <1>1, SextetFacts, Zenon
<1> QED
  BY <1>2 DEF Sextet, g, r

\* The bytes by group and place.
LEMMA OctetFacts ==
  ASSUME NEW s \in Seq(Sextets), NEW g \in Nat, NEW r \in 0 .. 2
  PROVE  Octet(s, 3 * g + r + 1) = InBytes(s, g, r) /\ InBytes(s, g, r) \in Octets
<1>1. ((3 * g + r + 1) - 1) \div 3 = g /\ ((3 * g + r + 1) - 1) % 3 = r
  OBVIOUS
<1>2. /\ 4 * g + 1 \in Nat \ {0} /\ 4 * g + 2 \in Nat \ {0} /\ 4 * g + 3 \in Nat \ {0}
      /\ 4 * g + 4 \in Nat \ {0} /\ 0 \in Sextets
  BY DEF Sextets
<1>3. /\ Padded(s, 4 * g + 1) \in Sextets /\ Padded(s, 4 * g + 2) \in Sextets
      /\ Padded(s, 4 * g + 3) \in Sextets /\ Padded(s, 4 * g + 4) \in Sextets
  BY <1>2, PaddedFacts, Zenon
<1>4. InBytes(s, g, r) \in Octets
  BY <1>3, BytesOfDigits, Zenon DEF InBytes
<1> QED
  BY <1>1, <1>4, Zenon DEF Octet

LEMMA Widened ==
  ASSUME NEW S, NEW T, S \subseteq T, NEW s \in Seq(S)
  PROVE  s \in Seq(T)
<1>1. s \in [1 .. Len(s) -> S] /\ Len(s) \in Nat
  BY SeqDef
<1>2. s \in [1 .. Len(s) -> T]
  BY <1>1
<1> QED
  BY <1>1, <1>2, SeqDef

\* out has the digits of the first g groups of s; t begins with n of the next.
GroupsWritten(s, out, g) ==
  /\ out \in Seq(Written) /\ Len(out) = 4 * g
  /\ \A m \in 1 .. Len(out) : out[m] = Sextet(s, m)

GroupBegun(s, t, g, n) ==
  /\ t \in Seq(Written) /\ n \in 0 .. 4 /\ n <= Len(t)
  /\ \A r \in 0 .. n - 1 : t[r + 1] = InGroup(s, g, r)

GroupAppended(s, all, t, g, n) ==
  /\ all \in Seq(Written) /\ Len(all) = 4 * g + Len(t)
  /\ \A m \in 1 .. 4 * g + n : all[m] = Sextet(s, m)
  /\ \A m \in n + 1 .. Len(t) : all[4 * g + m] = t[m]

\* What is appended after whole groups are the digits of the next one.
LEMMA MoreDigits ==
  ASSUME NEW s \in Seq(Octets), NEW g \in Nat, NEW out, NEW t, NEW n,
         GroupsWritten(s, out, g), GroupBegun(s, t, g, n)
  PROVE  GroupAppended(s, out \o t, t, g, n)
<1> DEFINE all == out \o t
<1>1. /\ all \in Seq(Written) /\ Len(all) = Len(out) + Len(t)
      /\ \A m \in 1 .. Len(out) : all[m] = out[m]
      /\ \A m \in 1 .. Len(t) : all[Len(out) + m] = t[m]
  <2>1. out \in Seq(Written) /\ t \in Seq(Written)
    BY Zenon DEF GroupsWritten, GroupBegun
  <2>2. Follows(Written, out, t, all)
    BY <2>1, Joined, Zenon
  <2> QED
    BY <2>2, Zenon DEF Follows
<1>2. Len(t) \in Nat /\ n \in 0 .. 4 /\ n <= Len(t) /\ Len(out) = 4 * g
  BY DEF GroupsWritten, GroupBegun
<1> HIDE DEF all
<1>3. ASSUME NEW m \in 1 .. 4 * g + n
      PROVE  all[m] = Sextet(s, m)
  <2>1. CASE m <= 4 * g
    <3>1. m \in 1 .. Len(out)
      BY <1>2, <2>1
    <3> QED
      BY <1>1, <3>1, Zenon DEF GroupsWritten
  <2>2. CASE ~ (m <= 4 * g)
    <3> DEFINE r == m - 4 * g - 1
    <3>1. /\ r \in 0 .. n - 1 /\ r \in 0 .. 3 /\ r + 1 \in 1 .. Len(t)
          /\ m = 4 * g + r + 1 /\ m = Len(out) + (r + 1)
      BY <1>2, <2>2
    <3> HIDE DEF r
    <3>2. all[m] = InGroup(s, g, r)
      BY <1>1, <3>1, Zenon DEF GroupBegun
    <3>3. Sextet(s, 4 * g + r + 1) = InGroup(s, g, r)
      BY <3>1, SextetFacts, Zenon
    <3> QED
      BY <3>1, <3>2, <3>3, Zenon
  <2> QED
    BY <2>1, <2>2
<1>4. \A m \in n + 1 .. Len(t) : m \in 1 .. Len(t)
  BY <1>2
<1>5. \A m \in n + 1 .. Len(t) : all[Len(out) + m] = t[m]
  BY <1>1, <1>4, Zenon
<1>6. Len(all) = 4 * g + Len(t) /\ \A m \in n + 1 .. Len(t) : all[4 * g + m] = t[m]
  BY <1>1, <1>2, <1>5
<1> QED
  BY <1>1, <1>3, <1>6, Zenon DEF all, GroupAppended

LEMMA Base64Starts == Base64!Init => Base64Inv
<1> SUFFICES ASSUME Base64!Init
             PROVE  Base64Inv
  OBVIOUS
<1>1. i = 0 /\ ret = <<>> /\ size = 0
  BY DEF Base64!Init
<1>2. ASSUME NEW S, input \in Base64!UpTo(S)
      PROVE  input \in Seq(S)
  <2>1. input \in UNION {[1 .. n -> S] : n \in 0 .. InputLength}
    BY <1>2 DEF Base64!UpTo
  <2>2. PICK n \in 0 .. InputLength : input \in [1 .. n -> S]
    BY <2>1
  <2>3. n \in Nat
    BY <2>2, CharacterFacts
  <2> QED
    BY <2>2, <2>3, SeqDef
<1>3. CASE phase = "encode" /\ input \in Base64!UpTo(Byte)
  <2>1. input \in Seq(Byte) /\ 0 \in 0 .. Len(input)
    BY <1>2, <1>3
  <2>2. Base64!TypeOK
    BY <1>1, <1>3, <2>1 DEF Base64!TypeOK, Base64!Encoding, Base64!Decoding
  <2>3. EncodingInv
    BY <1>1, <1>3, <2>1 DEF EncodingInv
  <2> QED
    BY <1>3, <2>2, <2>3 DEF Base64Inv, Base64!Decoding
<1>4. CASE phase = "webdecode" /\ input \in Base64!UpTo(Sign)
  <2>1. input \in Seq(0 .. Base64!Other) /\ 0 \in 0 .. Len(input)
    <3>1. input \in Seq(Sign) /\ 0 \in 0 .. Len(input)
      BY <1>2, <1>4
    <3>2. input \in Seq(Coded)
      BY <3>1, CharacterFacts, Widened, Zenon
    <3>3. 0 .. Base64!Other = Coded
      BY CharacterFacts, Zenon
    <3> QED
      BY <3>1, <3>2, <3>3, Zenon
  <2>2. Base64!TypeOK
    BY <1>1, <1>4, <2>1 DEF Base64!TypeOK, Base64!Encoding, Base64!Decoding
  <2>3. DecodingInv
    BY <1>1, <1>4, <2>1 DEF DecodingInv
  <2> QED
    BY <1>4, <2>2, <2>3 DEF Base64Inv, Base64!Encoding
<1> QED
  BY <1>3, <1>4 DEF Base64!Init

\* The types of the two directions, now and next.
LEMMA EncodingTypes ==
  ASSUME Base64Inv, phase \in Base64!Encoding
  PROVE  /\ EncodingInv /\ input \in Seq(Byte) /\ input \in Seq(Octets)
         /\ i \in 0 .. Len(input) /\ ret \in Seq(Written) /\ size \in Nat
<1>1. phase \notin Base64!Decoding
  BY DEF Base64!Encoding, Base64!Decoding
<1>2. Base64!TypeOK /\ EncodingInv
  BY <1>1 DEF Base64Inv
<1>3. /\ input \in Seq(Byte) /\ i \in 0 .. Len(input)
      /\ ret \in Seq(0 .. Base64!Nul) /\ size \in Nat
  BY <1>2 DEF Base64!TypeOK
<1>4. 0 .. Base64!Nul = Written /\ Byte \subseteq Octets
  BY CharacterFacts, Zenon
<1>5. input \in Seq(Octets)
  BY <1>3, <1>4, Widened, Zenon
<1> QED
  BY <1>2, <1>3, <1>4, <1>5, Zenon

LEMMA EncodingTypesNext ==
  ASSUME phase' \in Base64!Encoding, input' \in Seq(Byte), i' \in 0 .. Len(input'),
         ret' \in Seq(Written), size' \in Nat, EncodingInv',
         phase' \in {"groups", "webencode"} =>
           \A m \in 1 .. Len(ret') : ret'[m] \notin {Base64!Minus, Base64!Underscore}
  PROVE  Base64Inv'
<1>1. phase' \notin Base64!Decoding
  BY DEF Base64!Encoding, Base64!Decoding
<1>2. 0 .. Base64!Nul = Written
  BY CharacterFacts, Zenon
<1>3. Base64!ToSet(ret') = {ret'[m] : m \in 1 .. Len(ret')}
  BY DEF Base64!ToSet
<1>4. phase' \in {"groups", "webencode"} =>
        \A c \in Base64!ToSet(ret') : c \notin {Base64!Minus, Base64!Underscore}
  BY <1>3, Zenon
<1>5. /\ input' \in Seq(IF phase' \in Base64!Encoding THEN Byte ELSE 0 .. Base64!Other)
      /\ ret' \in Seq(IF phase' \in Base64!Encoding THEN 0 .. Base64!Nul ELSE 0 .. 255)
  BY <1>2
<1>6. Base64!TypeOK'
  BY <1>4, <1>5, Zenon DEF Base64!TypeOK
<1> QED
  BY <1>1, <1>6 DEF Base64Inv

LEMMA DecodingTypes ==
  ASSUME Base64Inv, phase \in Base64!Decoding
  PROVE  /\ DecodingInv /\ input \in Seq(Coded)
         /\ i \in 0 .. Len(input) /\ ret \in Seq(Octets) /\ size \in Nat
<1>1. phase \notin Base64!Encoding
  BY DEF Base64!Encoding, Base64!Decoding
<1>2. Base64!TypeOK /\ DecodingInv
  BY <1>1 DEF Base64Inv
<1>3. /\ input \in Seq(0 .. Base64!Other) /\ i \in 0 .. Len(input)
      /\ ret \in Seq(0 .. 255) /\ size \in Nat
  BY <1>1, <1>2 DEF Base64!TypeOK
<1>4. 0 .. Base64!Other = Coded /\ 0 .. 255 = Octets
  BY CharacterFacts
<1> QED
  BY <1>2, <1>3, <1>4

LEMMA DecodingTypesNext ==
  ASSUME phase' \in Base64!Decoding, input' \in Seq(Coded), i' \in 0 .. Len(input'),
         ret' \in Seq(Octets), size' \in Nat, DecodingInv'
  PROVE  Base64Inv'
<1>1. phase' \notin Base64!Encoding /\ phase' \notin {"groups", "webencode"}
  BY DEF Base64!Encoding, Base64!Decoding
<1>2. 0 .. Base64!Other = Coded /\ 0 .. 255 = Octets
  BY CharacterFacts
<1>3. /\ input' \in Seq(IF phase' \in Base64!Encoding THEN Byte ELSE 0 .. Base64!Other)
      /\ ret' \in Seq(IF phase' \in Base64!Encoding THEN 0 .. Base64!Nul ELSE 0 .. 255)
  BY <1>1, <1>2
<1>4. Base64!TypeOK'
  BY <1>1, <1>3, Zenon DEF Base64!TypeOK
<1> QED
  BY <1>1, <1>4 DEF Base64Inv

LEMMA EncodingStarts ==
  ASSUME Base64Inv, Base64!StartEncoding
  PROVE  Base64Inv'
<1>1. /\ phase = "encode" /\ phase' = "groups" /\ size' = Base64!EncodedSize(Len(input))
      /\ input' = input /\ i' = i /\ ret' = ret
  BY DEF Base64!StartEncoding
<1>2. phase \in Base64!Encoding /\ phase' \in Base64!Encoding
  BY <1>1 DEF Base64!Encoding
<1>3. /\ EncodingInv /\ input \in Seq(Byte)
      /\ i \in 0 .. Len(input) /\ ret \in Seq(Written)
  BY <1>2, EncodingTypes
<1>4. i = 0 /\ ret = <<>> /\ Len(ret) = 0
  BY <1>1, <1>3 DEF EncodingInv
<1>5. size' \in Nat
  BY <1>1, <1>3 DEF Base64!EncodedSize
<1>6. EncodingInv'
  <2>1. 0 \in Nat /\ i' = 3 * 0 /\ Len(ret') = 4 * 0 /\ \A m \in 1 .. 0 : FALSE
    BY <1>1, <1>4
  <2>2. \A m \in 1 .. Len(ret') : ret'[m] = Sextet(input', m)
    BY <1>1, <1>4
  <2> QED
    BY <1>1, <1>3, <2>1, <2>2 DEF EncodingInv
<1>7. \A m \in 1 .. Len(ret') : ret'[m] \notin {Base64!Minus, Base64!Underscore}
  BY <1>1, <1>4
<1> QED
  BY <1>1, <1>2, <1>3, <1>5, <1>6, <1>7, EncodingTypesNext

LEMMA GroupEncoded ==
  ASSUME Base64Inv, Base64!EncodeGroup
  PROVE  Base64Inv'
<1> DEFINE t == <<Base64!First(Base64!In(0)), Base64!Second(Base64!In(0), Base64!In(1)),
                  Base64!Third(Base64!In(1), Base64!In(2)), Base64!Fourth(Base64!In(2))>>
<1>1. /\ phase = "groups" /\ phase' = "groups" /\ Len(input) - i > 2
      /\ input' = input /\ i' = i + 3 /\ size' = size
  BY DEF Base64!EncodeGroup, Base64!Left
<1>2. phase \in Base64!Encoding /\ phase' \in Base64!Encoding
  BY <1>1 DEF Base64!Encoding
<1>3. /\ EncodingInv /\ input \in Seq(Byte) /\ input \in Seq(Octets)
      /\ i \in 0 .. Len(input) /\ ret \in Seq(Written) /\ size \in Nat
  BY <1>2, EncodingTypes
<1>4. /\ size = Base64!EncodedSize(Len(input))
      /\ \A m \in 1 .. Len(ret) : ret[m] = Sextet(input, m)
  BY <1>1, <1>3 DEF EncodingInv
<1>5. PICK g \in Nat : i = 3 * g /\ Len(ret) = 4 * g
  BY <1>1, <1>3 DEF EncodingInv
<1>6. ret' = ret \o t
  BY DEF Base64!EncodeGroup
<1>7. /\ Base64!In(0) = Padded(input, 3 * g + 1) /\ Base64!In(1) = Padded(input, 3 * g + 2)
      /\ Base64!In(2) = Padded(input, 3 * g + 3)
  BY <1>1, <1>3, <1>5 DEF Base64!In, Padded
<1>8. t = <<InGroup(input, g, 0), InGroup(input, g, 1), InGroup(input, g, 2), InGroup(input, g, 3)>>
  <2>1. /\ InGroup(input, g, 0) = Base64!First(Base64!In(0))
        /\ InGroup(input, g, 1) = Base64!Second(Base64!In(0), Base64!In(1))
        /\ InGroup(input, g, 2) = Base64!Third(Base64!In(1), Base64!In(2))
        /\ InGroup(input, g, 3) = Base64!Fourth(Base64!In(2))
    BY <1>7 DEF InGroup
  <2> QED
    BY <2>1
<1> HIDE DEF t
<1>9. \A r \in 0 .. 3 : InGroup(input, g, r) \in Sextets
  BY <1>3, SextetFacts
<1>10. t \in Seq(Written) /\ Len(t) = 4
  <2>1. \A n \in Sextets : n \in Written
    BY CharacterFacts, Zenon
  <2>2. 0 \in 0 .. 3 /\ 1 \in 0 .. 3 /\ 2 \in 0 .. 3 /\ 3 \in 0 .. 3
    OBVIOUS
  <2>3. /\ InGroup(input, g, 0) \in Written /\ InGroup(input, g, 1) \in Written
        /\ InGroup(input, g, 2) \in Written /\ InGroup(input, g, 3) \in Written
    BY <1>9, <2>1, <2>2, Zenon
  <2> QED
    BY <1>8, <2>3
<1>11. \A r \in 0 .. 4 - 1 : t[r + 1] = InGroup(input, g, r)
  BY <1>8
<1>12. /\ ret' \in Seq(Written) /\ Len(ret') = 4 * g + Len(t)
       /\ \A m \in 1 .. 4 * g + 4 : ret'[m] = Sextet(input, m)
  <2>1. PICK four \in 0 .. 4 : four = 4
    OBVIOUS
  <2>2. four <= Len(t) /\ \A r \in 0 .. four - 1 : t[r + 1] = InGroup(input, g, r)
    BY <1>10, <1>11, <2>1
  <2>3. GroupAppended(input, ret \o t, t, g, four)
    <3>1. GroupsWritten(input, ret, g)
      BY <1>3, <1>4, <1>5, Zenon DEF GroupsWritten
    <3>2. GroupBegun(input, t, g, four)
      BY <1>10, <2>1, <2>2, Zenon DEF GroupBegun
    <3> QED
      BY <1>3, <3>1, <3>2, MoreDigits, Zenon
  <2> QED
    BY <1>6, <2>1, <2>3, Zenon DEF GroupAppended
<1>13. g + 1 \in Nat /\ i' = 3 * (g + 1) /\ Len(ret') = 4 * (g + 1) /\ i' \in 0 .. Len(input')
  BY <1>1, <1>3, <1>5, <1>10, <1>12
<1>14. \A m \in 1 .. Len(ret') : ret'[m] = Sextet(input', m) /\ m \in Nat \ {0}
  BY <1>1, <1>12, <1>13
<1>15. \A m \in 1 .. Len(ret') : ret'[m] \notin {Base64!Minus, Base64!Underscore}
  <2>1. \A m \in 1 .. Len(ret') : ret'[m] \in Sextets
    BY <1>1, <1>3, <1>14, SextetIsDigit
  <2> QED
    BY <2>1, CharacterFacts, Zenon
<1>16. EncodingInv'
  BY <1>1, <1>3, <1>4, <1>13, <1>14 DEF EncodingInv
<1> QED
  BY <1>1, <1>2, <1>3, <1>12, <1>13, <1>15, <1>16, EncodingTypesNext

\* The rest of no, one or two bytes: its digits, then equals signs.
LEMMA RestDigits ==
  ASSUME NEW s \in Seq(Octets), NEW g \in Nat, NEW x,
         \/ /\ Len(s) = 3 * g /\ x = <<>>
         \/ /\ Len(s) = 3 * g + 1
            /\ x = <<Base64!First(s[3 * g + 1]), Base64!Second(s[3 * g + 1], 0),
                     Base64!Equals, Base64!Equals>>
         \/ /\ Len(s) = 3 * g + 2
            /\ x = <<Base64!First(s[3 * g + 1]), Base64!Second(s[3 * g + 1], s[3 * g + 2]),
                     Base64!Third(s[3 * g + 2], 0), Base64!Equals>>
  PROVE  \E n \in 0 .. 4 :
           /\ x \in Seq(Written) /\ n <= Len(x)
           /\ \A r \in 0 .. n - 1 : x[r + 1] = InGroup(s, g, r)
           /\ \A m \in n + 1 .. Len(x) : x[m] = Base64!Equals
           /\ DigitsFor(Len(s)) = 4 * g + n
           /\ 4 * ((Len(s) + 2) \div 3) = 4 * g + Len(x)
<1>1. \A r \in 0 .. 3 : InGroup(s, g, r) \in Sextets
  BY SextetFacts
<1>2. \A n \in Sextets : n \in Written
  BY CharacterFacts, Zenon
<1>3. /\ InGroup(s, g, 0) \in Written /\ InGroup(s, g, 1) \in Written
      /\ InGroup(s, g, 2) \in Written
  <2>1. 0 \in 0 .. 3 /\ 1 \in 0 .. 3 /\ 2 \in 0 .. 3
    OBVIOUS
  <2> QED
    BY <1>1, <1>2, <2>1, Zenon
<1>4. Base64!Equals \in Written
  BY CharacterFacts, Zenon
<1>5. CASE Len(s) = 3 * g /\ x = <<>>
  <2>1. DigitsFor(Len(s)) = 4 * g + 0 /\ 4 * ((Len(s) + 2) \div 3) = 4 * g + 0
    BY <1>5 DEF DigitsFor
  <2> QED
    BY <1>5, <2>1
<1>6. CASE /\ Len(s) = 3 * g + 1
           /\ x = <<Base64!First(s[3 * g + 1]), Base64!Second(s[3 * g + 1], 0),
                    Base64!Equals, Base64!Equals>>
  <2>1. DigitsFor(Len(s)) = 4 * g + 2 /\ 4 * ((Len(s) + 2) \div 3) = 4 * g + 4
    BY <1>6 DEF DigitsFor
  <2>2. Padded(s, 3 * g + 1) = s[3 * g + 1] /\ Padded(s, 3 * g + 2) = 0
    BY <1>6 DEF Padded
  <2>3. x = <<InGroup(s, g, 0), InGroup(s, g, 1), Base64!Equals, Base64!Equals>>
    BY <1>6, <2>2 DEF InGroup
  <2>4. x \in Seq(Written) /\ Len(x) = 4
    BY <1>3, <1>4, <2>3
  <2>5. \A r \in 0 .. 2 - 1 : x[r + 1] = InGroup(s, g, r)
    BY <2>3
  <2>6. \A m \in 2 + 1 .. Len(x) : x[m] = Base64!Equals
    BY <2>3, <2>4
  <2>7. 2 \in 0 .. 4 /\ 2 <= Len(x)
    BY <2>4
  <2> QED
    BY <2>1, <2>4, <2>5, <2>6, <2>7, Zenon
<1>7. CASE /\ Len(s) = 3 * g + 2
           /\ x = <<Base64!First(s[3 * g + 1]), Base64!Second(s[3 * g + 1], s[3 * g + 2]),
                    Base64!Third(s[3 * g + 2], 0), Base64!Equals>>
  <2>1. DigitsFor(Len(s)) = 4 * g + 3 /\ 4 * ((Len(s) + 2) \div 3) = 4 * g + 4
    BY <1>7 DEF DigitsFor
  <2>2. /\ Padded(s, 3 * g + 1) = s[3 * g + 1] /\ Padded(s, 3 * g + 2) = s[3 * g + 2]
        /\ Padded(s, 3 * g + 3) = 0
    BY <1>7 DEF Padded
  <2>3. x = <<InGroup(s, g, 0), InGroup(s, g, 1), InGroup(s, g, 2), Base64!Equals>>
    BY <1>7, <2>2 DEF InGroup
  <2>4. x \in Seq(Written) /\ Len(x) = 4
    BY <1>3, <1>4, <2>3
  <2>5. \A r \in 0 .. 3 - 1 : x[r + 1] = InGroup(s, g, r)
    BY <2>3
  <2>6. \A m \in 3 + 1 .. Len(x) : x[m] = Base64!Equals
    BY <2>3, <2>4
  <2>7. 3 \in 0 .. 4 /\ 3 <= Len(x)
    BY <2>4
  <2> QED
    BY <2>1, <2>4, <2>5, <2>6, <2>7, Zenon
<1> QED
  BY <1>5, <1>6, <1>7

LEMMA RestEncoded ==
  ASSUME Base64Inv, Base64!EncodeRest
  PROVE  Base64Inv'
<1> DEFINE n == Len(input)
           x == IF n - i = 2
                THEN <<Base64!First(Base64!In(0)), Base64!Second(Base64!In(0), Base64!In(1)),
                       Base64!Third(Base64!In(1), 0), Base64!Equals>>
                ELSE IF n - i = 1
                THEN <<Base64!First(Base64!In(0)), Base64!Second(Base64!In(0), 0),
                       Base64!Equals, Base64!Equals>>
                ELSE <<>>
           mid == ret \o x
<1>1. /\ phase = "groups" /\ phase' = "webencode" /\ n - i <= 2
      /\ input' = input /\ i' = i /\ size' = size
  BY DEF Base64!EncodeRest, Base64!Left
<1>2. phase \in Base64!Encoding /\ phase' \in Base64!Encoding
  BY <1>1 DEF Base64!Encoding
<1>3. /\ EncodingInv /\ input \in Seq(Byte) /\ input \in Seq(Octets)
      /\ i \in 0 .. n /\ ret \in Seq(Written) /\ size \in Nat
  BY <1>2, EncodingTypes
<1>4. /\ size = Base64!EncodedSize(Len(input))
      /\ \A m \in 1 .. Len(ret) : ret[m] = Sextet(input, m)
  BY <1>1, <1>3 DEF EncodingInv
<1>5. PICK g \in Nat : i = 3 * g /\ Len(ret) = 4 * g
  BY <1>1, <1>3 DEF EncodingInv
<1>6. ret' = mid \o <<Base64!Nul>>
  BY DEF Base64!EncodeRest, Base64!Left
<1>7. n \in Nat /\ (n = 3 * g \/ n = 3 * g + 1 \/ n = 3 * g + 2)
  BY <1>1, <1>3, <1>5
<1>8. Base64!In(0) = input[3 * g + 1] /\ Base64!In(1) = input[3 * g + 2]
  BY <1>5 DEF Base64!In
<1>9. \/ n = 3 * g /\ x = <<>>
      \/ /\ n = 3 * g + 1
         /\ x = <<Base64!First(input[3 * g + 1]), Base64!Second(input[3 * g + 1], 0),
                  Base64!Equals, Base64!Equals>>
      \/ /\ n = 3 * g + 2
         /\ x = <<Base64!First(input[3 * g + 1]), Base64!Second(input[3 * g + 1], input[3 * g + 2]),
                  Base64!Third(input[3 * g + 2], 0), Base64!Equals>>
  <2>1. /\ n = 3 * g => n - i # 2 /\ n - i # 1
        /\ n = 3 * g + 1 => n - i # 2 /\ n - i = 1
        /\ n = 3 * g + 2 => n - i = 2
    BY <1>5, <1>7
  <2> HIDE DEF n
  <2> QED
    BY <1>7, <1>8, <2>1, Zenon
<1> HIDE DEF x
<1>10. PICK k \in 0 .. 4 :
         /\ x \in Seq(Written) /\ k <= Len(x)
         /\ \A r \in 0 .. k - 1 : x[r + 1] = InGroup(input, g, r)
         /\ \A m \in k + 1 .. Len(x) : x[m] = Base64!Equals
         /\ DigitsFor(n) = 4 * g + k
         /\ 4 * ((n + 2) \div 3) = 4 * g + Len(x)
  BY <1>3, <1>9, RestDigits, Zenon
<1>11. /\ mid \in Seq(Written) /\ Len(mid) = 4 * g + Len(x)
       /\ \A m \in 1 .. 4 * g + k : mid[m] = Sextet(input, m)
       /\ \A m \in k + 1 .. Len(x) : mid[4 * g + m] = x[m]
  <2>1. GroupsWritten(input, ret, g)
    BY <1>3, <1>4, <1>5, Zenon DEF GroupsWritten
  <2>2. GroupBegun(input, x, g, k)
    BY <1>10, Zenon DEF GroupBegun
  <2>3. GroupAppended(input, mid, x, g, k)
    BY <1>3, <2>1, <2>2, MoreDigits, Zenon
  <2> QED
    BY <2>3, Zenon DEF GroupAppended
<1> HIDE DEF mid
<1>12. /\ ret' \in Seq(Written) /\ Len(ret') = Len(mid) + 1
       /\ \A m \in 1 .. Len(mid) : ret'[m] = mid[m]
       /\ ret'[Len(mid) + 1] = Base64!Nul
  <2> DEFINE last == <<Base64!Nul>>
  <2>1. Base64!Nul \in Written
    BY CharacterFacts, Zenon
  <2>2. last \in Seq(Written) /\ Len(last) = 1 /\ last[1] = Base64!Nul /\ 1 \in 1 .. Len(last)
    BY <2>1
  <2>3. ret' = mid \o last
    BY <1>6
  <2> HIDE DEF last
  <2>4. /\ mid \o last \in Seq(Written) /\ Len(mid \o last) = Len(mid) + Len(last)
        /\ \A m \in 1 .. Len(mid) : (mid \o last)[m] = mid[m]
        /\ \A m \in 1 .. Len(last) : (mid \o last)[Len(mid) + m] = last[m]
    <3>1. Follows(Written, mid, last, mid \o last)
      BY <1>11, <2>2, Joined, Zenon
    <3> QED
      BY <3>1, Zenon DEF Follows
  <2> QED
    BY <2>2, <2>3, <2>4, Zenon
<1>13. Len(x) \in Nat
  BY <1>10
<1>14. Len(ret') = 4 * ((n + 2) \div 3) + 1 /\ ret'[Len(ret')] = Base64!Nul
  BY <1>10, <1>11, <1>12, Zenon
<1>15. ASSUME NEW m \in 1 .. 4 * g + k
       PROVE  ret'[m] = Sextet(input, m) /\ ret'[m] \in Sextets
  <2>1. m \in 1 .. Len(mid) /\ m \in Nat \ {0}
    BY <1>10, <1>11, <1>13
  <2>2. ret'[m] = Sextet(input, m)
    BY <1>11, <1>12, <2>1, Zenon
  <2>3. Sextet(input, m) \in Sextets
    BY <1>3, <2>1, SextetIsDigit, Zenon
  <2> QED
    BY <2>2, <2>3, Zenon
<1>16. ASSUME NEW m \in 4 * g + k + 1 .. 4 * g + Len(x)
       PROVE  ret'[m] = Base64!Equals
  <2>1. /\ m \in 1 .. Len(mid) /\ m - 4 * g \in k + 1 .. Len(x) /\ m = 4 * g + (m - 4 * g)
    BY <1>10, <1>11, <1>13
  <2>2. ret'[m] = mid[m] /\ mid[4 * g + (m - 4 * g)] = x[m - 4 * g] /\ x[m - 4 * g] = Base64!Equals
    BY <1>10, <1>11, <1>12, <2>1, Zenon
  <2> QED
    BY <2>1, <2>2, Zenon
<1>17. Encoded(ret', n)
  <2>1. \A m \in DigitsFor(n) + 1 .. Len(ret') - 1 : m \in 4 * g + k + 1 .. 4 * g + Len(x)
    BY <1>10, <1>11, <1>12, <1>13
  <2>2. \A m \in DigitsFor(n) + 1 .. Len(ret') - 1 : ret'[m] = Base64!Equals
    BY <1>16, <2>1, Zenon
  <2> HIDE DEF n
  <2> QED
    BY <1>14, <2>2, Zenon DEF Encoded
<1>18. \A m \in 1 .. DigitsFor(n) : ret'[m] = Sextet(input, m)
  BY <1>10, <1>15, Zenon
<1>19. EncodingInv'
  <2>1. /\ Encoded(ret', Len(input'))
        /\ \A m \in 1 .. DigitsFor(Len(input')) : ret'[m] = Sextet(input', m)
    BY <1>1, <1>17, <1>18
  <2> QED
    BY <1>1, <1>3, <1>4, <2>1 DEF EncodingInv
<1>20. \A m \in 1 .. Len(ret') : ret'[m] \notin {Base64!Minus, Base64!Underscore}
  <2>1. \A m \in 1 .. Len(ret') : \/ m \in 1 .. 4 * g + k
                                  \/ m \in 4 * g + k + 1 .. 4 * g + Len(x)
                                  \/ m = Len(mid) + 1
    <3>1. k \in 0 .. 4 /\ k <= Len(x) /\ Len(ret') = Len(mid) + 1 /\ Len(mid) = 4 * g + Len(x)
      BY <1>10, <1>11, <1>12, Zenon
    <3> QED
      BY <1>13, <3>1
  <2>2. \A m \in 1 .. Len(ret') : ret'[m] \in Sextets \cup {Base64!Equals, Base64!Nul}
    BY <1>12, <1>15, <1>16, <2>1, Zenon
  <2>3. /\ Base64!Minus \notin Sextets /\ Base64!Underscore \notin Sextets
        /\ Base64!Equals \notin {Base64!Minus, Base64!Underscore}
        /\ Base64!Nul \notin {Base64!Minus, Base64!Underscore}
    BY CharacterFacts, Zenon
  <2> QED
    BY <2>2, <2>3
<1>21. i' \in 0 .. Len(input')
  BY <1>1, <1>3
<1> QED
  BY <1>1, <1>2, <1>3, <1>12, <1>19, <1>20, <1>21, EncodingTypesNext

\* t is s with every a replaced by c and every b by d.
Replaced(S, s, a, b, c, d, t) ==
  /\ t \in Seq(S) /\ Len(t) = Len(s)
  /\ \A k \in 1 .. Len(s) :
       t[k] = IF s[k] = a THEN c ELSE IF s[k] = b THEN d ELSE s[k]

LEMMA ReplaceFacts ==
  ASSUME NEW S, NEW s \in Seq(S), NEW a, NEW b, NEW c \in S, NEW d \in S
  PROVE  Replaced(S, s, a, b, c, d, Base64!Replace(s, <<a, b>>, <<c, d>>))
<1> DEFINE t == Base64!Replace(s, <<a, b>>, <<c, d>>)
           New(x) == IF x = a THEN c ELSE IF x = b THEN d ELSE x
<1>1. t = [k \in 1 .. Len(s) |-> New(s[k])]
  BY DEF Base64!Replace
<1>2. ASSUME NEW k \in 1 .. Len(s)
      PROVE  New(s[k]) \in S
  <2>1. s[k] \in S
    BY <1>2, ElementOfSeq, Zenon
  <2> QED
    BY <2>1
<1> HIDE DEF t
<1>3. t \in [1 .. Len(s) -> S] /\ Len(s) \in Nat /\ \A k \in 1 .. Len(s) : t[k] = New(s[k])
  BY <1>1, <1>2
<1>4. t \in Seq(S) /\ Len(t) = Len(s)
  BY <1>3, SeqDef, LenProperties
<1> QED
  BY <1>3, <1>4, Zenon DEF t, Replaced

\* Plus and slash become minus and underscore; no other sign changes.
LEMMA WebEncoded ==
  ASSUME Base64Inv, Base64!WebEncode
  PROVE  Base64Inv'
<1> DEFINE n == Len(input)
<1>1. /\ phase = "webencode" /\ phase' = "encoded"
      /\ input' = input /\ i' = i /\ size' = size
      /\ ret' = Base64!Replace(ret, <<Base64!Plus, Base64!Slash>>,
                                    <<Base64!Minus, Base64!Underscore>>)
  BY DEF Base64!WebEncode
<1>2. phase \in Base64!Encoding /\ phase' \in Base64!Encoding
  BY <1>1 DEF Base64!Encoding
<1>3. /\ EncodingInv /\ input \in Seq(Byte) /\ input \in Seq(Octets)
      /\ i \in 0 .. n /\ ret \in Seq(Written) /\ size \in Nat
  BY <1>2, EncodingTypes
<1>4. /\ size = Base64!EncodedSize(n) /\ Encoded(ret, n)
      /\ \A m \in 1 .. DigitsFor(n) : ret[m] = Sextet(input, m)
  BY <1>1, <1>3 DEF EncodingInv
<1>5. /\ ret' \in Seq(Written) /\ Len(ret') = Len(ret)
      /\ \A k \in 1 .. Len(ret) :
           ret'[k] = IF ret[k] = Base64!Plus THEN Base64!Minus
                     ELSE IF ret[k] = Base64!Slash THEN Base64!Underscore ELSE ret[k]
  <2>1. Base64!Minus \in Written /\ Base64!Underscore \in Written
    BY CharacterFacts, Zenon
  <2>2. Replaced(Written, ret, Base64!Plus, Base64!Slash, Base64!Minus, Base64!Underscore, ret')
    BY <1>1, <1>3, <2>1, ReplaceFacts, Zenon
  <2> QED
    BY <2>2, Zenon DEF Replaced
<1>6. /\ Len(ret) = 4 * ((n + 2) \div 3) + 1
      /\ \A m \in DigitsFor(n) + 1 .. Len(ret) - 1 : ret[m] = Base64!Equals
      /\ ret[Len(ret)] = Base64!Nul
  BY <1>4, Zenon DEF Encoded
<1>7. n \in Nat /\ DigitsFor(n) \in Nat /\ DigitsFor(n) < Len(ret) /\ Len(ret) \in Nat
  BY <1>3, <1>6 DEF DigitsFor
<1>8. /\ Base64!Equals \notin {Base64!Plus, Base64!Slash}
      /\ Base64!Nul \notin {Base64!Plus, Base64!Slash}
  BY CharacterFacts
<1>9. Encoded(ret', n)
  <2>1. \A m \in DigitsFor(n) + 1 .. Len(ret) - 1 : m \in 1 .. Len(ret)
    BY <1>7
  <2>2. \A m \in DigitsFor(n) + 1 .. Len(ret) - 1 : ret'[m] = Base64!Equals
    BY <1>5, <1>6, <1>8, <2>1
  <2>3. Len(ret) \in 1 .. Len(ret)
    BY <1>7
  <2>4. ret'[Len(ret)] = Base64!Nul
    BY <1>5, <1>6, <1>8, <2>3
  <2> QED
    BY <1>5, <1>6, <2>2, <2>4, Zenon DEF Encoded
<1>10. ASSUME NEW m \in 1 .. DigitsFor(n)
       PROVE  ret'[m] = IF Sextet(input, m) = Base64!Plus THEN Base64!Minus
                        ELSE IF Sextet(input, m) = Base64!Slash THEN Base64!Underscore
                        ELSE Sextet(input, m)
  <2>1. m \in 1 .. Len(ret)
    BY <1>7
  <2>2. ret[m] = Sextet(input, m)
    BY <1>4, Zenon
  <2> QED
    BY <1>5, <2>1, <2>2
<1>11. EncodingInv'
  <2>1. \A m \in 1 .. DigitsFor(Len(input')) :
          ret'[m] = IF Sextet(input', m) = Base64!Plus THEN Base64!Minus
                    ELSE IF Sextet(input', m) = Base64!Slash THEN Base64!Underscore
                    ELSE Sextet(input', m)
    BY <1>1, <1>10
  <2>2. Encoded(ret', Len(input')) /\ size' = Base64!EncodedSize(Len(input'))
    BY <1>1, <1>4, <1>9
  <2> QED
    BY <1>1, <1>3, <2>1, <2>2 DEF EncodingInv
<1>12. phase' \notin {"groups", "webencode"} /\ i' \in 0 .. Len(input')
  BY <1>1, <1>3
<1> QED
  BY <1>1, <1>2, <1>3, <1>5, <1>11, <1>12, EncodingTypesNext

\* How many known characters a string begins with.
LEMMA KnownFacts ==
  ASSUME NEW s \in Seq(Written)
  PROVE  /\ Base64!Known(s) \in 0 .. Len(s)
         /\ \A k \in 1 .. Base64!Known(s) : s[k] \in Sextets
         /\ Base64!Known(s) < Len(s) => s[Base64!Known(s) + 1] \notin Sextets
<1> DEFINE N == Len(s)
           First(n) == /\ \A k \in 1 .. n : s[k] < 64
                       /\ n = N \/ s[n + 1] >= 64
           places == {n \in 0 .. N : n = N \/ s[n + 1] >= 64}
           known == Base64!Known(s)
<1>1. N \in Nat
  OBVIOUS
<1>2. \A k \in 1 .. N : s[k] \in Written
  BY ElementOfSeq, Zenon
<1>3. PICK n \in places : \A m \in places : n <= m
  <2>1. places \subseteq Nat /\ N \in places
    BY <1>1
  <2> HIDE DEF places
  <2> QED
    BY <2>1, LeastElement
<1>4. n \in 0 .. N /\ (n = N \/ s[n + 1] >= 64)
  BY <1>3
<1>5. ASSUME NEW k \in 1 .. n
      PROVE  s[k] < 64
  <2>1. k - 1 \in 0 .. N /\ k - 1 # N /\ ~ (n <= k - 1) /\ k \in 1 .. N /\ (k - 1) + 1 = k
    BY <1>1, <1>4
  <2>2. k - 1 \notin places
    BY <1>3, <2>1, Zenon
  <2>3. ~ (s[k] >= 64)
    BY <2>1, <2>2
  <2>4. s[k] \in Written
    BY <1>2, <2>1, Zenon
  <2>5. \A v \in Written : ~ (v >= 64) => v < 64
    BY DEF Written
  <2> QED
    BY <2>3, <2>4, <2>5, Zenon
<1>6. First(n)
  BY <1>4, <1>5
<1>7. known = CHOOSE m \in 0 .. N : First(m)
  <2>1. Base64!Digits = 64
    BY CharacterFacts
  <2> QED
    BY <2>1 DEF Base64!Known
<1> HIDE DEF First, known
<1>8. known \in 0 .. N /\ First(known)
  BY <1>4, <1>6, <1>7, Zenon
<1>9. /\ \A k \in 1 .. known : s[k] < 64
      /\ known = N \/ s[known + 1] >= 64
  BY <1>8 DEF First
<1> HIDE DEF N
<1>10. ASSUME NEW k \in 1 .. known
       PROVE  s[k] \in Sextets
  <2>1. k \in 1 .. N
    BY <1>1, <1>8
  <2>2. s[k] \in Written /\ s[k] < 64
    BY <1>2, <1>9, <2>1, Zenon
  <2>3. \A v \in Written : v < 64 => v \in Sextets
    BY DEF Sextets, Written
  <2> QED
    BY <2>2, <2>3, Zenon
<1>11. ASSUME known < N
       PROVE  s[known + 1] \notin Sextets
  <2>1. known # N /\ known + 1 \in 1 .. N
    BY <1>1, <1>8, <1>11
  <2>2. s[known + 1] >= 64
    BY <1>9, <2>1, Zenon
  <2>3. \A v \in Sextets : ~ (v >= 64)
    BY DEF Sextets
  <2> QED
    BY <2>2, <2>3, Zenon
<1> QED
  BY <1>8, <1>10, <1>11, Zenon DEF known, N

\* There is no other such number.
LEMMA KnownIs ==
  ASSUME NEW s \in Seq(Written), NEW n \in 0 .. Len(s),
         \A k \in 1 .. n : s[k] \in Sextets,
         n < Len(s) => s[n + 1] \notin Sextets
  PROVE  Base64!Known(s) = n
<1> DEFINE known == Base64!Known(s)
<1>1. /\ known \in 0 .. Len(s) /\ \A k \in 1 .. known : s[k] \in Sextets
      /\ known < Len(s) => s[known + 1] \notin Sextets
  BY KnownFacts
<1> HIDE DEF known
<1>2. ~ (known < n)
  BY <1>1
<1>3. ~ (n < known)
  BY <1>1
<1> QED
  BY <1>1, <1>2, <1>3 DEF known

\* Digits that are those of their places have the bits of the bytes, and zeros.
LEMMA EncodedBits ==
  ASSUME NEW s \in Seq(Octets), NEW digits \in Seq(Sextets),
         Len(digits) = DigitsFor(Len(s)),
         \A m \in 1 .. Len(digits) : digits[m] = Sextet(s, m),
         NEW k \in 0 .. Len(digits) * 6 - 1
  PROVE  Base64!Bit(digits, 6, k) = IF k < Len(s) * 8 THEN Base64!Bit(s, 8, k) ELSE 0
<1> DEFINE g == k \div 24
           r == k % 24
           x == Padded(s, 3 * g + 1)
           y == Padded(s, 3 * g + 2)
           z == Padded(s, 3 * g + 3)
           four == <<Base64!First(x), Base64!Second(x, y), Base64!Third(y, z), Base64!Fourth(z)>>
           three == <<x, y, z>>
<1>1. /\ g \in Nat /\ r \in 0 .. 23 /\ k = 24 * g + r /\ k \in Nat
      /\ Len(digits) \in Nat /\ Len(s) \in Nat
  OBVIOUS
<1> HIDE DEF g, r
<1>2. /\ k \div 6 = 4 * g + (r \div 6) /\ k % 6 = r % 6
      /\ k \div 8 = 3 * g + (r \div 8) /\ k % 8 = r % 8
      /\ r \div 6 \in 0 .. 3 /\ r \div 8 \in 0 .. 2 /\ r % 6 \in 0 .. 5 /\ r % 8 \in 0 .. 7
  BY <1>1
<1>3. x \in Octets /\ y \in Octets /\ z \in Octets
  <2>1. /\ 3 * g + 1 \in Nat \ {0} /\ 3 * g + 2 \in Nat \ {0} /\ 3 * g + 3 \in Nat \ {0}
        /\ 0 \in Octets
    BY <1>1 DEF Octets
  <2> QED
    BY <2>1, PaddedFacts, Zenon
<1>4. digits[(k \div 6) + 1] = four[(r \div 6) + 1]
  <2> DEFINE a == r \div 6
  <2>1. a \in 0 .. 3 /\ (k \div 6) + 1 = 4 * g + a + 1 /\ (k \div 6) + 1 \in 1 .. Len(digits)
    BY <1>1, <1>2
  <2> HIDE DEF a
  <2>2. digits[(k \div 6) + 1] = InGroup(s, g, a)
    <3>1. Sextet(s, 4 * g + a + 1) = InGroup(s, g, a)
      BY <1>1, <2>1, SextetFacts, Zenon
    <3> QED
      BY <2>1, <3>1, Zenon
  <2>3. InGroup(s, g, a) = four[a + 1]
    <3>1. a = 0 \/ a = 1 \/ a = 2 \/ a = 3
      BY <2>1
    <3>2. /\ InGroup(s, g, 0) = four[1] /\ InGroup(s, g, 1) = four[2]
          /\ InGroup(s, g, 2) = four[3] /\ InGroup(s, g, 3) = four[4]
      BY DEF InGroup
    <3> HIDE DEF four
    <3> QED
      BY <3>1, <3>2
  <2> QED
    BY <2>2, <2>3 DEF a
<1>5. Base64!Bit(digits, 6, k) = Base64!Bit(four, 6, r)
  <2> HIDE DEF four
  <2> QED
    BY <1>2, <1>4, Zenon DEF Base64!Bit
<1>6. Base64!Bit(four, 6, r) = Base64!Bit(three, 8, r)
  <2> HIDE DEF x, y, z
  <2> QED
    BY <1>1, <1>3, BitsOfDigits, Zenon
<1>7. three[(r \div 8) + 1] = Padded(s, (k \div 8) + 1)
  <2> DEFINE a == r \div 8
  <2>1. (a = 0 \/ a = 1 \/ a = 2) /\ (k \div 8) + 1 = 3 * g + a + 1
    BY <1>1, <1>2
  <2> HIDE DEF a
  <2>2. /\ three[1] = Padded(s, 3 * g + 1) /\ three[2] = Padded(s, 3 * g + 2)
        /\ three[3] = Padded(s, 3 * g + 3)
    OBVIOUS
  <2> HIDE DEF three
  <2>3. three[a + 1] = Padded(s, 3 * g + a + 1)
    BY <1>1, <2>1, <2>2
  <2> QED
    BY <2>1, <2>3 DEF a
<1>8. Base64!Bit(three, 8, r) = (Padded(s, (k \div 8) + 1) \div Base64!Power[8 - (k % 8)]) % 2
  <2> HIDE DEF three
  <2> QED
    BY <1>2, <1>7, Zenon DEF Base64!Bit
<1>9. CASE k < Len(s) * 8
  <2>1. (k \div 8) + 1 <= Len(s)
    BY <1>1, <1>9
  <2>2. Padded(s, (k \div 8) + 1) = s[(k \div 8) + 1]
    BY <2>1, Zenon DEF Padded
  <2> QED
    BY <1>5, <1>6, <1>8, <1>9, <2>2, Zenon DEF Base64!Bit
<1>10. CASE ~ (k < Len(s) * 8)
  <2>1. ~ ((k \div 8) + 1 <= Len(s))
    BY <1>1, <1>10
  <2>2. Padded(s, (k \div 8) + 1) = 0
    BY <2>1, Zenon DEF Padded
  <2>3. (0 \div Base64!Power[8 - (k % 8)]) % 2 = 0
    <3> DEFINE b == 8 - (k % 8)
    <3>1. b \in {1, 2, 3, 4, 5, 6, 7, 8}
      BY <1>1
    <3> HIDE DEF b
    <3>2. (0 \div Base64!Power[b]) % 2 = 0
      BY <3>1 DEF Base64!Power
    <3> QED
      BY <3>2 DEF b
  <2> QED
    BY <1>5, <1>6, <1>8, <1>10, <2>2, <2>3, Zenon
<1> QED
  BY <1>9, <1>10

LEMMA EncodedHolds ==
  ASSUME Base64Inv
  PROVE  Base64!EncodedRight
<1> SUFFICES ASSUME phase = "encoded"
             PROVE  Base64!EncodedRight
  BY DEF Base64!EncodedRight
<1> DEFINE n == Len(input)
           N == Len(ret)
           d == DigitsFor(n)
           chars == Base64!Replace(ret, <<Base64!Minus, Base64!Underscore>>,
                                        <<Base64!Plus, Base64!Slash>>)
           digits == SubSeq(chars, 1, Base64!Known(chars))
           signs == N - 1 - Len(digits)
           tail == SubSeq(ret, Len(digits) + 1, N)
           end == [k \in 1 .. signs |-> Base64!Equals] \o <<Base64!Nul>>
<1>1. phase \in Base64!Encoding
  BY DEF Base64!Encoding
<1>2. /\ EncodingInv /\ input \in Seq(Octets) /\ ret \in Seq(Written)
  BY <1>1, EncodingTypes
<1>3. /\ Base64!Plus = 62 /\ Base64!Slash = 63 /\ Base64!Minus = 64
      /\ Base64!Underscore = 65 /\ Base64!Equals = 66 /\ Base64!Nul = 68
  BY CharacterFacts
<1> DEFINE Signed(c) == IF c = Base64!Plus THEN Base64!Minus
                        ELSE IF c = Base64!Slash THEN Base64!Underscore ELSE c
           Plain(c) == IF c = Base64!Minus THEN Base64!Plus
                       ELSE IF c = Base64!Underscore THEN Base64!Slash ELSE c
<1>4. /\ Encoded(ret, n)
      /\ \A m \in 1 .. d : ret[m] = Signed(Sextet(input, m))
  BY <1>2 DEF EncodingInv
<1>5. /\ N = 4 * ((n + 2) \div 3) + 1
      /\ \A m \in d + 1 .. N - 1 : ret[m] = Base64!Equals
      /\ ret[N] = Base64!Nul
  BY <1>4, Zenon DEF Encoded
<1>6. n \in Nat /\ d \in Nat /\ N \in Nat /\ N - 1 - d \in 0 .. 2 /\ d * 6 - n * 8 \in 0 .. 5
  <2>1. n \in Nat /\ N = 4 * ((n + 2) \div 3) + 1
    BY <1>2, <1>5
  <2> DEFINE q == (n + 2) \div 3
  <2>2. q \in Nat /\ 3 * q - n \in 0 .. 2
    BY <2>1
  <2>3. d = n + q /\ N = 4 * q + 1
    BY <2>1 DEF DigitsFor
  <2> HIDE DEF q, d, n, N
  <2> QED
    BY <2>1, <2>2, <2>3
<1>7. /\ chars \in Seq(Written) /\ Len(chars) = N
      /\ \A k \in 1 .. N : chars[k] = Plain(ret[k])
  <2>1. Base64!Plus \in Written /\ Base64!Slash \in Written
    BY <1>3 DEF Written
  <2>2. Replaced(Written, ret, Base64!Minus, Base64!Underscore, Base64!Plus, Base64!Slash, chars)
    BY <1>2, <2>1, ReplaceFacts, Zenon
  <2> HIDE DEF chars
  <2> QED
    BY <2>2, Zenon DEF Replaced
<1> HIDE DEF chars, d, Signed, Plain
<1>8. ASSUME NEW m \in 1 .. d
      PROVE  /\ chars[m] = Sextet(input, m) /\ chars[m] \in Sextets
             /\ ret[m] \notin {Base64!Plus, Base64!Slash}
  <2>1. m \in 1 .. N /\ m \in Nat \ {0}
    BY <1>6
  <2>2. Sextet(input, m) \in Sextets
    BY <1>2, <2>1, SextetIsDigit, Zenon
  <2>3. chars[m] = Plain(ret[m]) /\ ret[m] = Signed(Sextet(input, m))
    BY <1>4, <1>7, <2>1, Zenon
  <2>4. ASSUME NEW c \in Sextets
        PROVE  Plain(Signed(c)) = c /\ Signed(c) \notin {Base64!Plus, Base64!Slash}
    BY <1>3 DEF Plain, Signed, Sextets
  <2> QED
    BY <2>2, <2>3, <2>4, Zenon
<1>9. ASSUME NEW m \in d + 1 .. N
      PROVE  ret[m] \in {Base64!Equals, Base64!Nul} /\ chars[m] \notin Sextets
  <2>1. m \in 1 .. N /\ (m \in d + 1 .. N - 1 \/ m = N)
    BY <1>6
  <2>2. ret[m] = Base64!Equals \/ ret[m] = Base64!Nul
    BY <1>5, <2>1, Zenon
  <2>3. chars[m] = Plain(ret[m])
    BY <1>7, <2>1, Zenon
  <2>4. Plain(Base64!Equals) \notin Sextets /\ Plain(Base64!Nul) \notin Sextets
    BY <1>3 DEF Plain, Sextets
  <2> QED
    BY <2>2, <2>3, <2>4, Zenon
<1>10. Base64!Known(chars) = d
  <2>1. d \in 0 .. Len(chars) /\ d + 1 \in d + 1 .. N
    BY <1>6, <1>7
  <2>2. \A k \in 1 .. d : chars[k] \in Sextets
    BY <1>8
  <2>3. d < Len(chars) => chars[d + 1] \notin Sextets
    BY <1>9, <2>1
  <2> QED
    BY <1>7, <2>1, <2>2, <2>3, KnownIs, Zenon
<1>11. /\ Len(digits) = d /\ digits \in Seq(Sextets)
       /\ \A m \in 1 .. d : digits[m] = Sextet(input, m)
  <2> DEFINE part == SubSeq(chars, 1, d)
  <2>1. 1 \in 1 .. Len(chars) + 1 /\ d \in 1 - 1 .. Len(chars) /\ d - 1 + 1 = d
    BY <1>6, <1>7
  <2>2. /\ part \in Seq(Written) /\ Len(part) = d
        /\ \A k \in 1 .. d : part[k] = chars[1 + k - 1]
    <3>1. PICK one \in 1 .. Len(chars) + 1 : one = 1
      BY <2>1
    <3>2. d \in one - 1 .. Len(chars)
      BY <2>1, <3>1
    <3>3. /\ SubSeq(chars, one, d) \in Seq(Written) /\ Len(SubSeq(chars, one, d)) = d - one + 1
          /\ \A k \in 1 .. d - one + 1 : SubSeq(chars, one, d)[k] = chars[one + k - 1]
      BY <1>7, <3>2, PartOf, Zenon
    <3> QED
      BY <2>1, <3>1, <3>3, Zenon
  <2>3. digits = part
    BY <1>10
  <2> HIDE DEF part, digits
  <2>4. \A m \in 1 .. d : 1 + m - 1 = m
    BY <1>6
  <2>5. \A m \in 1 .. d : part[m] = Sextet(input, m) /\ part[m] \in Sextets
    BY <1>8, <2>2, <2>4, Zenon
  <2>6. part \in [1 .. d -> Sextets]
    <3>1. part = [m \in 1 .. Len(part) |-> part[m]]
      BY <2>2
    <3> QED
      BY <2>2, <2>5, <3>1, Zenon
  <2>7. part \in Seq(Sextets)
    BY <1>6, <2>6, SeqDef
  <2> QED
    BY <2>2, <2>3, <2>5, <2>7, Zenon
<1> HIDE DEF digits
<1>12. Len(digits) * 6 - n * 8 \in 0 .. 5
  BY <1>6, <1>11
<1>13. \A k \in 0 .. Len(digits) * 6 - 1 :
         Base64!Bit(digits, 6, k) = IF k < n * 8 THEN Base64!Bit(input, 8, k) ELSE 0
  <2>1. Len(digits) = DigitsFor(Len(input))
    BY <1>11 DEF d
  <2>2. \A m \in 1 .. Len(digits) : digits[m] = Sextet(input, m)
    BY <1>11
  <2> QED
    BY <1>2, <1>11, <2>1, <2>2, EncodedBits, Zenon
<1>14. signs \in 0 .. 2 /\ (N - 1) % 4 = 0
  <2>1. (N - 1) % 4 = 0
    BY <1>5, <1>6
  <2> QED
    BY <1>6, <1>11, <2>1
<1>15. tail = end
  <2> DEFINE equals == [k \in 1 .. signs |-> Base64!Equals]
             last == <<Base64!Nul>>
  <2>1. d + 1 \in 1 .. N + 1 /\ N \in (d + 1) - 1 .. N /\ N - (d + 1) + 1 = signs + 1
    BY <1>6, <1>11
  <2>2. /\ tail \in Seq(Written) /\ Len(tail) = signs + 1
        /\ \A k \in 1 .. signs + 1 : tail[k] = ret[(d + 1) + k - 1]
    <3>1. /\ SubSeq(ret, d + 1, N) \in Seq(Written) /\ Len(SubSeq(ret, d + 1, N)) = N - (d + 1) + 1
          /\ \A k \in 1 .. N - (d + 1) + 1 : SubSeq(ret, d + 1, N)[k] = ret[(d + 1) + k - 1]
      BY <1>2, <2>1, PartOf, Zenon
    <3> QED
      BY <1>11, <2>1, <3>1, Zenon
  <2> HIDE DEF signs
  <2>3. /\ equals \in Seq(Written) /\ Len(equals) = signs
        /\ \A k \in 1 .. signs : equals[k] = Base64!Equals
    <3>1. Base64!Equals \in Written /\ signs \in Nat
      BY <1>14, CharacterFacts
    <3>2. equals \in [1 .. signs -> Written]
      BY <3>1
    <3>3. equals \in Seq(Written) /\ Len(equals) = signs
      BY <3>1, <3>2, SeqDef, LenProperties
    <3> QED
      BY <3>3
  <2>4. last \in Seq(Written) /\ Len(last) = 1 /\ last[1] = Base64!Nul /\ 1 \in 1 .. 1
    BY CharacterFacts
  <2>5. end = equals \o last
    OBVIOUS
  <2> HIDE DEF equals, last, end, tail
  <2>6. /\ end \in Seq(Written) /\ Len(end) = signs + 1
        /\ \A k \in 1 .. signs : end[k] = Base64!Equals
        /\ end[signs + 1] = Base64!Nul
    <3>1. Follows(Written, equals, last, end)
      BY <2>3, <2>4, <2>5, Joined, Zenon
    <3> QED
      BY <2>3, <2>4, <3>1, Zenon DEF Follows
  <2>7. ASSUME NEW k \in 1 .. signs + 1
        PROVE  tail[k] = end[k]
    <3>1. CASE k = signs + 1
      <4>1. (d + 1) + k - 1 = N
        BY <1>6, <2>1, <3>1
      <4> QED
        BY <1>5, <2>2, <2>6, <3>1, <4>1, Zenon
    <3>2. CASE k # signs + 1
      <4>1. k \in 1 .. signs
        BY <1>14, <3>2
      <4>2. (d + 1) + k - 1 \in d + 1 .. N - 1
        BY <1>6, <1>14, <2>1, <4>1
      <4> QED
        BY <1>5, <2>2, <2>6, <4>1, <4>2, Zenon
    <3> QED
      BY <3>1, <3>2
  <2> QED
    BY <2>2, <2>6, <2>7, SeqEqual, Zenon
<1>16. Base64!ToSet(ret) \cap {Base64!Plus, Base64!Slash} = {}
  <2>1. Base64!ToSet(ret) = {ret[m] : m \in 1 .. N}
    BY <1>2 DEF Base64!ToSet
  <2>2. \A m \in 1 .. N : m \in 1 .. d \/ m \in d + 1 .. N
    BY <1>6
  <2>3. \A m \in 1 .. N : ret[m] \notin {Base64!Plus, Base64!Slash}
    <3>1. \A m \in d + 1 .. N : ret[m] \notin {Base64!Plus, Base64!Slash}
      BY <1>3, <1>9
    <3> QED
      BY <1>8, <2>2, <3>1, Zenon
  <2> QED
    BY <2>1, <2>3
<1> QED
  <2>1. /\ Len(digits) * 6 - Len(input) * 8 \in 0 .. 5
        /\ \A k \in 0 .. Len(digits) * 6 - 1 :
             Base64!Bit(digits, 6, k) = IF k < Len(input) * 8 THEN Base64!Bit(input, 8, k) ELSE 0
        /\ signs \in 0 .. 2 /\ (Len(ret) - 1) % 4 = 0
        /\ SubSeq(ret, Len(digits) + 1, Len(ret))
             = [k \in 1 .. signs |-> Base64!Equals] \o <<Base64!Nul>>
        /\ Base64!ToSet(ret) \cap {Base64!Plus, Base64!Slash} = {}
    BY <1>12, <1>13, <1>14, <1>15, <1>16, Zenon
  <2> QED
    BY <2>1, Zenon DEF Base64!EncodedRight, digits, chars

LEMMA WebDecoded ==
  ASSUME Base64Inv, Base64!WebDecode
  PROVE  Base64Inv'
<1>1. /\ phase = "webdecode" /\ phase' = "pad" /\ i' = i /\ ret' = ret /\ size' = size
      /\ input' = Base64!Replace(input, <<Base64!Minus, Base64!Underscore>>,
                                        <<Base64!Plus, Base64!Slash>>)
  BY DEF Base64!WebDecode
<1>2. phase \in Base64!Decoding /\ phase' \in Base64!Decoding
  BY <1>1 DEF Base64!Decoding
<1>3. /\ DecodingInv /\ input \in Seq(Coded) /\ ret \in Seq(Octets) /\ size \in Nat
  BY <1>2, DecodingTypes
<1>4. i = 0 /\ ret = <<>>
  BY <1>1, <1>3 DEF DecodingInv
<1>5. input' \in Seq(Coded)
  <2> DEFINE a == Base64!Minus
             b == Base64!Underscore
             c == Base64!Plus
             d == Base64!Slash
  <2>1. c \in Coded /\ d \in Coded
    BY CharacterFacts
  <2> HIDE DEF a, b, c, d
  <2>2. Replaced(Coded, input, a, b, c, d, Base64!Replace(input, <<a, b>>, <<c, d>>))
    BY <1>3, <2>1, ReplaceFacts, Zenon
  <2> QED
    BY <1>1, <2>2, Zenon DEF a, b, c, d, Replaced
<1>6. i' \in 0 .. Len(input')
  BY <1>1, <1>4, <1>5
<1>7. DecodingInv'
  <2>1. input' \in Seq(0 .. Base64!Other)
    BY <1>5, CharacterFacts
  <2> QED
    BY <1>1, <1>4, <2>1 DEF DecodingInv
<1> QED
  BY <1>1, <1>2, <1>3, <1>5, <1>6, <1>7, DecodingTypesNext

LEMMA PadAdded ==
  ASSUME Base64Inv, Base64!Pad
  PROVE  Base64Inv'
<1> DEFINE three == <<Base64!Equals, Base64!Equals, Base64!Equals>>
           n == (4 - (Len(input) % 4)) % 4
           signs == SubSeq(three, 1, n)
<1>1. /\ phase = "pad" /\ phase' = "size" /\ i' = i /\ ret' = ret /\ size' = size
      /\ input' = input \o signs
  BY DEF Base64!Pad
<1>2. phase \in Base64!Decoding /\ phase' \in Base64!Decoding
  BY <1>1 DEF Base64!Decoding
<1>3. /\ DecodingInv /\ input \in Seq(Coded) /\ ret \in Seq(Octets) /\ size \in Nat
  BY <1>2, DecodingTypes
<1>4. i = 0 /\ ret = <<>>
  BY <1>1, <1>3 DEF DecodingInv
<1>5. signs \in Seq(Coded)
  <2>1. n \in 0 .. 3
    BY <1>3
  <2>2. Base64!Equals \in Coded
    BY CharacterFacts
  <2>3. three \in Seq(Coded) /\ Len(three) = 3
    BY <2>2
  <2> HIDE DEF n, three
  <2>4. PICK one \in 1 .. Len(three) + 1 : one = 1
    BY <2>3
  <2>5. n \in one - 1 .. Len(three)
    BY <2>1, <2>3, <2>4
  <2>6. SubSeq(three, one, n) \in Seq(Coded)
    BY <2>3, <2>5, PartOf, Zenon
  <2> QED
    BY <2>4, <2>6, Zenon
<1> HIDE DEF signs
<1>6. input' \in Seq(Coded)
  <2>1. Follows(Coded, input, signs, input \o signs)
    BY <1>3, <1>5, Joined, Zenon
  <2> QED
    BY <1>1, <2>1, Zenon DEF Follows
<1>7. i' \in 0 .. Len(input')
  BY <1>1, <1>4, <1>6
<1>8. DecodingInv'
  <2>1. input' \in Seq(0 .. Base64!Other)
    BY <1>6, CharacterFacts
  <2> QED
    BY <1>1, <1>4, <2>1 DEF DecodingInv
<1> QED
  BY <1>1, <1>2, <1>3, <1>6, <1>7, <1>8, DecodingTypesNext

\* The known digits are the characters up to the first that is unknown.
LEMMA KnownDigitsFacts ==
  ASSUME input \in Seq(Coded)
  PROVE  /\ Base64!Known(input) \in 0 .. Len(input)
         /\ KnownDigits \in Seq(Sextets) /\ Len(KnownDigits) = Base64!Known(input)
         /\ \A k \in 1 .. Base64!Known(input) : KnownDigits[k] = input[k]
<1> DEFINE K == Base64!Known(input)
<1>1. Coded \subseteq Written /\ Len(input) \in Nat
  BY CharacterFacts
<1>2. input \in Seq(Written)
  BY <1>1, Widened, Zenon
<1>3. K \in 0 .. Len(input) /\ \A k \in 1 .. K : input[k] \in Sextets
  BY <1>2, KnownFacts
<1> HIDE DEF K
<1>4. PICK one \in 1 .. Len(input) + 1 : one = 1
  BY <1>1
<1>5. K \in one - 1 .. Len(input) /\ K - one + 1 = K /\ \A k \in 1 .. K : one + k - 1 = k
  BY <1>1, <1>3, <1>4
<1>6. KnownDigits = SubSeq(input, one, K)
  BY <1>4 DEF KnownDigits, K
<1>7. /\ SubSeq(input, one, K) \in Seq(Written) /\ Len(SubSeq(input, one, K)) = K - one + 1
      /\ \A k \in 1 .. K - one + 1 : SubSeq(input, one, K)[k] = input[one + k - 1]
  BY <1>2, <1>5, PartOf, Zenon
<1>8. /\ KnownDigits \in Seq(Written) /\ Len(KnownDigits) = K
      /\ \A k \in 1 .. K : KnownDigits[k] = input[k]
  BY <1>5, <1>6, <1>7, Zenon
<1>9. KnownDigits \in Seq(Sextets)
  <2>1. KnownDigits = [k \in 1 .. Len(KnownDigits) |-> KnownDigits[k]] /\ K \in Nat
    BY <1>1, <1>3, <1>8
  <2>2. KnownDigits \in [1 .. K -> Sextets]
    BY <1>3, <1>8, <2>1, Zenon
  <2> QED
    BY <2>1, <2>2, SeqDef
<1> QED
  BY <1>3, <1>8, <1>9 DEF K

LEMMA DecodingStarts ==
  ASSUME Base64Inv, Base64!StartDecoding
  PROVE  Base64Inv'
<1> DEFINE K == Base64!Known(input)
<1>1. /\ phase = "size" /\ phase' = "bytes" /\ i' = i /\ ret' = ret /\ input' = input
      /\ size' = Base64!DecodedSize(K)
  BY DEF Base64!StartDecoding
<1>2. phase \in Base64!Decoding /\ phase' \in Base64!Decoding
  BY <1>1 DEF Base64!Decoding
<1>3. DecodingInv /\ input \in Seq(Coded) /\ ret \in Seq(Octets) /\ i \in 0 .. Len(input)
  BY <1>2, DecodingTypes
<1>4. i = 0 /\ ret = <<>> /\ Len(ret) = 0
  BY <1>1, <1>3 DEF DecodingInv
<1>5. K \in 0 .. Len(input) /\ Len(input) \in Nat
  BY <1>3, KnownDigitsFacts
<1>6. size' \in Nat
  <2> HIDE DEF K
  <2> QED
    BY <1>1, <1>5 DEF Base64!DecodedSize
<1>7. DecodingInv'
  <2>1. input \in Seq(0 .. Base64!Other)
    BY <1>3 DEF DecodingInv
  <2>2. size' = Base64!DecodedSize(Base64!Known(input'))
    BY <1>1
  <2>3. \A m \in 1 .. Len(ret') : ret'[m] = Octet(KnownDigits', m)
    BY <1>1, <1>4
  <2>4. i' <= Base64!Known(input')
    BY <1>1, <1>4, <1>5
  <2>5. \E g \in Nat : i' = 4 * g /\ Len(ret') = 3 * g
    <3>1. 0 \in Nat /\ i' = 4 * 0 /\ Len(ret') = 3 * 0
      BY <1>1, <1>4
    <3> QED
      BY <3>1
  <2> QED
    BY <1>1, <1>3, <2>1, <2>2, <2>3, <2>4, <2>5 DEF DecodingInv
<1> QED
  BY <1>1, <1>2, <1>3, <1>6, <1>7, DecodingTypesNext

\* out has the first n bytes of s; t has the next, from byte p of group g.
BytesWritten(s, out, n) ==
  /\ out \in Seq(Octets) /\ Len(out) = n
  /\ \A m \in 1 .. Len(out) : out[m] = Octet(s, m)

BytesNext(s, n, t, g, p) ==
  /\ t \in Seq(Octets) /\ p \in 0 .. 3 /\ p + Len(t) <= 3 /\ n = 3 * g + p
  /\ \A r \in 0 .. Len(t) - 1 : t[r + 1] = InBytes(s, g, p + r)

\* What is appended are the next bytes of the group.
LEMMA MoreBytes ==
  ASSUME NEW s \in Seq(Sextets), NEW g \in Nat, NEW out, NEW n, NEW t, NEW p,
         BytesWritten(s, out, n), BytesNext(s, n, t, g, p)
  PROVE  BytesWritten(s, out \o t, n + Len(t))
<1> DEFINE all == out \o t
<1>1. /\ all \in Seq(Octets) /\ Len(all) = Len(out) + Len(t)
      /\ \A m \in 1 .. Len(out) : all[m] = out[m]
      /\ \A m \in 1 .. Len(t) : all[Len(out) + m] = t[m]
  <2>1. out \in Seq(Octets) /\ t \in Seq(Octets)
    BY Zenon DEF BytesWritten, BytesNext
  <2>2. Follows(Octets, out, t, all)
    BY <2>1, Joined, Zenon
  <2> QED
    BY <2>2, Zenon DEF Follows
<1>2. /\ Len(t) \in Nat /\ p \in 0 .. 3 /\ Len(out) = n /\ n = 3 * g + p
      /\ p + Len(t) <= 3
  BY DEF BytesWritten, BytesNext
<1> HIDE DEF all
<1>3. ASSUME NEW m \in 1 .. Len(all)
      PROVE  all[m] = Octet(s, m)
  <2>1. CASE m <= Len(out)
    <3>1. m \in 1 .. Len(out)
      BY <1>2, <2>1
    <3> QED
      BY <1>1, <3>1, Zenon DEF BytesWritten
  <2>2. CASE ~ (m <= Len(out))
    <3> DEFINE r == m - Len(out) - 1
               q == p + r
    <3>1. /\ r \in 0 .. Len(t) - 1 /\ q \in 0 .. 2 /\ r + 1 \in 1 .. Len(t)
          /\ m = 3 * g + q + 1 /\ m = Len(out) + (r + 1)
      BY <1>1, <1>2, <2>2
    <3>2. all[m] = InBytes(s, g, q)
      <4> HIDE DEF r
      <4> QED
        BY <1>1, <3>1, Zenon DEF BytesNext
    <3> HIDE DEF r, q
    <3>3. Octet(s, 3 * g + q + 1) = InBytes(s, g, q)
      BY <3>1, OctetFacts, Zenon
    <3> QED
      BY <3>1, <3>2, <3>3, Zenon
  <2> QED
    BY <2>1, <2>2
<1> QED
  BY <1>1, <1>2, <1>3, Zenon DEF all, BytesWritten

\* The next byte b follows if there are digits enough, or none.
NextOrNone(s, out, n, g, p, digits, least, b, all) ==
  /\ BytesWritten(s, out, n) /\ n \in Nat /\ p \in 0 .. 2
  /\ digits > least => n = 3 * g + p /\ b = InBytes(s, g, p)
  /\ all = out \o (IF digits > least THEN <<b>> ELSE <<>>)

LEMMA NextByte ==
  ASSUME NEW s \in Seq(Sextets), NEW g \in Nat, NEW out, NEW n, NEW p,
         NEW digits, NEW least, NEW b, NEW all,
         NextOrNone(s, out, n, g, p, digits, least, b, all)
  PROVE  BytesWritten(s, all, n + (IF digits > least THEN 1 ELSE 0))
<1>1. /\ BytesWritten(s, out, n) /\ n \in Nat /\ p \in 0 .. 2
      /\ digits > least => n = 3 * g + p /\ b = InBytes(s, g, p)
      /\ all = out \o (IF digits > least THEN <<b>> ELSE <<>>)
  BY Zenon DEF NextOrNone
<1>2. CASE digits > least
  <2> DEFINE t == <<b>>
  <2>1. b \in Octets
    BY <1>1, <1>2, OctetFacts
  <2>2. t \in Seq(Octets) /\ Len(t) = 1 /\ t[1] = b
    BY <2>1
  <2> HIDE DEF t
  <2>3. BytesNext(s, n, t, g, p)
    <3>1. \A r \in 0 .. Len(t) - 1 : r = 0 /\ r + 1 = 1 /\ p + r = p
      BY <1>1, <2>2
    <3>2. \A r \in 0 .. Len(t) - 1 : t[r + 1] = InBytes(s, g, p + r)
      BY <1>1, <1>2, <2>2, <3>1
    <3>3. p \in 0 .. 3 /\ p + Len(t) <= 3
      BY <1>1, <2>2
    <3> QED
      BY <1>1, <1>2, <2>2, <3>2, <3>3, Zenon DEF BytesNext
  <2>4. BytesWritten(s, out \o t, n + Len(t))
    BY <1>1, <2>3, MoreBytes, Zenon
  <2>5. all = out \o t
    BY <1>1, <1>2, Zenon DEF t
  <2> QED
    BY <1>2, <2>2, <2>4, <2>5, Zenon
<1>3. CASE ~ (digits > least)
  <2>1. out \in Seq(Octets)
    BY <1>1 DEF BytesWritten
  <2>2. all = out
    BY <1>1, <1>3, <2>1, ConcatEmptySeq
  <2>3. n = n + 0
    BY <1>1
  <2> QED
    BY <1>1, <1>3, <2>2, <2>3, Zenon
<1> QED
  BY <1>2, <1>3

LEMMA GroupDecoded ==
  ASSUME Base64Inv, Base64!DecodeGroup
  PROVE  Base64Inv'
<1> DEFINE K == Base64!Known(input)
           s == KnownDigits
           t == <<Base64!Upper(Base64!In(0), Base64!In(1)),
                  Base64!Centre(Base64!In(1), Base64!In(2)),
                  Base64!Lower(Base64!In(2), Base64!In(3))>>
<1>1. /\ phase = "bytes" /\ phase' = "bytes" /\ K - i > 4
      /\ input' = input /\ i' = i + 4 /\ size' = size
  BY DEF Base64!DecodeGroup, Base64!Remaining
<1>2. phase \in Base64!Decoding /\ phase' \in Base64!Decoding
  BY <1>1 DEF Base64!Decoding
<1>3. /\ DecodingInv /\ input \in Seq(Coded) /\ ret \in Seq(Octets)
      /\ i \in 0 .. Len(input) /\ size \in Nat
  BY <1>2, DecodingTypes
<1>4. size = Base64!DecodedSize(K) /\ \A m \in 1 .. Len(ret) : ret[m] = Octet(s, m)
  BY <1>1, <1>3 DEF DecodingInv
<1>5. PICK g \in Nat : i = 4 * g /\ Len(ret) = 3 * g
  BY <1>1, <1>3 DEF DecodingInv
<1>6. ret' = ret \o t
  BY DEF Base64!DecodeGroup
<1>7. /\ K \in 0 .. Len(input) /\ s \in Seq(Sextets) /\ Len(s) = K
      /\ \A k \in 1 .. K : s[k] = input[k]
  BY <1>3, KnownDigitsFacts
<1> HIDE DEF K, s
<1>8. /\ Base64!In(0) = Padded(s, 4 * g + 1) /\ Base64!In(1) = Padded(s, 4 * g + 2)
      /\ Base64!In(2) = Padded(s, 4 * g + 3) /\ Base64!In(3) = Padded(s, 4 * g + 4)
  <2>1. /\ 4 * g + 1 \in 1 .. K /\ 4 * g + 2 \in 1 .. K /\ 4 * g + 3 \in 1 .. K
        /\ 4 * g + 4 \in 1 .. K
    BY <1>1, <1>5, <1>7
  <2> QED
    BY <1>5, <1>7, <2>1 DEF Base64!In, Padded
<1>9. t = <<InBytes(s, g, 0), InBytes(s, g, 1), InBytes(s, g, 2)>>
  <2>1. /\ InBytes(s, g, 0) = Base64!Upper(Base64!In(0), Base64!In(1))
        /\ InBytes(s, g, 1) = Base64!Centre(Base64!In(1), Base64!In(2))
        /\ InBytes(s, g, 2) = Base64!Lower(Base64!In(2), Base64!In(3))
    BY <1>8 DEF InBytes
  <2> QED
    BY <2>1
<1> HIDE DEF t
<1>10. \A r \in 0 .. 2 : InBytes(s, g, r) \in Octets
  BY <1>7, OctetFacts
<1>11. t \in Seq(Octets) /\ Len(t) = 3 /\ \A r \in 0 .. 3 - 1 : t[r + 1] = InBytes(s, g, 0 + r)
  BY <1>9, <1>10
<1>12. /\ ret' \in Seq(Octets) /\ Len(ret') = 3 * g + 3
       /\ \A m \in 1 .. Len(ret') : ret'[m] = Octet(s, m)
  <2>1. BytesWritten(s, ret, 3 * g)
    BY <1>3, <1>4, <1>5, Zenon DEF BytesWritten
  <2>2. BytesNext(s, 3 * g, t, g, 0)
    <3>1. 0 \in 0 .. 3 /\ 0 + Len(t) <= 3 /\ 3 * g = 3 * g + 0 /\ Len(t) - 1 = 3 - 1
      BY <1>11
    <3> QED
      BY <1>11, <3>1, Zenon DEF BytesNext
  <2>3. BytesWritten(s, ret \o t, 3 * g + Len(t))
    BY <1>7, <2>1, <2>2, MoreBytes, Zenon
  <2> QED
    BY <1>6, <1>11, <2>3, Zenon DEF BytesWritten
<1>13. /\ g + 1 \in Nat /\ i' = 4 * (g + 1) /\ Len(ret') = 3 * (g + 1)
       /\ i' <= K /\ i' \in 0 .. Len(input')
  BY <1>1, <1>3, <1>5, <1>7, <1>12
<1>14. DecodingInv'
  <2>1. input \in Seq(0 .. Base64!Other)
    BY <1>3 DEF DecodingInv
  <2>2. Base64!Known(input') = K /\ KnownDigits' = s
    BY <1>1 DEF KnownDigits, K, s
  <2>3. \E n \in Nat : i' = 4 * n /\ Len(ret') = 3 * n
    BY <1>13
  <2> QED
    BY <1>1, <1>3, <1>4, <1>12, <1>13, <2>1, <2>2, <2>3 DEF DecodingInv
<1> QED
  BY <1>1, <1>2, <1>3, <1>12, <1>13, <1>14, DecodingTypesNext

LEMMA RestDecoded ==
  ASSUME Base64Inv, Base64!DecodeRest
  PROVE  Base64Inv'
<1> DEFINE K == Base64!Known(input)
           s == KnownDigits
           upper == Base64!Upper(Base64!In(0), Base64!In(1))
           centre == Base64!Centre(Base64!In(1), Base64!In(2))
           lower == Base64!Lower(Base64!In(2), Base64!In(3))
           one == ret \o (IF K - i > 1 THEN <<upper>> ELSE <<>>)
           two == one \o (IF K - i > 2 THEN <<centre>> ELSE <<>>)
<1>1. /\ phase = "bytes" /\ phase' = "decoded" /\ K - i <= 4
      /\ input' = input /\ i' = i /\ size' = size
  BY DEF Base64!DecodeRest, Base64!Remaining
<1>2. phase \in Base64!Decoding /\ phase' \in Base64!Decoding
  BY <1>1 DEF Base64!Decoding
<1>3. /\ DecodingInv /\ input \in Seq(Coded) /\ ret \in Seq(Octets)
      /\ i \in 0 .. Len(input) /\ size \in Nat
  BY <1>2, DecodingTypes
<1>4. /\ size = Base64!DecodedSize(K) /\ i <= K
      /\ \A m \in 1 .. Len(ret) : ret[m] = Octet(s, m)
  BY <1>1, <1>3 DEF DecodingInv
<1>5. PICK g \in Nat : i = 4 * g /\ Len(ret) = 3 * g
  BY <1>1, <1>3 DEF DecodingInv
<1>6. ret' = two \o (IF K - i > 3 THEN <<lower>> ELSE <<>>)
  BY DEF Base64!DecodeRest, Base64!Remaining
<1>7. /\ K \in 0 .. Len(input) /\ s \in Seq(Sextets) /\ Len(s) = K
      /\ \A k \in 1 .. K : s[k] = input[k]
  BY <1>3, KnownDigitsFacts
<1> HIDE DEF K, s
<1>8. K - i \in 0 .. 4
  BY <1>1, <1>3, <1>4, <1>7
<1>9. /\ K - i > 1 => upper = InBytes(s, g, 0)
      /\ K - i > 2 => centre = InBytes(s, g, 1)
      /\ K - i > 3 => lower = InBytes(s, g, 2)
  <2>1. /\ K - i > 1 => 4 * g + 1 \in 1 .. K /\ 4 * g + 2 \in 1 .. K
        /\ K - i > 2 => 4 * g + 3 \in 1 .. K
        /\ K - i > 3 => 4 * g + 4 \in 1 .. K
        /\ K - i > 3 => K - i > 2
        /\ K - i > 2 => K - i > 1
    BY <1>5, <1>7
  <2>2. ASSUME NEW k \in 1 .. K
        PROVE  Padded(s, k) = input[k]
    BY <1>7 DEF Padded
  <2>3. /\ Base64!In(0) = input[4 * g + 1] /\ Base64!In(1) = input[4 * g + 2]
        /\ Base64!In(2) = input[4 * g + 3] /\ Base64!In(3) = input[4 * g + 4]
    BY <1>5 DEF Base64!In
  <2>4. /\ InBytes(s, g, 0) = Base64!Upper(Padded(s, 4 * g + 1), Padded(s, 4 * g + 2))
        /\ InBytes(s, g, 1) = Base64!Centre(Padded(s, 4 * g + 2), Padded(s, 4 * g + 3))
        /\ InBytes(s, g, 2) = Base64!Lower(Padded(s, 4 * g + 3), Padded(s, 4 * g + 4))
    BY DEF InBytes
  <2> QED
    BY <2>1, <2>2, <2>3, <2>4, Zenon
<1> HIDE DEF upper, centre, lower
<1>10. 0 \in 0 .. 2 /\ 1 \in 0 .. 2 /\ 2 \in 0 .. 2 /\ 3 * g \in Nat
  OBVIOUS
<1> DEFINE ones == 3 * g + (IF K - i > 1 THEN 1 ELSE 0)
           twos == ones + (IF K - i > 2 THEN 1 ELSE 0)
<1>11. BytesWritten(s, one, ones)
  <2>1. K - i > 1 => 3 * g = 3 * g + 0 /\ upper = InBytes(s, g, 0)
    BY <1>9
  <2>2. BytesWritten(s, ret, 3 * g)
    BY <1>3, <1>4, <1>5, Zenon DEF BytesWritten
  <2>3. one = ret \o (IF K - i > 1 THEN <<upper>> ELSE <<>>)
    OBVIOUS
  <2> HIDE DEF one
  <2>4. NextOrNone(s, ret, 3 * g, g, 0, K - i, 1, upper, one)
    BY <1>10, <2>1, <2>2, <2>3, Zenon DEF NextOrNone
  <2> QED
    BY <1>7, <2>4, NextByte, Zenon
<1>12. BytesWritten(s, two, twos)
  <2>1. K - i > 2 => ones = 3 * g + 1 /\ centre = InBytes(s, g, 1)
    BY <1>8, <1>9
  <2>2. two = one \o (IF K - i > 2 THEN <<centre>> ELSE <<>>)
    OBVIOUS
  <2>3. ones \in Nat
    OBVIOUS
  <2> HIDE DEF one, two, ones
  <2>4. NextOrNone(s, one, ones, g, 1, K - i, 2, centre, two)
    BY <1>10, <1>11, <2>1, <2>2, <2>3, Zenon DEF NextOrNone
  <2> QED
    BY <1>7, <2>4, NextByte, Zenon
<1> HIDE DEF one, two
<1>13. BytesWritten(s, ret', twos + (IF K - i > 3 THEN 1 ELSE 0))
  <2>1. K - i > 3 => twos = 3 * g + 2 /\ lower = InBytes(s, g, 2)
    BY <1>8, <1>9
  <2>2. twos \in Nat
    OBVIOUS
  <2> HIDE DEF ones, twos
  <2>3. NextOrNone(s, two, twos, g, 2, K - i, 3, lower, ret')
    BY <1>6, <1>10, <1>12, <2>1, <2>2, Zenon DEF NextOrNone
  <2> QED
    BY <1>7, <2>3, NextByte, Zenon
<1>14. Len(ret') = (3 * K) \div 4
  <2>1. K = 4 * g + (K - i) /\ K - i \in {0, 1, 2, 3, 4}
    BY <1>5, <1>7, <1>8
  <2>2. Len(ret') = 3 * g + (IF K - i > 1 THEN (K - i) - 1 ELSE 0)
    <3>1. Len(ret') = twos + (IF K - i > 3 THEN 1 ELSE 0)
      BY <1>13, Zenon DEF BytesWritten
    <3> QED
      BY <1>8, <3>1
  <2>3. ASSUME NEW d \in {0, 1, 2, 3, 4}
        PROVE  (3 * (4 * g + d)) \div 4 = 3 * g + (IF d > 1 THEN d - 1 ELSE 0)
    OBVIOUS
  <2> QED
    BY <2>1, <2>2, <2>3, Zenon
<1>15. i' \in 0 .. Len(input')
  BY <1>1, <1>3
<1>16. DecodingInv'
  <2>1. input \in Seq(0 .. Base64!Other)
    BY <1>3 DEF DecodingInv
  <2>2. Base64!Known(input') = K /\ KnownDigits' = s
    BY <1>1 DEF KnownDigits, K, s
  <2> QED
    BY <1>1, <1>3, <1>4, <1>13, <1>14, <2>1, <2>2 DEF DecodingInv, BytesWritten
<1>17. ret' \in Seq(Octets)
  BY <1>13 DEF BytesWritten
<1> QED
  BY <1>1, <1>2, <1>3, <1>17, <1>15, <1>16, DecodingTypesNext

LEMMA Base64Steps ==
  ASSUME Base64Inv, Base64!Next \/ UNCHANGED Base64!vars
  PROVE  Base64Inv'
<1>1. CASE UNCHANGED Base64!vars
  <2>1. UNCHANGED <<phase, input, i, ret, size>>
    BY <1>1 DEF Base64!vars
  <2>2. KnownDigits' = KnownDigits
    BY <2>1 DEF KnownDigits
  <2>3. Base64!TypeOK'
    BY <2>1 DEF Base64Inv, Base64!TypeOK
  <2>4. phase' \in Base64!Encoding => EncodingInv'
    BY <2>1 DEF Base64Inv, EncodingInv
  <2>5. phase' \in Base64!Decoding => DecodingInv'
    BY <2>1, <2>2 DEF Base64Inv, DecodingInv
  <2> QED
    BY <2>3, <2>4, <2>5 DEF Base64Inv
<1> QED
  BY <1>1, EncodingStarts, GroupEncoded, RestEncoded, WebEncoded, WebDecoded, PadAdded,
     DecodingStarts, GroupDecoded, RestDecoded DEF Base64!Next

\* Bytes that are those of their places have the bits of the digits.
LEMMA DecodedBits ==
  ASSUME NEW s \in Seq(Sextets), NEW out \in Seq(Octets),
         Len(out) = (3 * Len(s)) \div 4,
         \A m \in 1 .. Len(out) : out[m] = Octet(s, m),
         NEW k \in 0 .. Len(out) * 8 - 1
  PROVE  Base64!Bit(out, 8, k) = Base64!Bit(s, 6, k)
<1> DEFINE g == k \div 24
           r == k % 24
           w == Padded(s, 4 * g + 1)
           x == Padded(s, 4 * g + 2)
           y == Padded(s, 4 * g + 3)
           z == Padded(s, 4 * g + 4)
           three == <<Base64!Upper(w, x), Base64!Centre(x, y), Base64!Lower(y, z)>>
           four == <<w, x, y, z>>
<1>1. /\ g \in Nat /\ r \in 0 .. 23 /\ k = 24 * g + r /\ k \in Nat
      /\ Len(out) \in Nat /\ Len(s) \in Nat
  OBVIOUS
<1> HIDE DEF g, r
<1>2. /\ k \div 6 = 4 * g + (r \div 6) /\ k % 6 = r % 6
      /\ k \div 8 = 3 * g + (r \div 8) /\ k % 8 = r % 8
      /\ r \div 6 \in 0 .. 3 /\ r \div 8 \in 0 .. 2
  BY <1>1
<1>3. w \in Sextets /\ x \in Sextets /\ y \in Sextets /\ z \in Sextets
  <2>1. /\ 4 * g + 1 \in Nat \ {0} /\ 4 * g + 2 \in Nat \ {0} /\ 4 * g + 3 \in Nat \ {0}
        /\ 4 * g + 4 \in Nat \ {0} /\ 0 \in Sextets
    BY <1>1 DEF Sextets
  <2> QED
    BY <2>1, PaddedFacts, Zenon
<1>4. out[(k \div 8) + 1] = three[(r \div 8) + 1]
  <2> DEFINE a == r \div 8
  <2>1. a \in 0 .. 2 /\ (k \div 8) + 1 = 3 * g + a + 1 /\ (k \div 8) + 1 \in 1 .. Len(out)
    BY <1>1, <1>2
  <2> HIDE DEF a
  <2>2. out[(k \div 8) + 1] = InBytes(s, g, a)
    <3>1. Octet(s, 3 * g + a + 1) = InBytes(s, g, a)
      BY <1>1, <2>1, OctetFacts, Zenon
    <3> QED
      BY <2>1, <3>1, Zenon
  <2>3. InBytes(s, g, a) = three[a + 1]
    <3>1. a = 0 \/ a = 1 \/ a = 2
      BY <2>1
    <3>2. /\ InBytes(s, g, 0) = three[1] /\ InBytes(s, g, 1) = three[2]
          /\ InBytes(s, g, 2) = three[3]
      BY DEF InBytes
    <3> HIDE DEF three
    <3> QED
      BY <3>1, <3>2
  <2> QED
    BY <2>2, <2>3 DEF a
<1>5. Base64!Bit(out, 8, k) = Base64!Bit(three, 8, r)
  <2> HIDE DEF three
  <2> QED
    BY <1>2, <1>4, Zenon DEF Base64!Bit
<1>6. Base64!Bit(three, 8, r) = Base64!Bit(four, 6, r)
  <2> HIDE DEF w, x, y, z
  <2>1. KeepBit(w, x, y, z, r)
    BY <1>1, <1>3, BitsOfBytes, Zenon
  <2> QED
    BY <2>1 DEF KeepBit
<1>7. four[(r \div 6) + 1] = s[(k \div 6) + 1]
  <2> DEFINE a == r \div 6
  <2>1. /\ a = 0 \/ a = 1 \/ a = 2 \/ a = 3
        /\ (k \div 6) + 1 = 4 * g + a + 1
        /\ (k \div 6) + 1 <= Len(s)
    BY <1>1, <1>2
  <2> HIDE DEF a
  <2>2. /\ four[1] = Padded(s, 4 * g + 1) /\ four[2] = Padded(s, 4 * g + 2)
        /\ four[3] = Padded(s, 4 * g + 3) /\ four[4] = Padded(s, 4 * g + 4)
    OBVIOUS
  <2> HIDE DEF four
  <2>3. four[a + 1] = Padded(s, 4 * g + a + 1)
    BY <1>1, <2>1, <2>2
  <2>4. Padded(s, (k \div 6) + 1) = s[(k \div 6) + 1]
    BY <2>1, Zenon DEF Padded
  <2> QED
    BY <2>1, <2>3, <2>4 DEF a
<1>8. Base64!Bit(four, 6, r) = Base64!Bit(s, 6, k)
  <2> HIDE DEF four
  <2> QED
    BY <1>2, <1>7, Zenon DEF Base64!Bit
<1> QED
  BY <1>5, <1>6, <1>8

LEMMA DecodedHolds ==
  ASSUME Base64Inv
  PROVE  Base64!DecodedRight
<1> SUFFICES ASSUME phase = "decoded"
             PROVE  Base64!DecodedRight
  BY DEF Base64!DecodedRight
<1>1. phase \in Base64!Decoding
  BY DEF Base64!Decoding
<1>2. DecodingInv /\ input \in Seq(Coded) /\ ret \in Seq(Octets)
  BY <1>1, DecodingTypes
<1>3. /\ Len(ret) = (3 * Base64!Known(input)) \div 4
      /\ \A m \in 1 .. Len(ret) : ret[m] = Octet(KnownDigits, m)
  BY <1>2 DEF DecodingInv
<1>4. KnownDigits \in Seq(Sextets) /\ Len(KnownDigits) = Base64!Known(input)
  BY <1>2, KnownDigitsFacts
<1>5. Len(ret) = (3 * Len(KnownDigits)) \div 4
  BY <1>3, <1>4, Zenon
<1>6. \A k \in 0 .. Len(ret) * 8 - 1 : Base64!Bit(ret, 8, k) = Base64!Bit(KnownDigits, 6, k)
  BY <1>2, <1>3, <1>4, <1>5, DecodedBits, Zenon
<1> QED
  BY <1>5, <1>6, Zenon DEF Base64!DecodedRight, KnownDigits

LEMMA BlockHolds ==
  ASSUME Base64Inv
  PROVE  Base64!WithinBlock
<1> SUFFICES ASSUME phase \notin {"encode", "webdecode", "pad", "size"}
             PROVE  Len(ret) <= size
  BY DEF Base64!WithinBlock
<1> DEFINE K == Base64!Known(input)
           n == Len(input)
<1>1. phase \in Base64!Encoding \/ phase \in Base64!Decoding
  BY DEF Base64Inv, Base64!TypeOK
<1>2. CASE phase \in Base64!Encoding
  <2>1. EncodingInv /\ n \in Nat /\ i \in 0 .. n /\ ret \in Seq(Written)
    BY <1>2, EncodingTypes
  <2>2. size = (n \div 3) * 4 + 5
    BY <1>2, <2>1 DEF EncodingInv, Base64!EncodedSize
  <2>3. CASE phase = "groups"
    <3>1. PICK g \in Nat : i = 3 * g /\ Len(ret) = 4 * g
      BY <2>1, <2>3 DEF EncodingInv
    <3> QED
      BY <2>1, <2>2, <3>1
  <2>4. CASE phase # "groups"
    <3>1. Len(ret) = 4 * ((n + 2) \div 3) + 1
      BY <1>2, <2>1, <2>4 DEF EncodingInv, Encoded, Base64!Encoding
    <3> QED
      BY <2>1, <2>2, <3>1
  <2> QED
    BY <2>3, <2>4
<1>3. CASE phase \in Base64!Decoding
  <2>1. DecodingInv /\ input \in Seq(Coded)
    BY <1>3, DecodingTypes
  <2>2. phase = "bytes" \/ phase = "decoded"
    BY <1>3 DEF Base64!Decoding
  <2>3. K \in Nat
    BY <2>1, KnownDigitsFacts
  <2>4. size = ((K + 3) \div 4) * 3 + 1
    BY <2>1, <2>2 DEF DecodingInv, Base64!DecodedSize
  <2>5. CASE phase = "bytes"
    <3>1. PICK g \in Nat : i = 4 * g /\ Len(ret) = 3 * g
      BY <2>1, <2>5 DEF DecodingInv
    <3>2. i <= K
      BY <2>1, <2>5 DEF DecodingInv
    <3> HIDE DEF K
    <3> QED
      BY <2>3, <2>4, <3>1, <3>2
  <2>6. CASE phase = "decoded"
    <3>1. Len(ret) = (3 * K) \div 4
      BY <2>1, <2>6 DEF DecodingInv
    <3> HIDE DEF K
    <3> QED
      BY <2>3, <2>4, <3>1
  <2> QED
    BY <2>2, <2>5, <2>6
<1> QED
  BY <1>1, <1>2, <1>3
-----------------------------------------------------------------------------
(***************************************************************************)
(* Whichever function is called.                                           *)
(***************************************************************************)
Inv ==
  /\ called \in {"endpoint", "header", "base64", "sleep", "log"}
  /\ called = "endpoint" => EndpointInv
  /\ called = "header" => HeaderInv
  /\ called = "base64" => Base64Inv
  /\ called = "sleep" => SleepInv
  /\ called = "log" => LogInv

LEMMA InitInv == Init => Inv
<1> SUFFICES ASSUME Init
             PROVE  Inv
  OBVIOUS
<1>1. CASE called = "endpoint" /\ Endpoint!Init
  BY <1>1, EndpointStarts DEF Inv
<1>2. CASE called = "header" /\ Header!Init
  BY <1>2, HeaderStarts DEF Inv
<1>3. CASE called = "base64" /\ Base64!Init
  BY <1>3, Base64Starts DEF Inv
<1>4. CASE called = "sleep" /\ Sleep!Init
  BY <1>4, SleepStarts DEF Inv
<1>5. CASE called = "log" /\ Log!Init
  BY <1>5, LogStarts DEF Inv
<1> QED
  BY <1>1, <1>2, <1>3, <1>4, <1>5 DEF Init

LEMMA NextInv == Inv /\ [Next]_vars => Inv'
<1> SUFFICES ASSUME Inv, [Next]_vars
             PROVE  Inv'
  OBVIOUS
<1>1. called' = called
  BY DEF Next, vars
<1>2. CASE called = "endpoint"
  <2>1. Endpoint!Next \/ UNCHANGED Endpoint!vars
    BY <1>2 DEF Next, vars, endpointVars, Endpoint!vars
  <2>2. EndpointInv'
    BY <1>2, <2>1, EndpointSteps DEF Inv
  <2> QED
    BY <1>1, <1>2, <2>2 DEF Inv
<1>3. CASE called = "header"
  <2>1. Header!Next \/ UNCHANGED Header!vars
    BY <1>3 DEF Next, vars, headerVars, Header!vars
  <2>2. HeaderInv'
    BY <1>3, <2>1, HeaderSteps DEF Inv
  <2> QED
    BY <1>1, <1>3, <2>2 DEF Inv
<1>4. CASE called = "base64"
  <2>1. Base64!Next \/ UNCHANGED Base64!vars
    BY <1>4 DEF Next, vars, base64Vars, Base64!vars
  <2>2. Base64Inv'
    BY <1>4, <2>1, Base64Steps DEF Inv
  <2> QED
    BY <1>1, <1>4, <2>2 DEF Inv
<1>5. CASE called = "sleep"
  <2>1. Sleep!Next \/ UNCHANGED Sleep!vars
    BY <1>5 DEF Next, vars, sleepVars, Sleep!vars
  <2>2. SleepInv'
    BY <1>5, <2>1, SleepSteps DEF Inv
  <2> QED
    BY <1>1, <1>5, <2>2 DEF Inv
<1>6. CASE called = "log"
  <2>1. Log!Next \/ UNCHANGED Log!vars
    BY <1>6 DEF Next, vars, logVars, Log!vars
  <2>2. LogInv'
    BY <1>6, <2>1, LogSteps DEF Inv
  <2> QED
    BY <1>1, <1>6, <2>2 DEF Inv
<1> QED
  BY <1>2, <1>3, <1>4, <1>5, <1>6 DEF Inv

LEMMA InvHolds ==
  ASSUME Inv
  PROVE  /\ TypeOK /\ OverrunOnlyUnbounded /\ EndpointRight /\ HeaderRight
         /\ Base64Right /\ PauseRight /\ LineRight
<1>1. TypeOK
  BY DEF Inv, TypeOK, EndpointInv, HeaderInv, Base64Inv, SleepInv, LogInv
<1>2. OverrunOnlyUnbounded
  BY HeaderHolds, BlockHolds, LogHolds DEF Inv, OverrunOnlyUnbounded
<1>3. EndpointRight
  BY EndpointHolds DEF Inv, EndpointRight
<1>4. HeaderRight
  BY HeaderHolds DEF Inv, HeaderRight
<1>5. Base64Right
  BY EncodedHolds, DecodedHolds DEF Inv, Base64Right
<1>6. PauseRight
  BY SleepHolds DEF Inv, PauseRight
<1>7. LineRight
  BY LogHolds DEF Inv, LineRight
<1> QED
  BY <1>1, <1>2, <1>3, <1>4, <1>5, <1>6, <1>7

LEMMA Invariance == Spec => []Inv
<1>1. Init => Inv
  BY InitInv
<1>2. Inv /\ [Next]_vars => Inv'
  BY NextInv
<1> QED
  BY <1>1, <1>2, PTL DEF Spec

\* For every set of characters, address, length, byte string, pause, signal and
\* log text, the functions keep their places and results in range: once it has
\* found a prefix, http_parse_endpoint does not read beyond the NUL of its
\* address, and env_base64WebEncode writes only signs of base64.
THEOREM TypesCorrect == Spec => []TypeOK
<1>1. Inv => TypeOK
  BY InvHolds
<1> QED
  BY <1>1, Invariance, PTL

\* The blocks of the base64 functions hold what is written to them whatever is
\* encoded or decoded.  The block of a request header is exceeded just when the
\* request line leaves no room for its NUL, and never by a field; the arrays on
\* the stack only by an api key of more than 1004 characters and by the cut text
\* of a line of the log.
THEOREM Blocks == Spec => []OverrunOnlyUnbounded
<1>1. Inv => OverrunOnlyUnbounded
  BY InvHolds
<1> QED
  BY <1>1, Invariance, PTL

\* http_parse_endpoint gives the protocol, the domain and the path that every
\* address of any length says, and for its port what is left in 16 bits of the
\* number that is written.
THEOREM Endpoints == Spec => []EndpointRight
<1>1. Inv => EndpointRight
  BY InvHolds
<1> QED
  BY <1>1, Invariance, PTL

\* http_build_header returns every field of every request whole, and refuses
\* only those that would leave fewer than two bytes of its block.
THEOREM Headers == Spec => []HeaderRight
<1>1. Inv => HeaderRight
  BY InvHolds
<1> QED
  BY <1>1, Invariance, PTL

\* Base64 of byte strings of any length is bit by bit the bytes, and what is
\* decoded, web or not and padded or not, bit by bit the digits.
THEOREM Base64s == Spec => []Base64Right
<1>1. Inv => Base64Right
  BY InvHolds
<1> QED
  BY <1>1, Invariance, PTL

\* A pause of env_sleep that any number of signals interrupt, MaxSignals being any
\* number, is as much shorter and longer than asked as PauseRight says.
THEOREM Pauses == Spec => []PauseRight
<1>1. Inv => PauseRight
  BY InvHolds
<1> QED
  BY <1>1, Invariance, PTL

\* For any number of threads that write to the log at once, only a line that is
\* cut takes in what was on the stack, and only another thread's gmtime() gives
\* it another time.
THEOREM LogLines == Spec => []LineRight
<1>1. Inv => LineRight
  BY InvHolds
<1> QED
  BY <1>1, Invariance, PTL
=============================================================================
