------------------------------ MODULE Endpoint ------------------------------
(***************************************************************************)
(* http_parse_endpoint (http.c): the address of an application's endpoint  *)
(* is read character by character into domain, port and path.  What it has *)
(* to give is stated below by cutting the address up as a whole.           *)
(***************************************************************************)
EXTENDS Integers, Sequences

CONSTANTS Char,       \* the characters of addresses
          Value,      \* the digits among them, and what each is worth
          PortSpan,   \* 2^16 for the uint16_t of the code
          MaxLength   \* bound: characters after the prefix

Digit == DOMAIN Value

Protocol == {"http://", "https://"}

\* Addresses, and the rest behind what they begin with: one of the prefixes;
\* seven characters of another address; nothing, of another one with fewer.
Address == {a \in [prefix : Protocol \cup {"other", "short"},
                   rest : UNION {[1 .. len -> Char] : len \in 0 .. MaxLength}] :
              a.prefix = "short" => Len(a.rest) < 7}

VARIABLES address, phase,
          proto,
          i, j,      \* places in p_address
          domain, port, url_path

vars == <<address, phase, proto, i, j, domain, port, url_path>>

Init ==
  /\ address \in Address
  /\ phase = "prefix"
  /\ proto = "none"
  /\ i = 0 /\ j = 0 /\ port = 0
  /\ domain = <<>> /\ url_path = <<>>

Rest == address.rest

\* p_address[k], "" for the NUL at the end.
At(k) == IF k < Len(Rest) THEN Rest[k + 1] ELSE ""

\* The bytes of the whole address, with the NUL at its end.
Size ==
  Len(Rest) + 1
    + (CASE address.prefix \in {"http://", "other"} -> 7
         [] address.prefix = "https://" -> 8
         [] address.prefix = "short" -> 0)

\* What env_starts_with compares at last: the characters of "https://".
Compared == 8

\* p_address[a .. b - 1]
Copy(a, b) == SubSeq(Rest, a + 1, b)

Default(p) == IF p = "http://" THEN 80 ELSE 443

\* The prefix gives the protocol and its port.
PrefixFound ==
  /\ phase = "prefix" /\ address.prefix \in Protocol
  /\ proto' = address.prefix
  /\ port' = Default(address.prefix)
  /\ phase' = "domain"
  /\ UNCHANGED <<address, i, j, domain, url_path>>

\* Neither prefix: NULL.
PrefixMissing ==
  /\ phase = "prefix" /\ address.prefix \notin Protocol
  /\ phase' = "null"
  /\ UNCHANGED <<address, proto, i, j, domain, port, url_path>>

\* env_starts_with compares bytes behind the NUL of a shorter address, and
\* what that does is undefined: it may find the difference before, or fault.
PrefixOverread ==
  /\ phase = "prefix" /\ Size < Compared
  /\ phase' = "fault"
  /\ UNCHANGED <<address, proto, i, j, domain, port, url_path>>

\* Mutant of DomainGoesOn: the end of the string does not end the domain.
DomainGoesOnBeyond ==
  /\ phase = "domain" /\ At(i) \notin {"/", ":"} /\ i < MaxLength + 2
  /\ i' = i + 1
  /\ UNCHANGED <<address, phase, proto, j, domain, port, url_path>>

DomainGoesOn ==
  /\ phase = "domain" /\ At(i) \notin {"/", ":", ""}
  /\ i' = i + 1
  /\ UNCHANGED <<address, phase, proto, j, domain, port, url_path>>

\* Mutant of DomainEnds: the port before a colon is kept.
DomainEndsKeeping ==
  /\ phase = "domain" /\ At(i) \in {"/", ":", ""}
  /\ domain' = Copy(0, i)
  /\ \/ At(i) = ":" /\ i' = i + 1 /\ phase' = "port" /\ UNCHANGED <<port, j, url_path>>
     \/ At(i) = "/" /\ phase' = "path" /\ j' = i + 1 /\ UNCHANGED <<i, port, url_path>>
     \/ At(i) = "" /\ phase' = "done" /\ url_path' = <<"/">> /\ UNCHANGED <<i, j, port>>
  /\ UNCHANGED <<address, proto>>

\* The domain is copied; a colon starts the port anew, at 0.
DomainEnds ==
  /\ phase = "domain" /\ At(i) \in {"/", ":", ""}
  /\ domain' = Copy(0, i)
  /\ \/ At(i) = ":" /\ i' = i + 1 /\ phase' = "port" /\ port' = 0 /\ UNCHANGED <<j, url_path>>
     \/ At(i) = "/" /\ phase' = "path" /\ j' = i + 1 /\ UNCHANGED <<i, port, url_path>>
     \/ At(i) = "" /\ phase' = "done" /\ url_path' = <<"/">> /\ UNCHANGED <<i, j, port>>
  /\ UNCHANGED <<address, proto>>

\* port * 10 + digit, in a uint16_t.
PortGoesOn ==
  /\ phase = "port" /\ At(i) \in Digit
  /\ port' = (port * 10 + Value[At(i)]) % PortSpan
  /\ i' = i + 1
  /\ UNCHANGED <<address, phase, proto, j, domain, url_path>>

\* Mutant of PortEnds: what follows the digits is the path from its second
\* character on.
PortEndsSkipping ==
  /\ phase = "port" /\ At(i) \notin Digit
  /\ \/ At(i) = "" /\ phase' = "done" /\ url_path' = <<"/">> /\ UNCHANGED <<i, j>>
     \/ At(i) # "" /\ phase' = "path" /\ i' = i + 1 /\ j' = i + 1 /\ UNCHANGED url_path
  /\ UNCHANGED <<address, proto, domain, port>>

PortEnds ==
  /\ phase = "port" /\ At(i) \notin Digit
  /\ \/ At(i) = "" /\ phase' = "done" /\ url_path' = <<"/">> /\ UNCHANGED j
     \/ At(i) # "" /\ phase' = "path" /\ j' = i + 1 /\ UNCHANGED url_path
  /\ UNCHANGED <<address, proto, i, domain, port>>

PathGoesOn ==
  /\ phase = "path" /\ At(j) # ""
  /\ j' = j + 1
  /\ UNCHANGED <<address, phase, proto, i, domain, port, url_path>>

PathEnds ==
  /\ phase = "path" /\ At(j) = ""
  /\ url_path' = Copy(i, j)
  /\ phase' = "done"
  /\ UNCHANGED <<address, proto, i, j, domain, port>>

Next == \/ PrefixFound \/ PrefixMissing \/ PrefixOverread
        \/ DomainGoesOn \/ DomainEnds
        \/ PortGoesOn \/ PortEnds
        \/ PathGoesOn \/ PathEnds

Spec == Init /\ [][Next]_vars
-----------------------------------------------------------------------------
\* Among the types: once the prefix was found, no place beyond the NUL at the
\* end is read.
TypeOK ==
  /\ address \in Address
  /\ phase \in {"prefix", "domain", "port", "path", "done", "null", "fault"}
  /\ proto \in Protocol \cup {"none"}
  /\ i \in 0 .. Len(Rest) /\ j \in 0 .. Len(Rest)
  /\ port \in 0 .. PortSpan - 1
  /\ domain \in Seq(Char) /\ url_path \in Seq(Char)

\* The first k from which a character of s is in set, Len(s) + 1 if none is.
FirstIn(s, set) ==
  CHOOSE k \in 1 .. Len(s) + 1 :
    /\ k = Len(s) + 1 \/ s[k] \in set
    /\ \A m \in 1 .. k - 1 : s[m] \notin set

\* What the address says: domain, digits after a colon, and what follows them.
Domain == SubSeq(Rest, 1, FirstIn(Rest, {"/", ":"}) - 1)
AfterDomain == SubSeq(Rest, Len(Domain) + 1, Len(Rest))
HasColon == AfterDomain # <<>> /\ AfterDomain[1] = ":"
Number == IF HasColon
          THEN SubSeq(AfterDomain, 2, FirstIn(Tail(AfterDomain), Char \ Digit))
          ELSE <<>>
Path == IF HasColon THEN SubSeq(AfterDomain, Len(Number) + 2, Len(AfterDomain)) ELSE AfterDomain

\* The numbers the first n of some digits make.
Numbers(digits) ==
  LET number[n \in 0 .. Len(digits)] ==
        IF n = 0 THEN 0 ELSE number[n - 1] * 10 + Value[digits[n]]
  IN  number

\* The endpoint has the parts of its address; a missing path is the root.
PartsRead ==
  phase = "done" =>
    /\ proto = address.prefix
    /\ domain = Domain
    /\ url_path = IF Path = <<>> THEN <<"/">> ELSE Path

\* The port is what is left of the number that is written in 16 bits, another
\* port for a number that exceeds them; 0 is what a colon without a number
\* gives, and the default is only for addresses without colon.
PortRead ==
  phase = "done" =>
    port = IF HasColon
           THEN Numbers(Number)[Len(Number)] % PortSpan
           ELSE Default(address.prefix)

\* The path of the request line starts with a slash, unless something else
\* follows the number of the port.
PathAbsolute ==
  phase = "done" =>
    /\ url_path # <<>>
    /\ url_path[1] # "/" => HasColon /\ Path[1] \notin Digit \cup {"/"}
=============================================================================
