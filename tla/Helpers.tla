------------------------------ MODULE Helpers -------------------------------
(***************************************************************************)
(* The functions of the library that share no state: each behaviour is a   *)
(* call of one of them, or two threads writing lines to the log.  They are *)
(* asked the same questions: do they give what their arguments say, does   *)
(* what they write fit, do they return.                                    *)
(***************************************************************************)
EXTENDS Integers, Sequences

CONSTANTS Char, Value, PortSpan, AddressLength,             \* Endpoint
          Lines, Keys, Points, Salts, LengthDigits,         \* RequestHeader
          Byte, Sign, InputLength,                          \* Base64
          PerSecond, PerMs, UintMax,                        \* Sleep
          Seconds, MSeconds, MaxSignals,
          Thread, LogText, PerDay, MaxTime                  \* LogLine

\* Digits are worth 0 to 9, slash and colon are none; both default ports fit
\* the integer that holds the port.
ASSUME EndpointAssumption ==
  /\ {"/", ":"} \subseteq Char /\ "" \notin Char
  /\ DOMAIN Value \subseteq Char \ {"/", ":"}
  /\ \A d \in DOMAIN Value : Value[d] \in 0 .. 9
  /\ PortSpan \in Nat /\ PortSpan > 443
  /\ AddressLength \in Nat

\* A point has 65 bytes and a salt 16, which are 88 and 24 characters of
\* base64; the length of a message is a size_t.
ASSUME HeaderAssumption ==
  /\ Lines \subseteq Nat /\ Keys \subseteq Nat \cup {-1}
  /\ Points \subseteq 1 .. 88 /\ Salts \subseteq 1 .. 24
  /\ LengthDigits \subseteq 1 .. 20

\* What is encoded are bytes; what is decoded are the 64 characters of base64,
\* minus, underscore, the equals sign, and one that stands for all others.
ASSUME Base64Assumption ==
  Byte \subseteq 0 .. 255 /\ Sign \subseteq 0 .. 67 /\ InputLength \in Nat

\* The seconds are an unsigned int.
ASSUME SleepAssumption ==
  /\ PerSecond \in Nat \ {0} /\ PerMs \in Nat \ {0} /\ UintMax \in Nat
  /\ Seconds \subseteq 0 .. UintMax /\ MSeconds \subseteq Nat
  /\ MaxSignals \in Nat

\* There is a longest text.
ASSUME LogAssumption ==
  /\ LogText \subseteq Nat /\ \E n \in LogText : \A k \in LogText : k <= n
  /\ PerDay \in Nat \ {0} /\ MaxTime \in Nat

VARIABLES called,                                           \* which of them
          phase, i,                                         \* of several
          address, proto, j, domain, port, url_path,        \* Endpoint
          request, fields, overrun, offset, extent,         \* RequestHeader
          input, ret, size,                                 \* Base64
          seconds, mseconds, left, slept, signals, late,    \* Sleep
          log_enabled, clock, tm, at, now, stamp, put, others    \* LogLine

endpointVars == <<address, proto, j, domain, port, url_path>>
headerVars == <<request, fields, overrun, offset, extent>>
base64Vars == <<input, ret, size>>
sleepVars == <<seconds, mseconds, left, slept, signals, late>>
logVars == <<log_enabled, clock, tm, at, now, stamp, put, others>>

Endpoint == INSTANCE Endpoint WITH MaxLength <- AddressLength

Header == INSTANCE RequestHeader WITH Digits <- LengthDigits

Base64 == INSTANCE Base64 WITH Text <- Sign, MaxLength <- InputLength

Sleep == INSTANCE Sleep

\* The sizes of the code.
Log == INSTANCE LogLine WITH Text <- LogText, Size <- 1024, Room <- 900, Stamp <- 22,
                             Tag <- {6, 7}

\* The variables of the functions that are not called.
None == "none"
NoPhase == phase = None
NoPlace == i = None
NoEndpoint == /\ address = None /\ proto = None /\ j = None
              /\ domain = None /\ port = None /\ url_path = None
NoHeader == /\ request = None /\ fields = None /\ overrun = None
            /\ offset = None /\ extent = None
NoBase64 == input = None /\ ret = None /\ size = None
NoSleep == /\ seconds = None /\ mseconds = None /\ left = None
           /\ slept = None /\ signals = None /\ late = None
NoLog == /\ log_enabled = None /\ clock = None /\ tm = None /\ at = None
         /\ now = None /\ stamp = None /\ put = None /\ others = None

Init ==
  \/ /\ called = "endpoint" /\ Endpoint!Init
     /\ NoHeader /\ NoBase64 /\ NoSleep /\ NoLog
  \/ /\ called = "header" /\ Header!Init
     /\ NoEndpoint /\ NoBase64 /\ NoSleep /\ NoLog
  \/ /\ called = "base64" /\ Base64!Init
     /\ NoEndpoint /\ NoHeader /\ NoSleep /\ NoLog
  \/ /\ called = "sleep" /\ Sleep!Init
     /\ NoPlace /\ NoEndpoint /\ NoHeader /\ NoBase64 /\ NoLog
  \/ /\ called = "log" /\ Log!Init
     /\ NoPhase /\ NoEndpoint /\ NoHeader /\ NoBase64 /\ NoSleep

Next ==
  /\ UNCHANGED called
  /\ \/ /\ called = "endpoint" /\ Endpoint!Next
        /\ UNCHANGED <<headerVars, base64Vars, sleepVars, logVars>>
     \/ /\ called = "header" /\ Header!Next
        /\ UNCHANGED <<endpointVars, base64Vars, sleepVars, logVars>>
     \/ /\ called = "base64" /\ Base64!Next
        /\ UNCHANGED <<endpointVars, headerVars, sleepVars, logVars>>
     \/ /\ called = "sleep" /\ Sleep!Next
        /\ UNCHANGED <<i, endpointVars, headerVars, base64Vars, logVars>>
     \/ /\ called = "log" /\ Log!Next
        /\ UNCHANGED <<phase, endpointVars, headerVars, base64Vars, sleepVars>>

vars == <<called, phase, i, endpointVars, headerVars, base64Vars, sleepVars, logVars>>

Spec == Init /\ [][Next]_vars

\* The functions compute, or call sleep() and usleep(), which return.
FairSpec == Spec /\ WF_vars(Next)
-----------------------------------------------------------------------------
\* Among the types: http_parse_endpoint reads nothing beyond the end of its
\* address once it has compared it with the prefixes, and env_base64WebEncode
\* writes only characters of base64.
TypeOK ==
  /\ called = "endpoint" => Endpoint!TypeOK
  /\ called = "header" => Header!TypeOK
  /\ called = "base64" => Base64!TypeOK
  /\ called = "sleep" => Sleep!TypeOK
  /\ called = "log" => Log!TypeOK

\* Three texts are printed without regard to their length: the request line, an
\* api key, and a line of the log that was cut.  A buffer is exceeded by these
\* alone: the block of a header by a request line that leaves no room for its
\* NUL, and never by the fields behind it; the array of a field by a key of more
\* than 1004 characters; that of a line by a cut text.  The blocks of the base64
\* functions hold all that is written to them.
OverrunOnlyUnbounded ==
  /\ called = "header" => Header!OnlyLineTooLong /\ Header!OnlyKeyTooLong
  /\ called = "base64" => Base64!WithinBlock
  /\ called = "log" => Log!OverrunOnlyCut

\* http_parse_endpoint gives the domain and the path its address says, and of
\* its port what fits 16 bits.
EndpointRight ==
  called = "endpoint" => Endpoint!PartsRead /\ Endpoint!PortRead /\ Endpoint!PathAbsolute

\* http_build_header returns a header with all its fields, and refuses none
\* that leaves two bytes of its block.
HeaderRight == called = "header" => Header!HeaderWhole /\ Header!RefusedOnlyLong

\* Base64, web or not, is bit by bit what was encoded or decoded.
Base64Right == called = "base64" => Base64!EncodedRight /\ Base64!DecodedRight

\* How much shorter or longer than asked up to MaxSignals signals can make a
\* pause.
PauseRight == called = "sleep" => Sleep!NotShort /\ Sleep!NotLong

\* A line of the log that fits has nothing of the stack in it, and its own time
\* unless another thread called gmtime() meanwhile.
LineRight == called = "log" => Log!StaleOnlyLong /\ Log!StampOfOwnTime

\* env_sleep is interrupted.
Interrupted == Sleep!SecondsInterrupted \/ Sleep!USecondsInterrupted

\* The loops of the functions end, that of env_sleep once it is no longer
\* interrupted: a signal that recurs keeps it in usleep() for ever.
Returns ==
  called # "log" =>
    (<>[][~ Interrupted]_vars =>
       <>(phase \in {"done", "null", "fault", "encoded", "decoded"}))
=============================================================================
