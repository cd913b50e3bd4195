---------------------------- MODULE MCFcmClient -----------------------------
(* Two threads with three calls: one call can end and its thread start the   *)
(* next while the other is still in its first, with descriptors to reuse.    *)
EXTENDS FcmClient

R(p, m, k, f) == [proto |-> p, message |-> m, keys |-> k, fits |-> f]

\* Requests that can go all the way.
MCGoodRequests ==
  {R("http", FALSE, "good", TRUE), R("https", TRUE, "good", TRUE)}

\* Requests for every way a call can take.
MCRequests ==
  {R("none", TRUE, "good", TRUE), R("http", FALSE, "good", TRUE),
   R("http", FALSE, "good", FALSE), R("https", TRUE, "good", TRUE),
   R("https", TRUE, "bad", TRUE), R("https", TRUE, "empty", TRUE)}

\* A request whose header does not fit, and one with an empty key; without TLS,
\* where a handshake may end the process for another reason.
MCLongHeader == {R("http", FALSE, "good", FALSE)}
MCEmptyKey == {R("http", TRUE, "empty", TRUE)}
=============================================================================
