------------------------------- MODULE FcmApi -------------------------------
(***************************************************************************)
(* What libfirebase_fcm_send and libfirebase_fcm_send_bytes promise to an  *)
(* application (firebase.h): a call ends once, with an HTTP response or    *)
(* with NULL.  A message reaches the push service at most once, and there  *)
(* is no response without it.  NULL does not mean the message was not      *)
(* delivered: a response can be lost.                                      *)
(***************************************************************************)
CONSTANTS Call        \* the calls an application makes

VARIABLES result,     \* how far each call is
          delivered,  \* the calls whose whole request the service has
          up          \* the process runs

apiVars == <<result, delivered, up>>

ApiInit ==
  /\ result = [c \in Call |-> "none"]
  /\ delivered = {}
  /\ up = TRUE

\* The application makes a call.
Begin(c) ==
  /\ up
  /\ result[c] = "none"
  /\ result' = [result EXCEPT ![c] = "running"]
  /\ UNCHANGED <<delivered, up>>

\* The service has received the whole request of a call that is running.
Deliver(c) ==
  /\ up
  /\ result[c] = "running"
  /\ c \notin delivered
  /\ delivered' = delivered \cup {c}
  /\ UNCHANGED <<result, up>>

\* The call returns; it has a response only if its request was delivered.
Settle(c) ==
  /\ up
  /\ result[c] = "running"
  /\ \E r \in {"response", "null"} :
       /\ r = "response" => c \in delivered
       /\ result' = [result EXCEPT ![c] = r]
  /\ UNCHANGED <<delivered, up>>

\* The process ends, and its calls with it.
Stop ==
  /\ up
  /\ up' = FALSE
  /\ UNCHANGED <<result, delivered>>

ApiNext == Stop \/ \E c \in Call : Begin(c) \/ Deliver(c) \/ Settle(c)

ApiSpec == ApiInit /\ [][ApiNext]_apiVars
=============================================================================
