----------------------------- MODULE FcmClient ------------------------------
(***************************************************************************)
(* Threads of one application in libfirebase_fcm_send_bytes, from the call *)
(* to its return: fcm_send or fcm_send_no_payload (fcm.c), http_do_post    *)
(* (http.c), the connection (tcp.c, ssl.c) and the way back.  An action is *)
(* one step of the call of thread t.  Threads share the heap, the table of *)
(* file descriptors and the process: a crash in one call ends all.         *)
(* SendLoop and HttpResponse hold what happens inside the steps that send  *)
(* and receive.                                                            *)
(***************************************************************************)
EXTENDS Integers, Sequences

CONSTANTS Thread,      \* the application's threads
          Fd,          \* the descriptors the process may have open
          Invalid,     \* ENV_INVALID_SOCKET, which is no descriptor
          MaxCalls,    \* bound: calls the application makes
          MaxAttempts, \* bound: sockets one env_connect_to_url creates
          Requests     \* the requests the application may make

\* A request: the protocol of its endpoint ("none" when the endpoint does not
\* parse), whether it has a message, what its keys decode to, and whether its
\* header fits into the buffer of http_build_header.
Request == [proto : {"http", "https", "none"}, message : BOOLEAN,
            keys : {"good", "bad", "empty"}, fits : BOOLEAN]

ASSUME ClientAssumption ==
  /\ Invalid \notin Fd
  /\ MaxCalls \in Nat
  /\ MaxAttempts \in Nat
  /\ Requests \subseteq Request

\* A call is named by its number, the server's end of its connection too.
Call == 1 .. MaxCalls
NoCall == 0

\* What a call allocates; "ssl" stands for the SSL and its SSL_CTX, "endpoint"
\* for the http_endpoint_t with its two strings.
Block == {"response", "endpoint", "p256_dec", "auth_dec", "message_enc", "dh",
          "salt", "header", "ssl", "out->header", "out->body"}

VARIABLES pc,        \* where each thread is
          cur,       \* the call it is in
          sock,      \* the descriptor its http_do_post holds
          attempts,  \* sockets its env_connect_to_url has created
          dead,      \* SSL_connect returned 0: taken for success
          ret,       \* what its http_do_post returns
          begun,     \* calls made so far
          req,       \* the request of each call
          heap,      \* how often each block of each call is allocated
          kfd,       \* the call a descriptor was opened by, NoCall if closed
          srv,       \* what the server has received on each connection
          leaked,    \* history: calls whose TLS handshake failed
          out,       \* what each call has returned
          process    \* "up", or how it ended

vars == <<pc, cur, sock, attempts, dead, ret, begun, req, heap, kfd, srv,
          leaked, out, process>>

\* Where a thread holds a connection.
Connected == {"connecting", "tls", "header", "payload", "receive", "close"}

Init ==
  /\ pc = [t \in Thread |-> "idle"]
  /\ cur = [t \in Thread |-> NoCall]
  /\ sock = [t \in Thread |-> Invalid]
  /\ attempts = [t \in Thread |-> 0]
  /\ dead = [t \in Thread |-> FALSE]
  /\ ret = [t \in Thread |-> 0]
  /\ begun = 0
  /\ req \in [Call -> Requests]
  /\ heap = [c \in Call |-> [b \in Block |-> 0]]
  /\ kfd = [f \in Fd |-> NoCall]
  /\ srv = [c \in Call |-> <<>>]
  /\ leaked = {}
  /\ out = [c \in Call |-> "none"]
  /\ process = "up"

My(t) == req[cur[t]]

\* Thread t is at from and goes on to to.
Step(t, from, to) ==
  /\ process = "up"
  /\ pc[t] = from
  /\ pc' = [pc EXCEPT ![t] = to]

\* Thread t's call allocates the blocks news and frees the blocks olds.
Memory(t, news, olds) ==
  heap' = [heap EXCEPT ![cur[t]] =
             [b \in Block |-> heap[cur[t]][b]
                                + (IF b \in news THEN 1 ELSE 0)
                                - (IF b \in olds THEN 1 ELSE 0)]]

\* http_build_header has returned NULL when the header does not fit, and
\* free(NULL) does nothing.
Header(t) == IF My(t).fits THEN {"header"} ELSE {}

\* What env_close_secure_connection frees on the way.
Ssl(t) == IF My(t).proto = "https" THEN {"ssl"} ELSE {}

connVars == <<sock, attempts, dead, kfd, leaked>>
callVars == <<cur, begun, req, out, process>>

\* The call of thread t returns to the application.
Settle(t, r) ==
  /\ out' = [out EXCEPT ![cur[t]] = r]
  /\ cur' = [cur EXCEPT ![t] = NoCall]
  /\ UNCHANGED <<begun, req, process>>

\* The application calls libfirebase_fcm_send_bytes.
Invoke(t) ==
  /\ Step(t, "idle", "parse")
  /\ begun < MaxCalls
  /\ begun' = begun + 1
  /\ cur' = [cur EXCEPT ![t] = begun + 1]
  /\ out' = [out EXCEPT ![begun + 1] = "running"]
  /\ UNCHANGED <<connVars, ret, req, heap, srv, process>>

\* http_parse_endpoint returns NULL.
ParseFails(t) ==
  /\ Step(t, "parse", "idle")
  /\ My(t).proto = "none"
  /\ Settle(t, "null")
  /\ UNCHANGED <<connVars, ret, heap, srv>>

\* The prefixes it compares an address with reach behind one that is shorter.
ParseCrashes(t) ==
  /\ Step(t, "parse", "parse")
  /\ My(t).proto = "none"
  /\ process' = "segv"
  /\ UNCHANGED <<connVars, cur, begun, req, out, ret, heap, srv>>

\* It returns an endpoint.
ParseSucceeds(t) ==
  /\ Step(t, "parse", IF My(t).message THEN "decode" ELSE "build")
  /\ My(t).proto # "none"
  /\ Memory(t, {"response", "endpoint"}, {})
  /\ UNCHANGED <<connVars, callVars, ret, srv>>

\* The keys are decoded, and their last bytes logged.
Decode(t) ==
  /\ Step(t, "decode", "encrypt")
  /\ Memory(t, {"p256_dec", "auth_dec"}, {})
  /\ UNCHANGED <<connVars, callVars, ret, srv>>

\* The last byte of an empty key is the one at index UINT_MAX.
DecodeCrashes(t) ==
  /\ Step(t, "decode", "decode")
  /\ My(t).keys = "empty"
  /\ process' = "segv"
  /\ UNCHANGED <<connVars, cur, begun, req, out, ret, heap, srv>>

\* env_prime256v1_aesgcm_encrypt_message returns 0.
Encrypt(t) ==
  /\ Step(t, "encrypt", "build")
  /\ My(t).keys # "bad"
  /\ Memory(t, {"message_enc", "dh", "salt"}, {"p256_dec", "auth_dec"})
  /\ UNCHANGED <<connVars, callVars, ret, srv>>

\* Mutant of EncryptFails: the endpoint is freed again on the way back.
EncryptFailsReturning(t) ==
  /\ Step(t, "encrypt", "return")
  /\ Memory(t, {}, {"p256_dec", "auth_dec", "endpoint"})
  /\ ret' = [ret EXCEPT ![t] = 1]
  /\ UNCHANGED <<connVars, callVars, srv>>

\* Mutant of EncryptFails: the decoded keys are not freed.
EncryptFailsLeaking(t) ==
  /\ Step(t, "encrypt", "idle")
  /\ Memory(t, {}, {"endpoint", "response"})
  /\ Settle(t, "null")
  /\ UNCHANGED <<connVars, ret, srv>>

\* It does not: the key is none, or OpenSSL has failed.
EncryptFails(t) ==
  /\ Step(t, "encrypt", "idle")
  /\ Memory(t, {}, {"p256_dec", "auth_dec", "endpoint", "response"})
  /\ Settle(t, "null")
  /\ UNCHANGED <<connVars, ret, srv>>

\* A result of OpenSSL that is not looked at is used and crashes.
EncryptCrashes(t) ==
  /\ Step(t, "encrypt", "encrypt")
  /\ process' = "segv"
  /\ UNCHANGED <<connVars, cur, begun, req, out, ret, heap, srv>>

\* http_build_header; its result is not looked at.
BuildHeader(t) ==
  /\ Step(t, "build", "connect")
  /\ Memory(t, Header(t), {})
  /\ attempts' = [attempts EXCEPT ![t] = 0]
  /\ UNCHANGED <<callVars, sock, dead, kfd, leaked, ret, srv>>

\* env_create_tcp_socket returns a descriptor that was closed.
CreateSocket(t) ==
  /\ Step(t, "connect", "connecting")
  /\ attempts[t] < MaxAttempts
  /\ \E f \in Fd :
       /\ kfd[f] = NoCall
       /\ kfd' = [kfd EXCEPT ![f] = cur[t]]
       /\ sock' = [sock EXCEPT ![t] = f]
  /\ attempts' = [attempts EXCEPT ![t] = @ + 1]
  /\ UNCHANGED <<callVars, dead, leaked, ret, heap, srv>>

\* Mutant of ConnectRefused: the attempt is not counted.
ConnectRefusedUncounted(t) ==
  /\ Step(t, "connecting", "connect")
  /\ kfd' = [kfd EXCEPT ![sock[t]] = NoCall]
  /\ sock' = [sock EXCEPT ![t] = Invalid]
  /\ attempts' = [attempts EXCEPT ![t] = @ - 1]
  /\ UNCHANGED <<callVars, dead, leaked, ret, heap, srv>>

\* connect() fails: the socket is closed.
ConnectRefused(t) ==
  /\ Step(t, "connecting", "connect")
  /\ kfd' = [kfd EXCEPT ![sock[t]] = NoCall]
  /\ sock' = [sock EXCEPT ![t] = Invalid]
  /\ UNCHANGED <<callVars, attempts, dead, leaked, ret, heap, srv>>

\* connect() succeeds.
Connect(t) ==
  /\ Step(t, "connecting", IF My(t).proto = "https" THEN "tls" ELSE "header")
  /\ dead' = [dead EXCEPT ![t] = FALSE]
  /\ UNCHANGED <<callVars, sock, attempts, kfd, leaked, ret, heap, srv>>

\* No address is found, no socket can be created, or every try has failed.
ConnectFails(t) ==
  /\ Step(t, "connect", "return")
  /\ Memory(t, {}, Header(t))
  /\ ret' = [ret EXCEPT ![t] = 1]
  /\ UNCHANGED <<connVars, callVars, srv>>

\* SSL_connect returns 1, or 0 when the peer has refused the handshake.
Handshake(t) ==
  /\ Step(t, "tls", "header")
  /\ Memory(t, {"ssl"}, {})
  /\ \E refused \in BOOLEAN : dead' = [dead EXCEPT ![t] = refused]
  /\ UNCHANGED <<callVars, sock, attempts, kfd, leaked, ret, srv>>

\* SSL_connect returns -1: the SSL is freed, the socket stays open.
HandshakeFails(t) ==
  /\ Step(t, "tls", "return")
  /\ Memory(t, {}, Header(t))
  /\ leaked' = leaked \cup {cur[t]}
  /\ sock' = [sock EXCEPT ![t] = Invalid]
  /\ ret' = [ret EXCEPT ![t] = 1]
  /\ UNCHANGED <<callVars, attempts, dead, kfd, srv>>

\* SSL_new returns NULL, which is not looked at.
HandshakeCrashes(t) ==
  /\ Step(t, "tls", "tls")
  /\ process' = "segv"
  /\ UNCHANGED <<connVars, cur, begun, req, out, ret, heap, srv>>

\* What thread t sends goes to whoever its descriptor belongs to; a part counts
\* when the last byte of it has gone.
Receives(t, part) ==
  srv' = IF kfd[sock[t]] = NoCall THEN srv
         ELSE [srv EXCEPT ![kfd[sock[t]]] = Append(@, <<cur[t], part>>)]

\* Mutant of SendHeader: the header is not freed.
SendHeaderKept(t) ==
  /\ Step(t, "header", "payload")
  /\ My(t).fits /\ ~dead[t]
  /\ Receives(t, "header")
  /\ UNCHANGED <<connVars, callVars, ret, heap>>

\* The header is sent and freed.
SendHeader(t) ==
  /\ Step(t, "header", "payload")
  /\ My(t).fits /\ ~dead[t]
  /\ Memory(t, {}, {"header"})
  /\ Receives(t, "header")
  /\ UNCHANGED <<connVars, callVars, ret>>

\* The header is NULL: strlen reads it.
SendHeaderCrashes(t) ==
  /\ Step(t, "header", "header")
  /\ ~My(t).fits
  /\ process' = "segv"
  /\ UNCHANGED <<connVars, cur, begun, req, out, ret, heap, srv>>

\* Mutant of SendHeaderFails: closes the socket, and once more at the end.
SendHeaderFailsClosing(t) ==
  /\ Step(t, "header", "close")
  /\ My(t).fits
  /\ kfd' = [kfd EXCEPT ![sock[t]] = NoCall]
  /\ Memory(t, {}, {"header"})
  /\ ret' = [ret EXCEPT ![t] = 1]
  /\ UNCHANGED <<callVars, sock, attempts, dead, leaked, srv>>

\* Sending the header fails.
SendHeaderFails(t) ==
  /\ Step(t, "header", "close")
  /\ My(t).fits
  /\ Memory(t, {}, {"header"})
  /\ ret' = [ret EXCEPT ![t] = 1]
  /\ UNCHANGED <<connVars, callVars, srv>>

\* The message is sent; without one the send loop has nothing to do.
SendPayload(t) ==
  /\ Step(t, "payload", "receive")
  /\ IF My(t).message THEN Receives(t, "payload") ELSE UNCHANGED srv
  /\ UNCHANGED <<connVars, callVars, ret, heap>>

\* Mutant of SendPayloadFails: reads the response all the same.
SendPayloadFailsIgnored(t) ==
  /\ Step(t, "payload", "receive")
  /\ My(t).message
  /\ UNCHANGED <<connVars, callVars, ret, heap, srv>>

\* Sending the message fails.
SendPayloadFails(t) ==
  /\ Step(t, "payload", "close")
  /\ My(t).message
  /\ ret' = [ret EXCEPT ![t] = 1]
  /\ UNCHANGED <<connVars, callVars, heap, srv>>

\* send() or SSL_write() on a connection the peer has reset raises SIGPIPE.
SendKilled(t) ==
  /\ \/ Step(t, "header", "header") /\ My(t).fits
     \/ Step(t, "payload", "payload") /\ My(t).message
  /\ process' = "sigpipe"
  /\ UNCHANGED <<connVars, cur, begun, req, out, ret, heap, srv>>

\* get_http_response returns 0.
Receive(t) ==
  /\ Step(t, "receive", "close")
  /\ Memory(t, {"out->header", "out->body"}, {})
  /\ ret' = [ret EXCEPT ![t] = 0]
  /\ UNCHANGED <<connVars, callVars, srv>>

\* Mutant of ReceiveFails: frees the response its caller frees again.
ReceiveFailsFreeing(t) ==
  /\ Step(t, "receive", "close")
  /\ Memory(t, {}, {"response"})
  /\ ret' = [ret EXCEPT ![t] = 1]
  /\ UNCHANGED <<connVars, callVars, srv>>

\* Mutant of ReceiveFails: returns without closing the connection.
ReceiveFailsOpen(t) ==
  /\ Step(t, "receive", "return")
  /\ Memory(t, {}, Ssl(t))
  /\ sock' = [sock EXCEPT ![t] = Invalid]
  /\ ret' = [ret EXCEPT ![t] = 1]
  /\ UNCHANGED <<callVars, attempts, dead, kfd, leaked, srv>>

\* It fails before the header ended, in its fields, or in the body.
ReceiveFails(t) ==
  /\ Step(t, "receive", "close")
  /\ \E got \in {{}, {"out->header"}, {"out->header", "out->body"}} :
       Memory(t, got, {})
  /\ ret' = [ret EXCEPT ![t] = 1]
  /\ UNCHANGED <<connVars, callVars, srv>>

\* env_close_socket or env_close_secure_connection.
Close(t) ==
  /\ Step(t, "close", "return")
  /\ Memory(t, {}, Ssl(t))
  /\ kfd' = [kfd EXCEPT ![sock[t]] = NoCall]
  /\ sock' = [sock EXCEPT ![t] = Invalid]
  /\ UNCHANGED <<callVars, attempts, dead, leaked, ret, srv>>

\* Back through fcm_send and libfirebase_fcm_send_bytes.
Return(t) ==
  /\ Step(t, "return", "idle")
  /\ Memory(t, {}, {"endpoint"}
                   \cup (IF My(t).message THEN {"message_enc", "dh", "salt"} ELSE {})
                   \cup (IF ret[t] = 0 THEN {} ELSE {"response"}))
  /\ Settle(t, IF ret[t] = 0 THEN "response" ELSE "null")
  /\ UNCHANGED <<connVars, ret, srv>>

\* env_malloc finds no memory and ends the process.
OutOfMemory(t) ==
  /\ \E at \in {"parse", "decode", "encrypt", "build", "receive"} : Step(t, at, at)
  /\ process' = "exited"
  /\ UNCHANGED <<connVars, cur, begun, req, out, ret, heap, srv>>

\* The application calls libfirebase_free_response.
FreeResponse(c) ==
  /\ process = "up"
  /\ out[c] = "response"
  /\ out' = [out EXCEPT ![c] = "freed"]
  /\ heap' = [heap EXCEPT ![c] =
                [b \in Block |-> IF b \in {"response", "out->header", "out->body"}
                                 THEN @[b] - 1 ELSE @[b]]]
  /\ UNCHANGED <<pc, connVars, cur, begun, req, ret, srv, process>>

\* One step of the call thread t is in.
Advance(t) ==
  \/ ParseFails(t) \/ ParseCrashes(t) \/ ParseSucceeds(t)
  \/ Decode(t) \/ DecodeCrashes(t) \/ Encrypt(t) \/ EncryptFails(t)
  \/ EncryptCrashes(t) \/ BuildHeader(t)
  \/ CreateSocket(t) \/ ConnectRefused(t) \/ Connect(t) \/ ConnectFails(t)
  \/ Handshake(t) \/ HandshakeFails(t) \/ HandshakeCrashes(t)
  \/ SendHeader(t) \/ SendHeaderCrashes(t) \/ SendHeaderFails(t)
  \/ SendPayload(t) \/ SendPayloadFails(t) \/ SendKilled(t)
  \/ Receive(t) \/ ReceiveFails(t)
  \/ Close(t) \/ Return(t) \/ OutOfMemory(t)

Next ==
  \/ \E t \in Thread : Invoke(t) \/ Advance(t)
  \/ \E c \in Call : FreeResponse(c)

Spec == Init /\ [][Next]_vars

\* Every thread that is inside a call goes on with it: the scheduler is fair
\* and no step blocks for ever, the sockets having timeouts of five seconds.
FairSpec == Spec /\ \A t \in Thread : WF_vars(Advance(t))
-----------------------------------------------------------------------------
Places == {"idle", "parse", "decode", "encrypt", "build", "connect", "return"}
            \cup Connected

\* Among the types: no block is freed twice or allocated over another.
TypeOK ==
  /\ pc \in [Thread -> Places]
  /\ cur \in [Thread -> Call \cup {NoCall}]
  /\ sock \in [Thread -> Fd \cup {Invalid}]
  /\ attempts \in [Thread -> 0 .. MaxAttempts]
  /\ dead \in [Thread -> BOOLEAN]
  /\ ret \in [Thread -> {0, 1}]
  /\ begun \in 0 .. MaxCalls
  /\ req \in [Call -> Requests]
  /\ heap \in [Call -> [Block -> {0, 1}]]
  /\ kfd \in [Fd -> Call \cup {NoCall}]
  /\ srv \in [Call -> Seq(Call \X {"header", "payload"})]
  /\ leaked \subseteq Call
  /\ out \in [Call -> {"none", "running", "response", "null", "freed"}]
  /\ process \in {"up", "segv", "sigpipe", "exited"}

\* While a call holds a descriptor, that descriptor is open and its own, and
\* no other call holds it, whatever the other threads open and close.
OwnDescriptor ==
  \A t \in Thread : pc[t] \in Connected =>
    /\ sock[t] \in Fd
    /\ kfd[sock[t]] = cur[t]
    /\ \A u \in Thread \ {t} : sock[u] # sock[t]

\* A descriptor stays open only while the call that opened it uses it, or
\* after that call's TLS handshake has failed.
DescriptorsAccounted ==
  \A f \in Fd : kfd[f] # NoCall =>
    \/ kfd[f] \in leaked
    \/ \E t \in Thread : pc[t] \in Connected /\ sock[t] = f /\ cur[t] = kfd[f]

\* The parts of call c's request, in the order they go out.
Whole(c) ==
  IF req[c].message THEN << <<c, "header">>, <<c, "payload">> >>
  ELSE << <<c, "header">> >>

\* A server receives the request of the call that connected to it, or its
\* beginning: nothing twice, nothing out of order, nothing of another call.
NoCrossTalk ==
  \A c \in Call : srv[c] \in {<<>>, << <<c, "header">> >>, Whole(c)}

\* The blocks of call c that are allocated.
Live(c) == {b \in Block : heap[c][b] = 1}

\* A response that is returned is complete and all there is; freeing it leaves
\* nothing; a call that returns NULL leaves nothing either, except parts of a
\* response it could not read to its end.
BlocksAccounted ==
  \A c \in Call :
    /\ out[c] = "response" => Live(c) = {"response", "out->header", "out->body"}
    /\ out[c] \in {"none", "freed"} => Live(c) = {}
    /\ out[c] = "null" /\ Live(c) # {} =>
         /\ Live(c) \subseteq {"out->header", "out->body"}
         /\ srv[c] = Whole(c)

\* Every call returns, unless the process ends first.
EveryCallReturns ==
  \A c \in Call : out[c] = "running" ~> (out[c] # "running" \/ process # "up")

-----------------------------------------------------------------------------
\* A response is the same to the library before and after it is freed.
Api == INSTANCE FcmApi WITH
  result    <- [c \in Call |-> IF out[c] = "freed" THEN "response" ELSE out[c]],
  delivered <- {c \in Call : srv[c] = Whole(c)},
  up        <- process = "up"

\* The library keeps the promise of its header file: a call ends once, a
\* request is delivered at most once and while its call runs, and a response
\* is returned only when the request was delivered.
ImplementsApi == Api!ApiSpec

\* firebase.h says that a send function returns "NULL on error": an error does
\* not end the application.
ErrorsReturnNull == process # "segv"
=============================================================================
