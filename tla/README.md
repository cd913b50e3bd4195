# Verification of libfirebase

libfirebase is a C library that sends a message to a browser or phone through a
push service: it encrypts the message for the receiver, opens a TCP or TLS
connection to the endpoint, posts the request and returns the HTTP response.
This directory holds TLA+ specifications of what it does, the TLC
configurations that check them on small instances, and TLAPS proofs of the
properties for instances of any size.

Sources are named relative to `src/src/` below (`http.c` is `src/src/http/http.c`,
`tcp.c`, `ssl.c`, `dns.c`, `log.c` are in `src/src/env/linux/`).

## 1. The system

| component | state | operations | modelled in |
|---|---|---|---|
| API (`libfirebase.c`, `firebase.h`) | the response handed to the application | init, send, send bytes, free response | `FcmApi`, `FcmClient`, `Startup` |
| FCM request (`fcm.c`) | blocks on the heap: endpoint, decoded keys, ciphertext, `dh`, `salt`; arrays on the stack | `fcm_send`, `fcm_send_no_payload`, `send_notification` | `FcmClient`, `RequestHeader` |
| HTTP request (`http.c`) | header block, socket or `SSL` | `http_do_post`, `http_build_header`, `http_parse_endpoint` | `FcmClient`, `RequestHeader`, `Endpoint` |
| HTTP response (`http.c`) | header buffer, body buffer, lengths | `get_http_response`, `free_firebase_response` | `HttpResponse`, `FcmClient` |
| TCP (`tcp.c`) | a descriptor, the list of addresses | create, connect, close, send loop, read loop | `Connect`, `SendLoop`, `HttpResponse`, `FcmClient` |
| TLS (`ssl.c`) | `SSL`, `SSL_CTX`, the array of mutexes | init, lock callback, handshake, close, send loop, read loop | `Startup`, `SendLoop`, `HttpResponse`, `FcmClient` |
| Encryption (`encryption.c`, linux and common) | temporaries of one call | ECDH, HKDF, AES-GCM, info chunk; base64 | `Encrypt`; `Base64` |
| Names (`dns.c`) | none | lookup with retries | `Connect` |
| Sleep (`misc.c`) | none | `env_sleep` | `Sleep` |
| Logging (`log.c`) | descriptor, flag; the struct of `gmtime()` | init; write | `Startup`; `LogLine` |

Interactions.  `libfirebase_fcm_send_bytes` calls `fcm_send`, which parses the
endpoint, decodes the keys, encrypts, and calls `http_do_post`; that builds the
header, connects, shakes hands, sends the header and the message through the
send loops, reads the response through the read loops and closes.  Everything
is synchronous: a call runs on the thread of the application that made it.
Threads share the heap, the table of file descriptors, the log descriptor, the
mutexes of OpenSSL, and the process itself: a crash, a SIGPIPE or an exit in
one call ends all calls.

What is hard: the network cuts data up, stalls and resets at any point; every
failure has to release by hand what exists so far, in an order that differs
between http and https; descriptors are reused by other threads as soon as they
are closed; lengths are computed in unsigned and signed ints of the same width.
`PROJECT.json` lists each such hazard at its line, with the properties that
would catch it.

What makes each component correct:

* send loop: bytes leave in order, once, all of them before 0 is returned;
  a stalled `SSL_write` is repeated unchanged; the loop ends.
* response: a reported response has the server's body; a complete reply is not
  reported as an error; writes stay in the buffers; the function returns.
* call: blocks are freed once, descriptors are closed by their owner only and
  not kept, requests reach their own server once and in order, a response
  means that the request was sent, every call returns.
* API: a call ends once, with a response or NULL.
* connecting: the list of addresses is freed once, no socket is kept but the one
  returned, no address is given up early, the loops end.
* initialisation: locks exclude each other and are given back, whatever
  initialisations overlap, as long as no thread is in OpenSSL meanwhile and
  none fails; log_fd ends as a descriptor, so that lines reach the log.
* encryption: nothing is left when any call fails; the receiver can derive the
  keys from what is sent.
* texts: the parts of an address, the fields of a header, the digits of a key
  and the lines of the log are what they should be; only texts the code prints
  without a bound can exceed their buffers.

## 2. The modules

`Stream` - bytes are identified with their position in the buffer or the stream
they come from, so that "what has been moved" is a sequence of positions, and
"in order, once, without a gap" is `Span(0, n)`.

`SendLoop` - `env_send_n_tcp_data` and `env_send_n_secure_data`, which have the
same control.  `transport` says which one runs.  `offset`, `retry`, `data_len`
are the variables of the code; `Want` is the window of the next call, computed
modulo `W` like the code's unsigned int; `wire` is what has left; `pending` is
OpenSSL's memory of a stalled `SSL_write`, parts of which may have left.
`Accepted(n)` is a call that returns `n`, `Stalled(m)` one that fails with
EINTR, EAGAIN or WANT_*, `Failed` any other error, `BrokenPipe` the SIGPIPE of
a `send` without MSG_NOSIGNAL.  `calls` is a history variable.

`HttpResponse` - `get_http_response` with the read loops it calls.  A reply is
a record: the length of its header, the length of its body, the positions that
are NUL, how much of it arrives, its Content-Length, whether its status line
parses.  `HeaderPart`, `HeaderEnds`, `HeaderEndsNAN`, `BodyPart` are one
successful read and all that follows it up to the next read; `HeaderFull`,
`BodyRefused`, `ReadStalls`, `ReadFails` are the ways to read nothing.  `body`
is what `out->body` holds.  `strcpy` is modelled by what it does: it stops at
the first NUL.  `ToInt` and the `% W` are the conversions of the lengths.

`FcmApi` - the abstract specification: what `firebase.h` promises.  A call
begins, its request is delivered at most once while it runs, and it ends once,
with a response only if the request was delivered.

`FcmClient` - the threads of an application in `libfirebase_fcm_send_bytes`,
one action per step of a call (the actions are listed by `Advance`).  `heap`
counts every block of every call, `kfd` is the kernel's table of descriptors,
`sock` the descriptor a thread believes it has, `srv` what each server has
received, `out` what each call has returned.  What a thread sends goes to the
owner of its descriptor in `kfd`, not to the connection it believes to have.
What happens inside the sending and receiving steps is `SendLoop` and
`HttpResponse`: here they succeed, fail, or (sending) raise SIGPIPE.  A step
that uses a result nobody looked at, or reads memory that is not its own, has a
crash for an outcome: `ParseCrashes`, `DecodeCrashes`, `EncryptCrashes`,
`HandshakeCrashes`, `SendHeaderCrashes`.  A part of
a request counts as received when its last byte has gone, which the send loop
reports exactly (`ExactDelivery`).

`FcmClient` has no view into the encryption or the connect loop: `Encrypt`,
`EncryptFails`, `EncryptCrashes` and `CreateSocket` to `ConnectFails` stand for
them.  The modules `Encrypt` and `Connect` are those functions in detail, and
each shows with `StepsOfClient` that its steps are steps of `FcmClient`: one
thread is in the call, the variables of the client are computed from those of
the detailed module, and every step is one of `Client!Advance` or changes
nothing the client has.

`Connect` - `env_connect_to_url` with `env_create_tcp_socket`,
`env_connect_to_address` and `env_resolve_address`: two rounds, four lookups
each, two attempts for each address.  A list of addresses is a sequence of
families; `socket()` makes IPv4 sockets only, so an IPv6 address can only be
refused.  `AttemptFails` is `++j` and what it leads to, `ListEnds` and
`EndRound` are shared by the ways to the next round.  The pauses between the
attempts change nothing and are left out; their length is `Sleep`.  `missed`,
`given` and `refused` are history variables: for each round its failed lookups,
the addresses its list had, and the failed attempts on each of these.

`Startup` - `libfirebase_init` called from several threads, while others write
lines or are in sections OpenSSL guards with `lock_callback`.  An action makes
one access to a shared variable whose order others can tell.  `env_logInit`
writes the result of `open()` to `log_fd` (`OpenLog`, `OpenLogFails`) and reads
`log_fd` again (`LogOpened`, `LogUnopened`), which by then can be another
thread's; `env_logWrite` reads `log_enabled` first and `log_fd` at its end.  Two
variables may be read together with others, `mtx_nr` and `callback`, which keep
their value once it is set; and `ssl_mtx` is read in the step that uses the
mutex, since only an array of another initialisation could come between.
`arrays` keeps every array there was, since a thread that waits has computed its
mutex from the array of that moment (`from`).  A mutex is free, locked, or `Raw`:
what `pthread_mutex_lock` does with one that was not initialised is undefined
and its result is ignored (`ssl.c:34`), so that it may return and keep nobody
out (`LockedRaw`), or never return.  `misused` records whether OpenSSL was in
use during an initialisation, or before the first was complete.

`Encrypt` - `env_prime256v1_aesgcm_encrypt_message` and the static functions it
calls, an action for each call of OpenSSL or `env_malloc` that succeeds and one
for each that fails, with what is freed then.  `heap` maps the blocks, named as
in the code, to what they hold, as terms: `Secret(d, p)` is the secret of a
private key and a point, equal for the two sides of an exchange, `Hkdf`,
`InfoChunk` and `Sealed` keep their arguments.  So `Reading`, what a receiver
derives from the header and his own key, can be compared with what the message
was sealed with.  Calls whose result the code does not look at leave `Garbage`
or crash, and set `unseen`.  A user key is what it begins with and how many bytes
it has; `env_create_info_chunk` takes that number as a uint16_t, so that the
chunk has the first `len % 65536` of them.

`RequestHeader`, `Endpoint`, `Base64`, `Sleep`, `LogLine` - functions that share
no state with anything else.  `RequestHeader` keeps the lengths of texts and
the constants of the code; `Endpoint` and `Base64` keep the characters, which
are what they are about, and state their results by cutting up the address or
the bits as a whole; an address without one of the prefixes is seven characters
of another, or fewer, of which `env_starts_with` reads beyond the end
(`PrefixOverread`).  `Sleep` counts ticks of time, and may be interrupted any
number of times: the time is counted as long as there were no more than
`MaxSignals` signals.  `LogLine` has several threads
in `env_logWrite`, sharing the struct `gmtime()` returns, which `strftime()`
reads in two parts.

`Helpers` composes these five: a behaviour is one call of one of them (or
threads that log), and its properties put the same question to each.  It states
what each assumes of its constants; those of `LogLine` are given the sizes of
the code.

`MCSendLoop`, `MCHttpResponse`, `MCFcmClient`, `MCConnect`, `MCStartup`,
`MCEncrypt` and `MCHelpers` define the constants of the runs.  `StreamProofs`,
`SendLoopProofs`, `HttpResponseProofs`, `FcmClientProofs`, `ConnectProofs`,
`StartupProofs`, `EncryptProofs` and `HelpersProofs` hold the proofs.
Definitions marked "Mutant of" change one definition the way a mistake in the
code would; no specification uses them.  They show that each property would
notice.

## 3. The runs

| run | shows | bounds |
|---|---|---|
| `SendLoop.cfg` | order, completeness, repetition of stalled writes, number of calls, termination, for both loops | windows of 3 bytes, all lengths 0..11 in a world of 12 unsigned values: no window, one, several, a part, and lengths whose last window wraps |
| `HttpResponse.cfg` | integrity of the body, bounds of its buffer, acceptance of complete replies, termination | header buffer of 5 bytes, 16 unsigned values: headers that are short, just fit and do not fit; bodies of 0, 1, 3, `MaxInt`, `MaxInt + 2`, `W - 1` bytes; lengths right, wrong, absent, not a number, beyond an unsigned int; one NUL anywhere in the first part; cut off anywhere |
| `HttpResponseNoLength.cfg` | finding: success without the body | three-byte bodies |
| `FcmClient.cfg` | descriptors, servers, and that `FcmClient` implements `FcmApi` | two threads, two descriptors, three calls: one thread can end a call and begin another, reusing a descriptor, while the other is in its first |
| `FcmClientPaths.cfg` | heap and termination on every path | two threads, one descriptor, two calls, two attempts to connect, one request for each path: bad endpoint, http without message, header too long, https with good, bad, empty keys |
| `Connect.cfg` | release of the list and the sockets, perseverance, termination, that `Connect` takes steps of `FcmClient` | lists of up to three addresses, in every order of the families: first, middle, last; rounds, attempts and lookups are the code's; two descriptors show one kept for another |
| `Startup.cfg` | exclusion, locks left, initialised mutexes, when lines can be lost | three threads, so that two can be in OpenSSL, or in two initialisations, while a third initialises; two locks; three initialisations: one complete and two that overlap |
| `Encrypt.cfg` | release of all blocks, whether the receiver can read the message, that `Encrypt` takes steps of `FcmClient` | every call may fail; user keys that begin with the user's point, have another format or are off the curve, of 64, 65, 66, 65536 + 65 and 65536 + 66 bytes: shorter than a point, a point, longer, and so long that the length as a uint16_t is that of a point again, or one more |
| `EncryptErrors.cfg` | finding: results not looked at | the same |
| `Helpers.cfg` | texts, blocks, pauses, lines and termination of the functions that share no state | all addresses with up to five characters out of five behind a prefix, or behind another beginning, or without any, a port of nine bits; request lines at every length around the bound of the block, keys around that of their array; all inputs of base64 up to six of five bytes and six characters, hence every rest after a whole group; pauses with any number of signals, their time counted up to three, and a three-bit unsigned int; two threads logging texts on both sides of each bound, the sizes being the code's |
| `FcmLongHeader.cfg`, `FcmEmptyKey.cfg` | findings: an error ends the process | one call |

Deadlock is not checked: the functions return, the application stops calling
and the process may end, and nothing is left to do then; in `Startup` threads
can come to wait for mutexes of an array that was replaced.

Named bounds: `DataLens`, `Chunk`, `W`, `HdrCap`, `Replies` are the parameters
of the code scaled down; `MaxCalls` bounds what the application does;
`MaxAttempts` bounds the sockets one `env_connect_to_url` creates (in the code
4 for each address of the host, which `StepsOfClient` of `Connect` shows);
`MaxAddrs` bounds the list a lookup returns, `MaxInits` the initialisations,
`MaxSignals` the signals up to which the time of a pause is counted (not the
signals), `MaxTime` the clock, and `MaxLength` (in `Endpoint` and `Base64`) the
texts.  `Head` and `Lengths` are the user keys that are tried.

The properties of `Helpers.cfg` join those of its modules: `OverrunOnlyUnbounded`
is `OnlyLineTooLong`, `OnlyKeyTooLong`, `WithinBlock` and `OverrunOnlyCut`;
`EndpointRight` is `PartsRead`, `PortRead` and `PathAbsolute`; `HeaderRight` is
`HeaderWhole` and `RefusedOnlyLong`; `Base64Right` is `EncodedRight` and
`DecodedRight`; `PauseRight` is `NotShort` and `NotLong`; `LineRight` is
`StaleOnlyLong` and `StampOfOwnTime`.

Fairness.  `SendLoop` and `HttpResponse` assume that a system call that was
issued returns (weak fairness of `Next`): every socket has SO_RCVTIMEO and
SO_SNDTIMEO of five seconds (`tcp.c:35`, `tcp.c:44`).  `FcmClient` assumes
weak fairness of `Advance(t)` for each thread: the scheduler runs every thread
and no step blocks for ever, for the same reason.  `Connect` assumes weak fairness of
`Next`, lookups and `connect()` giving up by themselves, and `Helpers` the same
of functions that only compute or sleep.  Its `Returns` assumes more of
`env_sleep`: that from some time on no signal interrupts it.  With one that
recurs before each sleep is over, `usleep()` returns -1 every time and
`misc.c:31-38` never ends; `Sleep` has these behaviours, and the property
leaves them out.  `Connect` and `FcmClient` leave the pauses out altogether:
their liveness, too, takes `env_sleep` to return.  `Startup`, `LogLine` and `Encrypt`
need none.  Nothing is assumed of the
application: it need not call, nor free responses.

## 4. Findings

1. A reply whose length is not given by the exact text `Content-Length: ` is
   reported as a success with an empty body (`http.c:131`); `firebase.h:55`
   promises the body.
2. `http_do_post` does not look at the NULL `http_build_header` returns when
   the header does not fit, for instance because of a long API key or path
   (`http.c:209`): the process ends in `strlen(NULL)`; `firebase.h:56` promises
   NULL.
3. The encryption does not look at the results of `EC_POINT_new`
   (`encryption.c:138`), `ECDH_compute_key` (229; its -1 becomes a length of
   4 GB) and `HMAC_*` (239 to 278): a failure crashes, or seals the message
   with keys made of what lay in memory; `firebase.h:56` promises NULL.
4. An empty key makes `fcm_send` read the byte at index UINT_MAX in order to
   log it (`fcm.c:137`, `fcm.c:139`).

Observed, and part of the properties as they stand: a failed TLS handshake
leaves its socket open (`http.c:228`; `DescriptorsAccounted`), a response that
cannot be read to its end leaves its parts allocated (`libfirebase.c:44`;
`BlocksAccounted`), a NUL in the part of the body that comes with the header
makes a complete reply fail (`http.c:146`; `CompleteReplyAccepted` leaves such
replies out).  Further: a user key longer than 65 bytes is accepted and gives a
message nobody can read, unless it is longer by a multiple of 65536 bytes, which
the uint16_t of `encryption.c:233` (common) cuts off (`ReadableIfExact`); a
request line longer than the block is printed into it (`OnlyLineTooLong`), and an api key of more than 1004
characters into an array of 1024 (`OnlyKeyTooLong`); a text of more than 899
characters makes a line of the log end in bytes of the stack, one of more than
994 writes beyond its buffer (`StaleOnlyLong`, `OverrunOnlyCut`); two threads
that log at the same moment can write each other's time, or one that neither
has read and that is still to come (`StampOfOwnTime`); a signal in `usleep()`
makes a pause of half a second one of more than an hour (`NotLong`), and one that
recurs makes it endless (`Returns` leaves it out); the prefixes are compared with
an address of any length, beyond the end of a shorter one (`misc.c:19`,
`PrefixOverread`); a port wraps at 65536 (`PortRead`), and a text after it that does not begin with a
slash becomes the path (`PathAbsolute`); lookups that give IPv6 addresses only
make connecting fail without a fault of the network (`FailsOnlyExhausted` counts
their attempts like others); initialising while threads are in OpenSSL breaks
its locks, and so does an initialisation that fails after a complete one, for the
mutexes it left raw (`Exclusion`); two initialisations that overlap can take each
other's result of `open()` (`LinesReachLog`); `SSL_new` returning NULL crashes the
handshake (`ssl.c:86`, `HandshakeCrashes`).

## 5. Proofs

Every safety property of the passing runs, and the refinements, are theorems.
They assume of the constants only `SendAssumption` (`Chunk` positive and below
`W`, lengths below `W`), `ReplyAssumption` (widths and the types of replies),
`ClientAssumption` (`Invalid` is no descriptor, bounds are naturals), and the
assumptions of `Connect`, `Startup`, `Encrypt` and `Helpers`, which are of the
same kind: nothing about how many threads, descriptors, calls, locks or
addresses there are, how wide an int is, or how long a buffer, a reply or a text.
`Helpers` assumes in addition what a character can be worth, that both default
ports fit the integer that holds a port, that points and salts are no longer in
base64 than their 65 and 16 bytes make them, that a number of bytes has at most
20 digits, and that there is a longest text to log.

`StreamProofs` - `SpanAppend`: a span followed by the next bytes is a span.

`SendLoopProofs` - `TypeCorrect`, `DeliveryExact`, `RetriesRepeat`,
`OverrunNearLimit`, `CallsAreBounded`.  `ExactDelivery` is not inductive: what
has left is `Span(0, offset)` only when no stalled `SSL_write` has sent a part
of its window.  `IInv` says that what has left is `Span(0, offset +
pending.out)`, and `PendingIsNext` that what is pending begins at `offset` and
is the window the loop will ask for again; so the bytes the repeated call
accepts continue the span.  One lemma per action.

`HttpResponseProofs` - `TypeCorrect`, `BodyIsIntact`, `BodyStaysInside`,
`CompleteRepliesAccepted`.  `IInv` separates what holds while the header is
read (`InHeader`), what holds of any body (`InBody`: it holds no more than has
arrived, and if as much, just that) and what a well framed reply adds
(`InFrame`).  The middle part is needed because a NUL makes `len_received`
smaller than what has arrived: `BodyIntact` holds since the body can reach its
length only if nothing was cut off.

`FcmClientProofs` - the invariant comes in four layers, each
inductive with those before it:

| layer | says | gives |
|---|---|---|
| `CallInv` | a running thread is in a call of its own, begun and not returned | the frame for the others |
| `FdInv` | a connected thread's descriptor is open for its call; others hold none | `OwnDescriptor`, `DescriptorsAccounted` |
| `SrvInv` | what its server has at each place of a call | `NoCrossTalk`, `ImplementsApi` |
| `HeapInv` | what is allocated at each place of a call | `TypeOK` (no double free), `BlocksAccounted` |

`OwnDescriptor` is not inductive without `CallInv`: that two threads never have
the same descriptor follows from the kernel having it for one call, and from no
two threads being in the same call.  `NoCrossTalk` needs `FdInv`, since what is
sent goes to the owner of the descriptor.  In `HeapInv` a failing receive may
leave parts of a response, so the places `close` and `return` are described up
to those parts, and the parts imply, through `SrvInv`, that the whole request
had gone.  The layers hold in both `FcmClient` configurations.  The refinement
(`ClientImplementsApi`) maps `Invoke` to `Begin`, the step by which a server
gets the last part to `Deliver`, the returns to `Settle`, the crashes to
`Stop`, and everything else, `FreeResponse` included, to stuttering.

`ConnectProofs` - `TypeCorrect`, `KeepsNothing`, `ExhaustsFirst`,
`ConnectStepsOfClient`.  `NothingKept` is inductive once it is known where in
the list the loop is (`Places`).  `FailsOnlyExhausted` is not: it needs what has
been used up so far.  `Progress` says that
the rounds that are over are used up and the later ones not begun, and of the
current one that its failed lookups are the counter of the code, and that the
addresses before the one the loop is at have had both attempts, that one as many
as `attempt`, and those behind it none.  `Used` bounds the sockets made by the place in the
loops, which gives the bound of `FcmClient`.

`StartupProofs` - `TypeCorrect`, `SectionsExclude`, `NoLockIsLeft`,
`MutexesInitialised`, `LinesAreWritten`.  As long as nothing was misused, a
thread in a section holds the mutex of its lock in the array in use, or that
mutex is raw (`Held`): every initialisation that replaces the array while a
thread is inside sets `misused`.  So `Exclusion` is left with the raw mutexes, of
which there are none unless `pthread_mutex_init` has failed.  `AllInitialised` rests on `Pending`: of the array in use, every
mutex not yet initialised is still ahead of the loop index of some thread in
`env_ssl_init`; `LogFd` says that
`log_fd` is -1 only while some thread's `open()` has failed, or a thread that
found it so has not yet put it back.

`EncryptProofs` - `TypeCorrect`, `LeavesNothing`, `ReadableExactly`,
`EncryptStepsOfClient`.  `Accounted` is a table of the blocks that live at each
point of the function (`LiveAt`); each action frees and allocates what leads
from one row to another, which excludes double frees and leaks.  `KeyChecked`
says that beyond the checks the key is a point of the curve, and `Values` what
each live block holds as long as `unseen` is false, or which of them may be
garbage when it is true; with `ExactKey`, by which what the chunk has is the
user's point just for keys of 65 bytes modulo 65536 that begin with it, they
decide `ReadableIfExact` both ways.

`HelpersProofs` - `TypesCorrect`, `Blocks`, `Endpoints`, `Headers`, `Base64s`,
`Pauses`, `LogLines`: each states a conjunct for every function, and they share
one inductive invariant, `Inv`, which is that of the function called.

| invariant | says | why it is needed |
|---|---|---|
| `HeaderInv` | the offset is the sum of the fields counted so far, each of which was compared with what was left of the block | the block is exceeded, or a header refused, by the field that comes next |
| `SleepInv` | what was slept and what is left make up what was asked, but for a part of a second for each signal, or an unsigned int for each late one | `NotLong` and `NotShort` only see what was slept; all of this as long as time is counted (`SleepTimes`) |
| `LogInv` | `LogAt`: what a thread has put into its line at each place; `LogOwn`: as long as no other thread has called `gmtime()`, the struct holds the thread's own time | the time is read in two parts, with other threads in between |
| `EndpointInv` | at each place, which part of the address has been read, and that the port is the number of the digits behind the colon so far (`EndpointRead`) | the address is compared as a whole with the parts returned |
| `EncodingInv`, `DecodingInv` | whole groups have been read and written; each digit written is the `Sextet` of its place, each byte the `Octet` | bits of a byte go to digits on both sides |

`EncodedBits` and `DecodedBits` then say that sequences of such digits or bytes
are bit by bit their input, as `Base64Right` states it.  The functions by which
`RequestHeader` adds up lengths and `Endpoint` reads numbers are recursive
functions over the naturals.  That they are defined (`Recursion`) and what they
give rests on `Induction`: a set of naturals that has 0 and with each number
the next has them all, since the least one missing would have a predecessor.

Only model-checked: the liveness properties (`Returns` of the runs and
`EveryCallReturns`), which are out of the prover's reach.

## 6. Plan

What could follow:

1. `SendLoop` and `HttpResponse` shown to take steps of `FcmClient`, as
   `Connect` and `Encrypt` are, and `Encrypt` using the results of `Base64`.
2. `Connect` and `Sleep` composed, for the time one `env_connect_to_url` can
   take.

## 7. Not modelled

The cryptography itself (OpenSSL's; its results are terms), the wording of
headers and log lines, the initialisation of OpenSSL's tables and of `rand()`,
`env_utcTime`, which nothing calls, the tests and the samples.  `Sleep` takes
`usleep()` for the one of glibc, which accepts any number of microseconds.
The SIGPIPE of `send()` and the exit of `env_malloc` are outcomes of the models;
nothing in the repository says what should happen then, so that no property is
about them.
