------------------------------ MODULE Connect -------------------------------
(***************************************************************************)
(* env_connect_to_url (tcp.c): two rounds, each with a lookup of the name  *)
(* (dns.c) and two attempts on every address it gave.  An action is a call *)
(* of the system, its result, and what the loops do with it.  What it took *)
(* for FcmClient to say "connect, or fail after so many sockets" is        *)
(* checked here: every step is one of FcmClient's, or none it can see.     *)
(***************************************************************************)
EXTENDS Integers, Sequences

CONSTANTS Fd,        \* the descriptors socket() may return
          Invalid,   \* no descriptor
          MaxAddrs   \* bound: addresses of one lookup

ASSUME ConnectAssumption ==
  /\ Invalid \notin Fd
  /\ MaxAddrs \in Nat \ {0}

Rounds == 2
Attempts == 2
Lookups == 4

Round == 0 .. Rounds - 1

\* The name is looked up for both families; sockets are of the first only.
Family == {"inet", "inet6"}
Lists == UNION {[1 .. n -> Family] : n \in 1 .. MaxAddrs}

VARIABLES phase,    \* what is called next, or how it ended
          round,    \* i of env_connect_to_url
          lookups,  \* i of env_resolve_address
          addrs,    \* the list addrs points to
          it,       \* the place in it
          attempt,  \* j
          sock,     \* the socket of this attempt
          open,     \* the descriptors open in this call
          lists,    \* address lists that are not freed
          made,     \* history: sockets created
          missed,   \* history: the lookups of each round that failed
          given,    \* history: the addresses each round had, 0 without a lookup
          refused   \* history: the failed attempts on each of them

tried == <<missed, given, refused>>
vars == <<phase, round, lookups, addrs, it, attempt, sock, open, lists, made, tried>>

Init ==
  /\ phase = "lookup"
  /\ round = 0 /\ lookups = 0 /\ it = 0 /\ attempt = 0
  /\ addrs = <<>>
  /\ sock = Invalid
  /\ open = {}
  /\ lists = 0
  /\ made = 0
  /\ missed = [r \in Round |-> 0]
  /\ given = [r \in Round |-> 0]
  /\ refused = [r \in Round |-> [k \in 1 .. MaxAddrs |-> 0]]

\* Where addrs points to a list.
InList == {"socket", "options", "connecting"}

\* The histories count no further than what uses up a round or an address.
Counted(n, most) == IF n < most THEN n + 1 ELSE n

\* Mutant of EndRound: the round is not counted.
EndRoundUncounted ==
  /\ UNCHANGED round
  /\ lookups' = 0
  /\ phase' = "lookup"

\* ++i, to the next round.
EndRound ==
  /\ round' = round + 1
  /\ lookups' = 0
  /\ phase' = "lookup"

\* getaddrinfo() returns 0.
LookupSucceeds ==
  /\ phase = "lookup" /\ round < Rounds
  /\ \E l \in Lists :
       /\ addrs' = l
       /\ given' = [given EXCEPT ![round] = Len(l)]
  /\ phase' = "socket"
  /\ it' = 1
  /\ attempt' = 0
  /\ lists' = lists + 1
  /\ UNCHANGED <<round, lookups, sock, open, made, missed, refused>>

\* It fails and is tried again, or the round ends without addresses.
LookupFails ==
  /\ phase = "lookup" /\ round < Rounds
  /\ \/ lookups + 1 < Lookups /\ lookups' = lookups + 1 /\ UNCHANGED <<phase, round>>
     \/ lookups + 1 = Lookups /\ EndRound
  /\ missed' = [missed EXCEPT ![round] = Counted(@, Lookups)]
  /\ UNCHANGED <<addrs, it, attempt, sock, open, lists, made, given, refused>>

\* The rounds are over: -1.
GiveUp ==
  /\ phase = "lookup" /\ round = Rounds
  /\ phase' = "failed"
  /\ UNCHANGED <<round, lookups, addrs, it, attempt, sock, open, lists, made,
                 tried>>

\* The list is used up and freed.
ListEnds ==
  /\ attempt + 1 = Attempts /\ it = Len(addrs)
  /\ addrs' = <<>> /\ it' = 0 /\ attempt' = 0
  /\ lists' = lists - 1
  /\ EndRound

\* Mutant of AttemptFails: j is not set to 0 for the next address.
AttemptFailsKeeping ==
  \/ /\ attempt + 1 < Attempts
     /\ attempt' = attempt + 1
     /\ phase' = "socket"
     /\ UNCHANGED <<addrs, it, lists, round, lookups>>
  \/ /\ attempt + 1 = Attempts /\ it < Len(addrs)
     /\ it' = it + 1
     /\ phase' = "socket"
     /\ UNCHANGED <<addrs, attempt, lists, round, lookups>>
  \/ ListEnds

\* Mutant of AttemptFails: the list is not freed at its end.
AttemptFailsLeaking ==
  \/ /\ attempt + 1 < Attempts
     /\ attempt' = attempt + 1
     /\ phase' = "socket"
     /\ UNCHANGED <<addrs, it, lists, round, lookups>>
  \/ /\ attempt + 1 = Attempts /\ it < Len(addrs)
     /\ it' = it + 1 /\ attempt' = 0
     /\ phase' = "socket"
     /\ UNCHANGED <<addrs, lists, round, lookups>>
  \/ /\ attempt + 1 = Attempts /\ it = Len(addrs)
     /\ addrs' = <<>> /\ it' = 0 /\ attempt' = 0
     /\ EndRound
     /\ UNCHANGED lists

\* ++j: the address once more, the next address, or the end of the list.
AttemptFails ==
  \/ /\ attempt + 1 < Attempts
     /\ attempt' = attempt + 1
     /\ phase' = "socket"
     /\ UNCHANGED <<addrs, it, lists, round, lookups>>
  \/ /\ attempt + 1 = Attempts /\ it < Len(addrs)
     /\ it' = it + 1 /\ attempt' = 0
     /\ phase' = "socket"
     /\ UNCHANGED <<addrs, lists, round, lookups>>
  \/ ListEnds

Refusal ==
  /\ refused' = [refused EXCEPT ![round][it] = Counted(@, Attempts)]
  /\ UNCHANGED <<missed, given>>

\* socket() returns a descriptor.
SocketCreated ==
  /\ phase = "socket"
  /\ \E f \in Fd \ open :
       /\ sock' = f
       /\ open' = open \cup {f}
  /\ made' = made + 1
  /\ phase' = "options"
  /\ UNCHANGED <<round, lookups, addrs, it, attempt, lists, tried>>

\* socket() fails.
SocketFails ==
  /\ phase = "socket"
  /\ AttemptFails
  /\ Refusal
  /\ UNCHANGED <<sock, open, made>>

\* The four calls of setsockopt() succeed.
OptionsSet ==
  /\ phase = "options"
  /\ phase' = "connecting"
  /\ UNCHANGED <<round, lookups, addrs, it, attempt, sock, open, lists, made,
                 tried>>

CloseSocket ==
  /\ open' = open \ {sock}
  /\ sock' = Invalid

\* Mutant of OptionsFail: the socket is not closed.
OptionsFailOpen ==
  /\ phase = "options"
  /\ AttemptFails
  /\ Refusal
  /\ sock' = Invalid
  /\ UNCHANGED <<open, made>>

\* One of them fails.
OptionsFail ==
  /\ phase = "options"
  /\ CloseSocket
  /\ AttemptFails
  /\ Refusal
  /\ UNCHANGED made

\* connect() fails, as it must for an address of the other family.
Refused ==
  /\ phase = "connecting"
  /\ CloseSocket
  /\ AttemptFails
  /\ Refusal
  /\ UNCHANGED made

\* Mutant of Connected: the list is freed by nobody.
ConnectedKeepingList ==
  /\ phase = "connecting" /\ addrs[it] = "inet"
  /\ phase' = "connected"
  /\ UNCHANGED <<round, lookups, addrs, it, attempt, sock, open, lists, made,
                 tried>>

\* connect() succeeds: the list is freed and the socket returned.
Connected ==
  /\ phase = "connecting" /\ addrs[it] = "inet"
  /\ phase' = "connected"
  /\ lists' = lists - 1
  /\ addrs' = <<>> /\ it' = 0 /\ attempt' = 0
  /\ UNCHANGED <<round, lookups, sock, open, made, tried>>

Next ==
  \/ LookupSucceeds \/ LookupFails
  \/ SocketCreated \/ SocketFails
  \/ OptionsSet \/ OptionsFail
  \/ Refused \/ Connected \/ GiveUp

Spec == Init /\ [][Next]_vars

\* Every call of the system returns: lookups give up by themselves, sockets
\* have timeouts.
FairSpec == Spec /\ WF_vars(Next)
-----------------------------------------------------------------------------
TypeOK ==
  /\ phase \in {"lookup", "connected", "failed"} \cup InList
  /\ round \in 0 .. Rounds
  /\ lookups \in 0 .. Lookups - 1
  /\ addrs \in Lists \cup {<<>>}
  /\ it \in 0 .. MaxAddrs
  /\ attempt \in 0 .. Attempts - 1
  /\ sock \in Fd \cup {Invalid}
  /\ open \subseteq Fd
  /\ lists \in {0, 1}
  /\ made \in 0 .. Rounds * Attempts * MaxAddrs
  /\ missed \in [Round -> 0 .. Lookups]
  /\ given \in [Round -> 0 .. MaxAddrs]
  /\ refused \in [Round -> [1 .. MaxAddrs -> 0 .. Attempts]]

\* On every way out the list of addresses is freed, once and not while it is
\* in use; the only descriptor kept is the one returned.
NothingKept ==
  /\ phase \in InList <=> lists = 1
  /\ open = IF phase \in {"options", "connecting", "connected"} THEN {sock} ELSE {}

\* A round is used up by four failed lookups, or by two failed attempts on
\* every address of the list its lookup gave.
Exhausted(r) ==
  \/ missed[r] = Lookups
  \/ given[r] > 0 /\ \A k \in 1 .. given[r] : refused[r][k] = Attempts

\* It fails only when each of the two rounds is used up: no address of a list
\* is passed over, none is tried once only, and no round is left out.
FailsOnlyExhausted ==
  phase = "failed" => \A r \in Round : Exhausted(r)

\* The loops end.
Returns == <>(phase \in {"connected", "failed"})
-----------------------------------------------------------------------------
\* The call of http_do_post that is waiting for its connection, as FcmClient
\* sees it.
Caller == "caller"
Request == [proto |-> "http", message |-> FALSE, keys |-> "good", fits |-> TRUE]

\* Where the caller is in FcmClient.
PcOf == [lookup |-> "connect", socket |-> "connect", options |-> "connecting",
         connecting |-> "connecting", connected |-> "header", failed |-> "return"]

Client == INSTANCE FcmClient WITH
  Thread <- {Caller}, MaxCalls <- 1, Requests <- {Request},
  MaxAttempts <- Rounds * Attempts * MaxAddrs,
  pc       <- [t \in {Caller} |-> PcOf[phase]],
  cur      <- [t \in {Caller} |-> 1],
  sock     <- [t \in {Caller} |-> sock],
  attempts <- [t \in {Caller} |-> made],
  dead     <- [t \in {Caller} |-> FALSE],
  ret      <- [t \in {Caller} |-> IF phase = "failed" THEN 1 ELSE 0],
  begun    <- 1,
  req      <- [c \in {1} |-> Request],
  heap     <- [c \in {1} |-> [b \in {"response", "endpoint", "p256_dec", "auth_dec",
                 "message_enc", "dh", "salt", "header", "ssl", "out->header",
                 "out->body"} |-> IF b = "header" /\ phase # "failed" THEN 1 ELSE 0]],
  kfd      <- [f \in Fd |-> IF f \in open THEN 1 ELSE 0],
  srv      <- [c \in {1} |-> <<>>],
  leaked   <- {},
  out      <- [c \in {1} |-> "running"],
  process  <- "up"

\* Every step is CreateSocket, ConnectRefused, Connect or ConnectFails of
\* FcmClient, or changes nothing it has: the sockets of one call are as many
\* as it allows, and each is closed before the next.
StepsOfClient == [][Client!Advance(Caller)]_(Client!vars)
=============================================================================
