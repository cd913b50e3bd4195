------------------------------ MODULE Encrypt ------------------------------
(***************************************************************************)
(* env_prime256v1_aesgcm_encrypt_message (linux/encryption.c): an action   *)
(* is a call of OpenSSL or of env_malloc, its result, and what the code    *)
(* frees when it fails.  Data are terms: what a block holds says how it    *)
(* was derived, so that what the user derives from the outputs and his own *)
(* key can be compared with what the message was encrypted with.           *)
(***************************************************************************)
EXTENDS Integers

CONSTANTS Head,     \* how the user keys that are tried begin
          Lengths   \* and how many bytes they have

\* The 65 bytes at the user key are the point of the user, as far as the key
\* goes; they begin with another byte than 4; or they are no point of the curve.
ASSUME EncryptAssumption ==
  /\ Head \subseteq {"point", "compressed", "offcurve"}
  /\ Lengths \subseteq Nat

\* The bytes of a point, and the numbers a uint16_t has.
PointLength == 65
Span == 65536

\* The blocks of the function and of those it calls, named as there.
Block == {"curve", "pkey", "pub_key_x", "pub_key_y", "pub_key", "IKM", "PRK",
          "bn", "PublicKey", "info_chunk", "CEK", "Nonce", "data_in", "ctx",
          "ciphertext", "dh_out", "salt_out"}

\* A block that is not allocated, or was freed when it was not, or was
\* allocated over.
Dead == <<"dead">>
Twice == <<"twice">>
Lost == <<"lost">>

\* The terms: the point of a private key and its bytes, the secret of a key
\* and a point, what the key derivation gives, and an encrypted text.
Point(d) == <<"point", d>>
Bytes(p) == <<"bytes", p>>
Web(x) == <<"web", x>>
Secret(d, p) == <<"secret", {Point(d), p}>>
Hkdf(salt, ikm, info) == <<"hkdf", salt, ikm, info>>
InfoChunk(type, user, sender) == <<"info", type, user, sender>>
Sealed(key, iv, text) == <<"sealed", key, iv, text>>
Tagged(x) == <<"tagged", x>>
Padded(data) == <<"padded", data>>
Garbage == <<"garbage">>
Blank == <<"blank">>

\* The private keys of this call and of the user, and what else goes in.
Own == "own"
User == "user"
Salt == <<"salt">>
UserSecret == <<"auth">>
AuthInfo == <<"Content-Encoding: auth">>
Data == <<"data">>

VARIABLES key,      \* userKey
          phase,    \* what is called next, or how it ended
          heap,     \* what each block holds
          unseen    \* history: a call failed and nothing looked at its result

vars == <<key, phase, heap, unseen>>

Init ==
  /\ key \in [head : Head, len : Lengths]
  /\ phase = "curve"
  /\ heap = [b \in Block |-> Dead]
  /\ unseen = FALSE

\* Bytes 1 to 64 are taken for the point: those of a shorter key are what is in
\* memory behind it.
UserPoint == IF key.head = "point" /\ key.len >= PointLength THEN Point(User)
             ELSE Point("stray")

\* As many bytes of userKey go into the chunk as its length says, which
\* env_create_info_chunk takes as a uint16_t.
ChunkLength == key.len % Span
Exact == key.head = "point" /\ ChunkLength = PointLength
UserKey == IF Exact THEN Bytes(Point(User))
           ELSE Bytes(<<"first", ChunkLength, key.head>>)

Live == {b \in Block : heap[b] # Dead}

AfterFree(b) == IF heap[b] = Dead THEN Twice ELSE Dead

Goes(at, to) == phase = at /\ phase' = to /\ UNCHANGED key

Frees(olds) ==
  heap' = [b \in Block |-> IF b \in olds THEN AfterFree(b) ELSE heap[b]]

\* Block new is allocated and filled with value, the blocks olds are freed.
Allocates(new, value, olds) ==
  heap' = [b \in Block |->
             IF b = new THEN IF heap[b] = Dead THEN value ELSE Lost
             ELSE IF b \in olds THEN AfterFree(b) ELSE heap[b]]

Writes(block, value) == heap' = [heap EXCEPT ![block] = value]

\* A call has failed: olds are freed and an error is returned.
Fails(at, olds) == Goes(at, "failed") /\ Frees(olds) /\ UNCHANGED unseen

\* What is freed on the way out of the coordinates of the user's point.
PeerBlocks == {"pub_key", "pub_key_y", "pub_key_x"}

\* What the encryption itself is called with, all of it freed after it.
Derived == {"CEK", "Nonce", "data_in", "PublicKey", "PRK", "IKM", "curve"}
-----------------------------------------------------------------------------
\* generate_prime256v1_curve
NewCurve == /\ Goes("curve", "generate")
            /\ Allocates("curve", Blank, {})
            /\ UNCHANGED unseen
NewCurveFails == Fails("curve", {})

GenerateKey == /\ Goes("generate", "check")
               /\ Writes("curve", Point(Own))
               /\ UNCHANGED unseen
GenerateKeyFails == Fails("generate", {"curve"})

CheckKey == Goes("check", "group") /\ UNCHANGED <<heap, unseen>>
CheckKeyFails == Fails("check", {"curve"})

\* prime256v1_compute_secret
GetGroup == Goes("group", "user") /\ UNCHANGED <<heap, unseen>>
GetGroupFails == Fails("group", {"curve"})

\* prime256v1_compute_user_key: the first byte has to be 4.
NewPeer == /\ Goes("user", "x")
           /\ key.head # "compressed"
           /\ Allocates("pkey", Blank, {})
           /\ UNCHANGED unseen
NewPeerFails == Fails("user", {"curve"})

ReadX == /\ Goes("x", "y")
         /\ Allocates("pub_key_x", UserPoint, {})
         /\ UNCHANGED unseen
ReadXFails == Fails("x", {"pkey", "curve"})

ReadY == /\ Goes("y", "point")
         /\ Allocates("pub_key_y", UserPoint, {})
         /\ UNCHANGED unseen
ReadYFails == Fails("y", {"pub_key_x", "pkey", "curve"})

NewPoint == /\ Goes("point", "coordinates")
            /\ Allocates("pub_key", Blank, {})
            /\ UNCHANGED unseen

\* The result of EC_POINT_new is used without a look at it.
NewPointFails == Goes("point", "crashed") /\ unseen' = TRUE /\ UNCHANGED heap

\* Whether OpenSSL finds out about a point off the curve here or when it
\* checks the key depends on its version.
SetCoordinates == /\ Goes("coordinates", "public")
                  /\ Writes("pub_key", heap["pub_key_x"])
                  /\ UNCHANGED unseen
SetCoordinatesFails == Fails("coordinates", PeerBlocks \cup {"pkey", "curve"})

SetPublicKey == /\ Goes("public", "checkpeer")
                /\ Writes("pkey", heap["pub_key"])
                /\ UNCHANGED unseen
SetPublicKeyFails == Fails("public", PeerBlocks \cup {"pkey", "curve"})

\* Mutant of CheckPeer: the result of the check is not looked at.
CheckPeerUnread == /\ Goes("checkpeer", "peerpoint")
                   /\ Frees(PeerBlocks)
                   /\ UNCHANGED unseen

CheckPeer == /\ Goes("checkpeer", "peerpoint")
             /\ key.head # "offcurve"
             /\ Frees(PeerBlocks)
             /\ UNCHANGED unseen
CheckPeerFails == Fails("checkpeer", PeerBlocks \cup {"pkey", "curve"})

\* Back in prime256v1_compute_secret.
\* Mutant of PeerPointFails: the point is freed with its key, again.
PeerPointFailsTwice == Fails("peerpoint", {"pub_key", "pkey", "curve"})

PeerPoint == Goes("peerpoint", "secret") /\ UNCHANGED <<heap, unseen>>
PeerPointFails == Fails("peerpoint", {"pkey", "curve"})

ComputeSecret == /\ Goes("secret", "prk")
                 /\ Allocates("IKM", Secret(heap["curve"][2], heap["pkey"]), {"pkey"})
                 /\ UNCHANGED unseen

\* Its result -1 becomes the length of the secret, and the key derivation
\* reads 4 GB of it.
ComputeSecretFails == /\ Goes("secret", "crashed")
                      /\ Allocates("IKM", Garbage, {"pkey"})
                      /\ unseen' = TRUE

\* env_generate_hkdf allocates its result; what HMAC_* return is not read, and
\* without them the result is not initialized.
Derives(block, salt, ikm, info, olds) ==
  \/ Allocates(block, Hkdf(salt, ikm, info), olds) /\ UNCHANGED unseen
  \/ Allocates(block, Garbage, olds) /\ unseen' = TRUE

DerivePRK ==
  /\ Goes("prk", "publickey")
  /\ Derives("PRK", UserSecret, heap["IKM"], AuthInfo, {})

\* get_public_key_from_curve
PointToBn == /\ Goes("publickey", "bytes")
             /\ Allocates("bn", heap["curve"], {})
             /\ UNCHANGED unseen

\* Mutant of PointToBnFails: the secret is not freed.
PointToBnFailsLeaking == Fails("publickey", {"PRK", "curve"})

PointToBnFails == Fails("publickey", {"PRK", "IKM", "curve"})

BnToBytes == /\ Goes("bytes", "cekinfo")
             /\ Allocates("PublicKey", Bytes(heap["bn"]), {"bn"})
             /\ UNCHANGED unseen

\* env_create_info_chunk, for each of the two keys.
CekInfo == /\ Goes("cekinfo", "cek")
           /\ Allocates("info_chunk",
                        InfoChunk("aesgcm", UserKey, heap["PublicKey"]), {})
           /\ UNCHANGED unseen

DeriveCEK ==
  /\ Goes("cek", "nonceinfo")
  /\ Derives("CEK", Salt, heap["PRK"], heap["info_chunk"], {"info_chunk"})

\* Mutant of NonceInfo: the chunk is the one of the first key.
NonceInfoSame == /\ Goes("nonceinfo", "nonce")
                 /\ Allocates("info_chunk",
                              InfoChunk("aesgcm", UserKey, heap["PublicKey"]), {})
                 /\ UNCHANGED unseen

NonceInfo == /\ Goes("nonceinfo", "nonce")
             /\ Allocates("info_chunk",
                          InfoChunk("nonce", UserKey, heap["PublicKey"]), {})
             /\ UNCHANGED unseen

DeriveNonce ==
  /\ Goes("nonce", "pad")
  /\ Derives("Nonce", Salt, heap["PRK"], heap["info_chunk"], {"info_chunk"})

\* Two zero bytes before the data.
Pad == /\ Goes("pad", "ctx")
       /\ Allocates("data_in", Padded(Data), {})
       /\ UNCHANGED unseen

\* env_aes_gcm_128_encrypt
NewContext == /\ Goes("ctx", "init")
              /\ Allocates("ctx", Blank, {})
              /\ UNCHANGED unseen
NewContextFails == Fails("ctx", Derived)

\* EVP_EncryptInit_ex is called for the cipher, then for key and nonce.
InitCipher == Goes("init", "initkey") /\ UNCHANGED <<heap, unseen>>
InitCipherFails == Fails("init", {"ctx"} \cup Derived)

InitKey == /\ Goes("initkey", "buffer")
           /\ Writes("ctx", <<"keyed", heap["CEK"], heap["Nonce"]>>)
           /\ UNCHANGED unseen
InitKeyFails == Fails("initkey", {"ctx"} \cup Derived)

Buffer == /\ Goes("buffer", "update")
          /\ Allocates("ciphertext", Blank, {})
          /\ UNCHANGED unseen

Update == /\ Goes("update", "final")
          /\ Writes("ciphertext",
                    Sealed(heap["ctx"][2], heap["ctx"][3], heap["data_in"]))
          /\ UNCHANGED unseen
UpdateFails == Fails("update", {"ctx", "ciphertext"} \cup Derived)

Final == Goes("final", "tag") /\ UNCHANGED <<heap, unseen>>
FinalFails == Fails("final", {"ctx", "ciphertext"} \cup Derived)

Tag == /\ Goes("tag", "outputs")
       /\ heap' = [heap EXCEPT !["ciphertext"] = Tagged(@),
                               !["ctx"] = AfterFree("ctx")]
       /\ UNCHANGED unseen
TagFails == Fails("tag", {"ctx", "ciphertext"} \cup Derived)

\* The outputs: data_out is the ciphertext.
EncodeKey == /\ Goes("outputs", "salt")
             /\ Allocates("dh_out", Web(heap["PublicKey"]), {})
             /\ UNCHANGED unseen

EncodeSalt == /\ Goes("salt", "done")
              /\ Allocates("salt_out", Web(Salt), Derived)
              /\ UNCHANGED unseen

\* env_malloc ends the process.
OutOfMemory ==
  /\ \E at \in {"secret", "prk", "bytes", "cekinfo", "cek", "nonceinfo", "nonce",
                "pad", "buffer", "outputs", "salt"} : Goes(at, "exited")
  /\ UNCHANGED <<heap, unseen>>

Next ==
  \/ NewCurve \/ NewCurveFails \/ GenerateKey \/ GenerateKeyFails
  \/ CheckKey \/ CheckKeyFails \/ GetGroup \/ GetGroupFails
  \/ NewPeer \/ NewPeerFails \/ ReadX \/ ReadXFails \/ ReadY \/ ReadYFails
  \/ NewPoint \/ NewPointFails \/ SetCoordinates \/ SetCoordinatesFails
  \/ SetPublicKey \/ SetPublicKeyFails \/ CheckPeer \/ CheckPeerFails
  \/ PeerPoint \/ PeerPointFails \/ ComputeSecret \/ ComputeSecretFails
  \/ DerivePRK \/ PointToBn \/ PointToBnFails \/ BnToBytes
  \/ CekInfo \/ DeriveCEK \/ NonceInfo \/ DeriveNonce \/ Pad
  \/ NewContext \/ NewContextFails \/ InitCipher \/ InitCipherFails
  \/ InitKey \/ InitKeyFails \/ Buffer \/ Update \/ UpdateFails
  \/ Final \/ FinalFails \/ Tag \/ TagFails \/ EncodeKey \/ EncodeSalt
  \/ OutOfMemory

Spec == Init /\ [][Next]_vars
-----------------------------------------------------------------------------
Phases == {"curve", "generate", "check", "group", "user", "x", "y", "point",
           "coordinates", "public", "checkpeer", "peerpoint", "secret", "prk",
           "publickey", "bytes", "cekinfo", "cek", "nonceinfo", "nonce", "pad",
           "ctx", "init", "initkey", "buffer", "update", "final", "tag",
           "outputs", "salt", "done", "failed", "crashed", "exited"}

\* Among the types: no block is freed when it is not allocated, and none is
\* allocated while its name still holds another.
TypeOK ==
  /\ key \in [head : Head, len : Lengths]
  /\ phase \in Phases
  /\ DOMAIN heap = Block
  /\ \A b \in Block : heap[b] \notin {Twice, Lost}
  /\ unseen \in BOOLEAN

\* An encryption that fails leaves nothing allocated, at whichever call it
\* failed; one that succeeds leaves its outputs.
NothingLeft ==
  /\ phase = "failed" => Live = {}
  /\ phase = "done" => Live = {"ciphertext", "dh_out", "salt_out"}

\* What a user of the message derives: from the header's dh and salt, the key
\* he has and the secret he shares with the application.
Reading(dh, salt) ==
  LET sender == dh[2][2]
      prk == Hkdf(UserSecret, Secret(User, sender), AuthInfo)
      Derive(type) ==
        Hkdf(salt[2], prk, InfoChunk(type, Bytes(Point(User)), dh[2]))
  IN  Tagged(Sealed(Derive("aesgcm"), Derive("nonce"), Padded(Data)))

\* The user can read what was encrypted if the key given begins with his point,
\* its length is that of a point or by a multiple of 65536 more, and no call
\* failed unseen: and only then, any other length being accepted and a message
\* made of it that nobody can read.
ReadableIfExact ==
  phase = "done" =>
    (heap["ciphertext"] = Reading(heap["dh_out"], heap["salt_out"])
       <=> Exact /\ ~unseen)

\* firebase.h says that a send function returns "NULL on error": when a call
\* fails, the encryption does not go on to its outputs, nor end the process.
ErrorsReturn == unseen => phase \notin {"done", "crashed"}
-----------------------------------------------------------------------------
\* One thread of FcmClient whose call is this encryption: fcm_send frees the
\* decoded keys after it, and the endpoint and the response if it fails.
Caller == "caller"
Request(k) == [proto |-> "https", message |-> TRUE, fits |-> TRUE, keys |-> k]

\* Where the outputs are passed to.
ClientBlock == [message_enc |-> "ciphertext", dh |-> "dh_out", salt |-> "salt_out"]

\* The blocks of FcmClient that are allocated.
ClientLive ==
  IF phase = "failed" THEN {}
  ELSE {"response", "endpoint"}
         \cup (IF phase = "done" THEN {} ELSE {"p256_dec", "auth_dec"})
         \cup {b \in {"message_enc", "dh", "salt"} :
                 phase = "done" /\ heap[ClientBlock[b]] # Dead}

Client == INSTANCE FcmClient WITH
  Thread <- {Caller}, Fd <- {}, Invalid <- "invalid",
  MaxCalls <- 1, Requests <- {Request("good"), Request("bad")}, MaxAttempts <- 1,
  pc       <- [t \in {Caller} |-> IF phase = "done" THEN "build"
                                  ELSE IF phase = "failed" THEN "idle"
                                  ELSE "encrypt"],
  cur      <- [t \in {Caller} |-> IF phase = "failed" THEN 0 ELSE 1],
  sock     <- [t \in {Caller} |-> "invalid"],
  attempts <- [t \in {Caller} |-> 0],
  dead     <- [t \in {Caller} |-> FALSE],
  ret      <- [t \in {Caller} |-> 0],
  begun    <- 1,
  req      <- [c \in {1} |-> Request(IF key.head \in {"compressed", "offcurve"}
                                     THEN "bad" ELSE "good")],
  heap     <- [c \in {1} |-> [b \in {"response", "endpoint", "p256_dec", "auth_dec",
                 "message_enc", "dh", "salt", "header", "ssl", "out->header",
                 "out->body"} |-> IF b \in ClientLive THEN 1 ELSE 0]],
  kfd      <- [f \in {} |-> 0],
  srv      <- [c \in {1} |-> <<>>],
  leaked   <- {},
  out      <- [c \in {1} |-> IF phase = "failed" THEN "null" ELSE "running"],
  process  <- IF phase = "crashed" THEN "segv"
              ELSE IF phase = "exited" THEN "exited" ELSE "up"

\* Every step is Encrypt, EncryptFails, EncryptCrashes or OutOfMemory of
\* FcmClient, or nothing it sees: what fcm_send goes on with is allocated, a key
\* that is no point of the curve never gets that far, and it ends in one step.
StepsOfClient == [][Client!Advance(Caller)]_(Client!vars)
=============================================================================
