--------------------------- MODULE EncryptProofs ----------------------------
(***************************************************************************)
(* Encrypt for keys of every length: what is allocated before each         *)
(* call is known, so that what the code frees on each way out can be       *)
(* compared with it; and what it holds, so that the user's derivation can. *)
(***************************************************************************)
EXTENDS Encrypt, TLAPS

Special == {Dead, Twice, Lost}

\* The blocks that are allocated when the call of each phase is made.
Peer == {"curve", "pkey"}
Keys == {"curve", "IKM", "PRK", "PublicKey"}
Keyed == Keys \cup {"CEK"}
Ready == Keys \cup {"CEK", "Nonce"}

LiveAt ==
  [curve |-> {}, generate |-> {"curve"}, check |-> {"curve"}, group |-> {"curve"},
   user |-> {"curve"}, x |-> Peer, y |-> Peer \cup {"pub_key_x"},
   point |-> Peer \cup {"pub_key_x", "pub_key_y"},
   coordinates |-> Peer \cup PeerBlocks, public |-> Peer \cup PeerBlocks,
   checkpeer |-> Peer \cup PeerBlocks, peerpoint |-> Peer, secret |-> Peer,
   prk |-> {"curve", "IKM"}, publickey |-> {"curve", "IKM", "PRK"},
   bytes |-> {"curve", "IKM", "PRK", "bn"}, cekinfo |-> Keys,
   cek |-> Keys \cup {"info_chunk"}, nonceinfo |-> Keyed,
   nonce |-> Keyed \cup {"info_chunk"}, pad |-> Ready, ctx |-> Derived,
   init |-> Derived \cup {"ctx"}, initkey |-> Derived \cup {"ctx"},
   buffer |-> Derived \cup {"ctx"}, update |-> Derived \cup {"ctx", "ciphertext"},
   final |-> Derived \cup {"ctx", "ciphertext"},
   tag |-> Derived \cup {"ctx", "ciphertext"}, outputs |-> Derived \cup {"ciphertext"},
   salt |-> Derived \cup {"ciphertext", "dh_out"},
   done |-> {"ciphertext", "dh_out", "salt_out"}, failed |-> {}]

Types ==
  /\ key \in [head : Head, len : Lengths]
  /\ phase \in Phases
  /\ heap = [b \in Block |-> heap[b]]
  /\ unseen \in BOOLEAN

\* The heap is sound, and holds what the phase says.
Sound == \A b \in Block : heap[b] \notin {Twice, Lost}
Accounted == phase \notin {"crashed", "exited"} => Live = LiveAt[phase]

Inv == Types /\ Sound /\ Accounted
-----------------------------------------------------------------------------
\* A term is none of the special values.
LEMMA TermsAreValues ==
  /\ \A x : Point(x) \notin Special /\ Bytes(x) \notin Special
  /\ \A x : Web(x) \notin Special /\ Tagged(x) \notin Special
  /\ \A x : Padded(x) \notin Special
  /\ \A x, y : Secret(x, y) \notin Special
  /\ \A x, y, z : Hkdf(x, y, z) \notin Special
  /\ \A x, y, z : InfoChunk(x, y, z) \notin Special
  /\ \A x, y, z : Sealed(x, y, z) \notin Special
  /\ \A x, y : <<"keyed", x, y>> \notin Special
  /\ Garbage \notin Special /\ Blank \notin Special
BY DEF Special, Dead, Twice, Lost, Point, Bytes, Web, Tagged, Padded, Secret, Hkdf,
       InfoChunk, Sealed, Garbage, Blank

\* Blocks that are live can be freed.
LEMMA Freeing ==
  ASSUME Sound, NEW olds, olds \subseteq Live, Frees(olds)
  PROVE  /\ Sound' /\ Live' = Live \ olds
         /\ heap' = [b \in Block |-> heap'[b]]
<1>1. Live' = {b \in Block : heap'[b] # Dead}  BY DEF Live
<1>2. \A b \in Block : heap'[b] = IF b \in olds THEN Dead ELSE heap[b]
  BY DEF Frees, AfterFree, Live
<1>3. Dead \notin {Twice, Lost}  BY DEF Dead, Twice, Lost
<1>4. Sound'  BY <1>2, <1>3 DEF Sound
<1>5. Live' = Live \ olds  BY <1>1, <1>2 DEF Live
<1>6. heap' = [b \in Block |-> heap'[b]]  BY DEF Frees
<1> QED  BY <1>4, <1>5, <1>6

\* A block that is not live can be allocated.
LEMMA Allocating ==
  ASSUME Sound, NEW new \in Block \ Live, NEW value, value \notin Special,
         NEW olds, olds \subseteq Live, Allocates(new, value, olds)
  PROVE  /\ Sound' /\ Live' = (Live \ olds) \cup {new}
         /\ heap' = [b \in Block |-> heap'[b]]
         /\ heap'[new] = value
         /\ \A b \in Block \ {new} : heap'[b] = IF b \in olds THEN Dead ELSE heap[b]
<1>1. Live' = {b \in Block : heap'[b] # Dead}  BY DEF Live
<1>2. \A b \in Block : heap'[b] = IF b = new THEN value
                                  ELSE IF b \in olds THEN Dead ELSE heap[b]
  BY DEF Allocates, AfterFree, Live
<1>3. Dead \notin {Twice, Lost}  BY DEF Dead, Twice, Lost
<1>4. value # Dead /\ value # Twice /\ value # Lost  BY DEF Special
<1>5. Sound'  BY <1>2, <1>3, <1>4 DEF Sound
<1>6. Live' = (Live \ olds) \cup {new}  BY <1>1, <1>2, <1>4 DEF Live
<1>7. heap' = [b \in Block |-> heap'[b]]  BY DEF Allocates
<1> QED  BY <1>2, <1>5, <1>6, <1>7

\* A block that is live can be written.
LEMMA Writing ==
  ASSUME Types, Sound, NEW block \in Live, NEW value, value \notin Special,
         Writes(block, value)
  PROVE  /\ Sound' /\ Live' = Live
         /\ heap' = [b \in Block |-> heap'[b]]
         /\ heap'[block] = value
         /\ \A b \in Block \ {block} : heap'[b] = heap[b]
<1>0. block \in Block  BY DEF Live
<1>1. Live' = {b \in Block : heap'[b] # Dead}  BY DEF Live
<1>2. \A b \in Block : heap'[b] = IF b = block THEN value ELSE heap[b]
  BY <1>0 DEF Writes, Types
<1>4. value # Dead /\ value # Twice /\ value # Lost  BY DEF Special
<1>5. Sound'  BY <1>2, <1>4 DEF Sound
<1>6. Live' = Live  BY <1>1, <1>2, <1>4 DEF Live
<1>7. heap' = [b \in Block |-> heap'[b]]  BY <1>0 DEF Writes, Types
<1> QED  BY <1>0, <1>2, <1>5, <1>6, <1>7
-----------------------------------------------------------------------------
\* The actions, by what they do with the heap.
Failing ==
  \/ NewCurveFails \/ GenerateKeyFails \/ CheckKeyFails \/ GetGroupFails
  \/ NewPeerFails \/ ReadXFails \/ ReadYFails \/ SetCoordinatesFails
  \/ SetPublicKeyFails \/ CheckPeerFails \/ PeerPointFails \/ PointToBnFails
  \/ NewContextFails \/ InitCipherFails \/ InitKeyFails \/ UpdateFails
  \/ FinalFails \/ TagFails
Unchanging ==
  \/ CheckKey \/ GetGroup \/ PeerPoint \/ InitCipher
  \/ Final \/ NewPointFails \/ OutOfMemory
Overwriting ==
  \/ GenerateKey \/ SetCoordinates \/ SetPublicKey \/ InitKey
  \/ Update
Storing ==
  \/ NewCurve \/ NewPeer \/ ReadX \/ ReadY
  \/ NewPoint \/ ComputeSecret \/ ComputeSecretFails \/ DerivePRK
  \/ PointToBn \/ BnToBytes \/ CekInfo \/ DeriveCEK
  \/ NonceInfo \/ DeriveNonce \/ Pad \/ NewContext
  \/ Buffer \/ EncodeKey \/ EncodeSalt

LEMMA NextCases ==
  [Next]_vars => \/ Failing \/ Unchanging \/ Overwriting \/ Storing
                 \/ CheckPeer \/ Tag \/ UNCHANGED vars
BY DEF Next, Failing, Unchanging, Overwriting, Storing

\* A step keeps the invariant when what it allocates and frees makes what is
\* live at its phase what is live at the next.
LEMMA Going ==
  ASSUME Inv, NEW at \in Phases \ {"crashed", "exited"}, NEW to \in Phases,
         Goes(at, to), unseen' \in BOOLEAN, Sound',
         heap' = [b \in Block |-> heap'[b]],
         to \notin {"crashed", "exited"} => Live' = LiveAt[to]
  PROVE  Inv'
BY DEF Inv, Types, Accounted, Goes

LEMMA GoingOn ==
  ASSUME Inv, NEW at \in Phases \ {"crashed", "exited"}, NEW to \in Phases,
         Goes(at, to), UNCHANGED <<heap, unseen>>,
         to \notin {"crashed", "exited"} => LiveAt[to] = LiveAt[at]
  PROVE  Inv'
BY DEF Inv, Types, Sound, Accounted, Live, Goes

LEMMA GoingFailed ==
  ASSUME Inv, NEW at \in Phases \ {"crashed", "exited"}, NEW olds,
         Fails(at, olds), LiveAt[at] = olds
  PROVE  Inv'
<1>1. Live = olds  BY DEF Inv, Accounted, Fails, Goes
<1>2. Frees(olds) /\ Goes(at, "failed") /\ unseen' \in BOOLEAN
  BY DEF Fails, Inv, Types
<1>3. Sound' /\ Live' = {} /\ heap' = [b \in Block |-> heap'[b]]
  BY <1>1, <1>2, Freeing DEF Inv
<1>4. LiveAt["failed"] = {} /\ "failed" \in Phases  BY DEF LiveAt, Phases
<1> QED  BY <1>2, <1>3, <1>4, Going

\* Block new fits where olds go, on the way from one phase to another.
Fits(at, to, new, olds) ==
  /\ at \in Phases \ {"crashed", "exited"} /\ to \in Phases
  /\ new \in Block /\ new \notin LiveAt[at] /\ olds \subseteq LiveAt[at]
  /\ to \notin {"crashed", "exited"} =>
       LiveAt[to] = (LiveAt[at] \ olds) \cup {new}

Stores(at, to, new, olds) ==
  /\ Goes(at, to) /\ unseen' \in BOOLEAN
  /\ \E value : value \notin Special /\ Allocates(new, value, olds)

LEMMA GoingAllocating ==
  ASSUME Inv, NEW at, NEW to, NEW new, NEW olds,
         Fits(at, to, new, olds), Stores(at, to, new, olds)
  PROVE  Inv'
<1>1. PICK value : value \notin Special /\ Allocates(new, value, olds)
  BY DEF Stores
<1>2. at \in Phases \ {"crashed", "exited"} /\ to \in Phases
      /\ Goes(at, to) /\ unseen' \in BOOLEAN
  BY DEF Fits, Stores
<1>3. Live = LiveAt[at]  BY <1>2 DEF Inv, Accounted, Goes
<1>4. new \in Block \ Live /\ olds \subseteq Live  BY <1>3 DEF Fits
<1>5. Sound' /\ Live' = (Live \ olds) \cup {new} /\ heap' = [b \in Block |-> heap'[b]]
  BY <1>1, <1>4, Allocating DEF Inv
<1>6. to \notin {"crashed", "exited"} => Live' = LiveAt[to]
  BY <1>3, <1>5 DEF Fits
<1> QED  BY <1>2, <1>5, <1>6, Going

LEMMA GoingWriting ==
  ASSUME Inv, NEW at \in Phases \ {"crashed", "exited"}, NEW to \in Phases,
         Goes(at, to), UNCHANGED unseen, LiveAt[to] = LiveAt[at],
         NEW block \in LiveAt[at], NEW value, value \notin Special,
         Writes(block, value)
  PROVE  Inv'
<1>1. Live = LiveAt[at] /\ unseen' \in BOOLEAN
  BY DEF Inv, Accounted, Goes, Types
<1>2. Sound' /\ Live' = Live /\ heap' = [b \in Block |-> heap'[b]]
  BY <1>1, Writing DEF Inv
<1> QED  BY <1>1, <1>2, Going

\* What the code frees when a call fails is what was allocated.
LEMMA FailuresPreserve ==
  ASSUME Inv, Failing
  PROVE  Inv'
<1> USE DEF LiveAt, Phases
<1>1. CASE NewCurveFails  BY <1>1, GoingFailed DEF NewCurveFails
<1>2. CASE GenerateKeyFails  BY <1>2, GoingFailed DEF GenerateKeyFails
<1>3. CASE CheckKeyFails  BY <1>3, GoingFailed DEF CheckKeyFails
<1>4. CASE GetGroupFails  BY <1>4, GoingFailed DEF GetGroupFails
<1>5. CASE NewPeerFails  BY <1>5, GoingFailed DEF NewPeerFails
<1>6. CASE ReadXFails  BY <1>6, GoingFailed DEF ReadXFails, Peer
<1>7. CASE ReadYFails  BY <1>7, GoingFailed DEF ReadYFails, Peer
<1>8. CASE SetCoordinatesFails  BY <1>8, GoingFailed DEF SetCoordinatesFails, Peer
<1>9. CASE SetPublicKeyFails  BY <1>9, GoingFailed DEF SetPublicKeyFails, Peer
<1>10. CASE CheckPeerFails  BY <1>10, GoingFailed DEF CheckPeerFails, Peer
<1>11. CASE PeerPointFails  BY <1>11, GoingFailed DEF PeerPointFails, Peer
<1>12. CASE PointToBnFails  BY <1>12, GoingFailed DEF PointToBnFails
<1>13. CASE NewContextFails  BY <1>13, GoingFailed DEF NewContextFails
<1>14. CASE InitCipherFails  BY <1>14, GoingFailed DEF InitCipherFails
<1>15. CASE InitKeyFails  BY <1>15, GoingFailed DEF InitKeyFails
<1>16. CASE UpdateFails  BY <1>16, GoingFailed DEF UpdateFails
<1>17. CASE FinalFails  BY <1>17, GoingFailed DEF FinalFails
<1>18. CASE TagFails  BY <1>18, GoingFailed DEF TagFails
<1> QED
  BY <1>1, <1>2, <1>3, <1>4, <1>5, <1>6, <1>7, <1>8, <1>9, <1>10, <1>11, <1>12,
     <1>13, <1>14, <1>15, <1>16, <1>17, <1>18 DEF Failing

\* What is held is no special value.
LEMMA HeldAreValues ==
  ASSUME Inv, NEW b \in Live
  PROVE  heap[b] \notin Special
BY DEF Inv, Sound, Live, Special

LEMMA CallsPreserve ==
  ASSUME Inv, Unchanging
  PROVE  Inv'
<1> USE DEF LiveAt, Phases
<1>1. CASE CheckKey  BY <1>1, GoingOn DEF CheckKey
<1>2. CASE GetGroup  BY <1>2, GoingOn DEF GetGroup
<1>3. CASE PeerPoint  BY <1>3, GoingOn DEF PeerPoint
<1>4. CASE InitCipher  BY <1>4, GoingOn DEF InitCipher
<1>5. CASE Final  BY <1>5, GoingOn DEF Final
<1>6. CASE NewPointFails
  BY <1>6 DEF NewPointFails, Goes, Inv, Types, Sound, Accounted
<1>7. CASE OutOfMemory
  BY <1>7 DEF OutOfMemory, Goes, Inv, Types, Sound, Accounted
<1> QED  BY <1>1, <1>2, <1>3, <1>4, <1>5, <1>6, <1>7 DEF Unchanging

LEMMA WritesPreserve ==
  ASSUME Inv, Overwriting
  PROVE  Inv'
<1>1. CASE GenerateKey
  <2>1. Point(Own) \notin Special  BY TermsAreValues
  <2>2. Goes("generate", "check") /\ UNCHANGED unseen
        /\ Writes("curve",
             Point(Own))
    BY <1>1 DEF GenerateKey
  <2>3. LiveAt["check"] = LiveAt["generate"] /\ "curve" \in LiveAt["generate"]
    BY DEF LiveAt, Peer, PeerBlocks
  <2>4. "generate" \in Phases \ {"crashed", "exited"} /\ "check" \in Phases  BY DEF Phases
  <2> QED  BY <2>1, <2>2, <2>3, <2>4, GoingWriting, Zenon
<1>2. CASE SetCoordinates
  <2>0. "pub_key_x" \in Live
    BY <1>2 DEF SetCoordinates, Goes, Inv, Accounted, LiveAt, PeerBlocks
  <2>1. heap["pub_key_x"] \notin Special  BY <2>0, HeldAreValues
  <2>2. Goes("coordinates", "public") /\ UNCHANGED unseen
        /\ Writes("pub_key",
             heap["pub_key_x"])
    BY <1>2 DEF SetCoordinates
  <2>3. LiveAt["public"] = LiveAt["coordinates"] /\ "pub_key" \in LiveAt["coordinates"]
    BY DEF LiveAt, Peer, PeerBlocks
  <2>4. "coordinates" \in Phases \ {"crashed", "exited"} /\ "public" \in Phases  BY DEF Phases
  <2> QED  BY <2>1, <2>2, <2>3, <2>4, GoingWriting, Zenon
<1>3. CASE SetPublicKey
  <2>0. "pub_key" \in Live
    BY <1>3 DEF SetPublicKey, Goes, Inv, Accounted, LiveAt, PeerBlocks
  <2>1. heap["pub_key"] \notin Special  BY <2>0, HeldAreValues
  <2>2. Goes("public", "checkpeer") /\ UNCHANGED unseen
        /\ Writes("pkey",
             heap["pub_key"])
    BY <1>3 DEF SetPublicKey
  <2>3. LiveAt["checkpeer"] = LiveAt["public"] /\ "pkey" \in LiveAt["public"]
    BY DEF LiveAt, Peer, PeerBlocks
  <2>4. "public" \in Phases \ {"crashed", "exited"} /\ "checkpeer" \in Phases  BY DEF Phases
  <2> QED  BY <2>1, <2>2, <2>3, <2>4, GoingWriting, Zenon
<1>4. CASE InitKey
  <2>1. <<"keyed", heap["CEK"], heap["Nonce"]>> \notin Special  BY TermsAreValues
  <2>2. Goes("initkey", "buffer") /\ UNCHANGED unseen
        /\ Writes("ctx",
             <<"keyed", heap["CEK"], heap["Nonce"]>>)
    BY <1>4 DEF InitKey
  <2>3. LiveAt["buffer"] = LiveAt["initkey"] /\ "ctx" \in LiveAt["initkey"]
    BY DEF LiveAt, Peer, PeerBlocks
  <2>4. "initkey" \in Phases \ {"crashed", "exited"} /\ "buffer" \in Phases  BY DEF Phases
  <2> QED  BY <2>1, <2>2, <2>3, <2>4, GoingWriting, Zenon
<1>5. CASE Update
  <2>1. Sealed(heap["ctx"][2], heap["ctx"][3], heap["data_in"]) \notin Special  BY TermsAreValues
  <2>2. Goes("update", "final") /\ UNCHANGED unseen
        /\ Writes("ciphertext",
             Sealed(heap["ctx"][2], heap["ctx"][3], heap["data_in"]))
    BY <1>5 DEF Update
  <2>3. LiveAt["final"] = LiveAt["update"] /\ "ciphertext" \in LiveAt["update"]
    BY DEF LiveAt, Peer, PeerBlocks
  <2>4. "update" \in Phases \ {"crashed", "exited"} /\ "final" \in Phases  BY DEF Phases
  <2> QED  BY <2>1, <2>2, <2>3, <2>4, GoingWriting, Zenon
<1> QED  BY <1>1, <1>2, <1>3, <1>4, <1>5 DEF Overwriting

LEMMA DerivesAllocates ==
  ASSUME NEW block, NEW salt, NEW ikm, NEW info, NEW olds,
         Derives(block, salt, ikm, info, olds), Inv
  PROVE  \E v : v \notin Special /\ Allocates(block, v, olds) /\ unseen' \in BOOLEAN
<1>1. CASE Allocates(block, Hkdf(salt, ikm, info), olds) /\ UNCHANGED unseen
  BY <1>1, TermsAreValues DEF Inv, Types
<1>2. CASE Allocates(block, Garbage, olds) /\ unseen' = TRUE
  BY <1>2, TermsAreValues
<1> QED  BY <1>1, <1>2 DEF Derives

\* Every allocation of the code fits.
LEMMA Fitting ==
  /\ Fits("curve", "generate", "curve", {})
  /\ Fits("user", "x", "pkey", {})
  /\ Fits("x", "y", "pub_key_x", {})
  /\ Fits("y", "point", "pub_key_y", {})
  /\ Fits("point", "coordinates", "pub_key", {})
  /\ Fits("secret", "prk", "IKM", {"pkey"})
  /\ Fits("secret", "crashed", "IKM", {"pkey"})
  /\ Fits("prk", "publickey", "PRK", {})
  /\ Fits("publickey", "bytes", "bn", {})
  /\ Fits("bytes", "cekinfo", "PublicKey", {"bn"})
  /\ Fits("cekinfo", "cek", "info_chunk", {})
  /\ Fits("cek", "nonceinfo", "CEK", {"info_chunk"})
  /\ Fits("nonceinfo", "nonce", "info_chunk", {})
  /\ Fits("nonce", "pad", "Nonce", {"info_chunk"})
  /\ Fits("pad", "ctx", "data_in", {})
  /\ Fits("ctx", "init", "ctx", {})
  /\ Fits("buffer", "update", "ciphertext", {})
  /\ Fits("outputs", "salt", "dh_out", {})
  /\ Fits("salt", "done", "salt_out", Derived)
<1>1. Fits("curve", "generate", "curve", {})
  BY DEF Fits, LiveAt, Phases, Block
<1>2. Fits("user", "x", "pkey", {})
  BY DEF Fits, LiveAt, Phases, Block, Peer
<1>3. Fits("x", "y", "pub_key_x", {})
  BY DEF Fits, LiveAt, Phases, Block, Peer
<1>4. Fits("y", "point", "pub_key_y", {})
  BY DEF Fits, LiveAt, Phases, Block, Peer
<1>5. Fits("point", "coordinates", "pub_key", {})
  BY DEF Fits, LiveAt, Phases, Block, Peer, PeerBlocks
<1>6. Fits("secret", "prk", "IKM", {"pkey"})
  BY DEF Fits, LiveAt, Phases, Block, Peer
<1>7. Fits("secret", "crashed", "IKM", {"pkey"})
  BY DEF Fits, LiveAt, Phases, Block, Peer
<1>8. Fits("prk", "publickey", "PRK", {})
  BY DEF Fits, LiveAt, Phases, Block
<1>9. Fits("publickey", "bytes", "bn", {})
  BY DEF Fits, LiveAt, Phases, Block
<1>10. Fits("bytes", "cekinfo", "PublicKey", {"bn"})
  BY DEF Fits, LiveAt, Phases, Block, Keys
<1>11. Fits("cekinfo", "cek", "info_chunk", {})
  BY DEF Fits, LiveAt, Phases, Block, Keys
<1>12. Fits("cek", "nonceinfo", "CEK", {"info_chunk"})
  BY DEF Fits, LiveAt, Phases, Block, Keyed, Keys
<1>13. Fits("nonceinfo", "nonce", "info_chunk", {})
  BY DEF Fits, LiveAt, Phases, Block, Keyed, Keys
<1>14. Fits("nonce", "pad", "Nonce", {"info_chunk"})
  BY DEF Fits, LiveAt, Phases, Block, Ready, Keyed, Keys
<1>15. Fits("pad", "ctx", "data_in", {})
  BY DEF Fits, LiveAt, Phases, Block, Ready, Keys, Derived
<1>16. Fits("ctx", "init", "ctx", {})
  BY DEF Fits, LiveAt, Phases, Block, Derived
<1>17. Fits("buffer", "update", "ciphertext", {})
  BY DEF Fits, LiveAt, Phases, Block, Derived
<1>18. Fits("outputs", "salt", "dh_out", {})
  BY DEF Fits, LiveAt, Phases, Block, Derived
<1>19. Fits("salt", "done", "salt_out", Derived)
  BY DEF Fits, LiveAt, Phases, Block, Derived
<1> QED
  BY <1>1, <1>2, <1>3, <1>4, <1>5, <1>6, <1>7, <1>8, <1>9, <1>10, <1>11, <1>12,
     <1>13, <1>14, <1>15, <1>16, <1>17, <1>18, <1>19

LEMMA AllocationsPreserve ==
  ASSUME Inv, Storing
  PROVE  Inv'
<1>0. unseen \in BOOLEAN  BY DEF Inv, Types
<1>1. CASE NewCurve
  <2>1. Blank \notin Special
    BY TermsAreValues
  <2>2. Stores("curve", "generate", "curve", {})  BY <1>0, <1>1, <2>1 DEF NewCurve, Stores
  <2> QED  BY <2>2, Fitting, GoingAllocating, Zenon
<1>2. CASE NewPeer
  <2>1. Blank \notin Special
    BY TermsAreValues
  <2>2. Stores("user", "x", "pkey", {})  BY <1>0, <1>2, <2>1 DEF NewPeer, Stores
  <2> QED  BY <2>2, Fitting, GoingAllocating, Zenon
<1>3. CASE ReadX
  <2>1. UserPoint \notin Special
    BY TermsAreValues DEF UserPoint
  <2>2. Stores("x", "y", "pub_key_x", {})  BY <1>0, <1>3, <2>1 DEF ReadX, Stores
  <2> QED  BY <2>2, Fitting, GoingAllocating, Zenon
<1>4. CASE ReadY
  <2>1. UserPoint \notin Special
    BY TermsAreValues DEF UserPoint
  <2>2. Stores("y", "point", "pub_key_y", {})  BY <1>0, <1>4, <2>1 DEF ReadY, Stores
  <2> QED  BY <2>2, Fitting, GoingAllocating, Zenon
<1>5. CASE NewPoint
  <2>1. Blank \notin Special
    BY TermsAreValues
  <2>2. Stores("point", "coordinates", "pub_key", {})  BY <1>0, <1>5, <2>1 DEF NewPoint, Stores
  <2> QED  BY <2>2, Fitting, GoingAllocating, Zenon
<1>6. CASE ComputeSecret
  <2>1. Secret(heap["curve"][2], heap["pkey"]) \notin Special
    BY TermsAreValues
  <2>2. Stores("secret", "prk", "IKM", {"pkey"})  BY <1>0, <1>6, <2>1 DEF ComputeSecret, Stores
  <2> QED  BY <2>2, Fitting, GoingAllocating, Zenon
<1>7. CASE ComputeSecretFails
  <2>1. Garbage \notin Special
    BY TermsAreValues
  <2>2. Stores("secret", "crashed", "IKM", {"pkey"})  BY <1>0, <1>7, <2>1 DEF ComputeSecretFails, Stores
  <2> QED  BY <2>2, Fitting, GoingAllocating, Zenon
<1>8. CASE DerivePRK
  <2>2. Stores("prk", "publickey", "PRK", {})
    BY <1>8, DerivesAllocates DEF DerivePRK, Stores
  <2> QED  BY <2>2, Fitting, GoingAllocating, Zenon
<1>9. CASE PointToBn
  <2>0. "curve" \in Live  BY <1>9 DEF PointToBn, Goes, Inv, Accounted, LiveAt
  <2>1. heap["curve"] \notin Special  BY <2>0, HeldAreValues
  <2>2. Stores("publickey", "bytes", "bn", {})  BY <1>0, <1>9, <2>1 DEF PointToBn, Stores
  <2> QED  BY <2>2, Fitting, GoingAllocating, Zenon
<1>10. CASE BnToBytes
  <2>1. Bytes(heap["bn"]) \notin Special
    BY TermsAreValues
  <2>2. Stores("bytes", "cekinfo", "PublicKey", {"bn"})  BY <1>0, <1>10, <2>1 DEF BnToBytes, Stores
  <2> QED  BY <2>2, Fitting, GoingAllocating, Zenon
<1>11. CASE CekInfo
  <2>1. InfoChunk("aesgcm", UserKey, heap["PublicKey"]) \notin Special
    BY TermsAreValues
  <2>2. Stores("cekinfo", "cek", "info_chunk", {})  BY <1>0, <1>11, <2>1 DEF CekInfo, Stores
  <2> QED  BY <2>2, Fitting, GoingAllocating, Zenon
<1>12. CASE DeriveCEK
  <2>2. Stores("cek", "nonceinfo", "CEK", {"info_chunk"})
    BY <1>12, DerivesAllocates DEF DeriveCEK, Stores
  <2> QED  BY <2>2, Fitting, GoingAllocating, Zenon
<1>13. CASE NonceInfo
  <2>1. InfoChunk("nonce", UserKey, heap["PublicKey"]) \notin Special
    BY TermsAreValues
  <2>2. Stores("nonceinfo", "nonce", "info_chunk", {})  BY <1>0, <1>13, <2>1 DEF NonceInfo, Stores
  <2> QED  BY <2>2, Fitting, GoingAllocating, Zenon
<1>14. CASE DeriveNonce
  <2>2. Stores("nonce", "pad", "Nonce", {"info_chunk"})
    BY <1>14, DerivesAllocates DEF DeriveNonce, Stores
  <2> QED  BY <2>2, Fitting, GoingAllocating, Zenon
<1>15. CASE Pad
  <2>1. Padded(Data) \notin Special
    BY TermsAreValues
  <2>2. Stores("pad", "ctx", "data_in", {})  BY <1>0, <1>15, <2>1 DEF Pad, Stores
  <2> QED  BY <2>2, Fitting, GoingAllocating, Zenon
<1>16. CASE NewContext
  <2>1. Blank \notin Special
    BY TermsAreValues
  <2>2. Stores("ctx", "init", "ctx", {})  BY <1>0, <1>16, <2>1 DEF NewContext, Stores
  <2> QED  BY <2>2, Fitting, GoingAllocating, Zenon
<1>17. CASE Buffer
  <2>1. Blank \notin Special
    BY TermsAreValues
  <2>2. Stores("buffer", "update", "ciphertext", {})  BY <1>0, <1>17, <2>1 DEF Buffer, Stores
  <2> QED  BY <2>2, Fitting, GoingAllocating, Zenon
<1>18. CASE EncodeKey
  <2>1. Web(heap["PublicKey"]) \notin Special
    BY TermsAreValues
  <2>2. Stores("outputs", "salt", "dh_out", {})  BY <1>0, <1>18, <2>1 DEF EncodeKey, Stores
  <2> QED  BY <2>2, Fitting, GoingAllocating, Zenon
<1>19. CASE EncodeSalt
  <2>1. Web(Salt) \notin Special
    BY TermsAreValues
  <2>2. Stores("salt", "done", "salt_out", Derived)  BY <1>0, <1>19, <2>1 DEF EncodeSalt, Stores
  <2> QED  BY <2>2, Fitting, GoingAllocating, Zenon
<1> QED
  BY <1>1, <1>2, <1>3, <1>4, <1>5, <1>6, <1>7, <1>8, <1>9, <1>10, <1>11, <1>12,
     <1>13, <1>14, <1>15, <1>16, <1>17, <1>18, <1>19 DEF Storing

LEMMA CheckPeerPreserves ==
  ASSUME Inv, CheckPeer
  PROVE  Inv'
<1>1. Live = Peer \cup PeerBlocks /\ Frees(PeerBlocks) /\ unseen' \in BOOLEAN
      /\ Goes("checkpeer", "peerpoint")
  BY DEF CheckPeer, Goes, Inv, Accounted, Types, LiveAt
<1>2. Sound' /\ Live' = Peer /\ heap' = [b \in Block |-> heap'[b]]
  BY <1>1, Freeing DEF Inv, Peer, PeerBlocks
<1>3. LiveAt["peerpoint"] = Peer /\ "peerpoint" \in Phases
      /\ "checkpeer" \in Phases \ {"crashed", "exited"}
  BY DEF LiveAt, Phases
<1> QED  BY <1>1, <1>2, <1>3, Going

LEMMA TagPreserves ==
  ASSUME Inv, Tag
  PROVE  Inv'
<1>1. Live = Derived \cup {"ctx", "ciphertext"} /\ phase' = "outputs" /\ key' = key
  BY DEF Tag, Goes, Inv, Accounted, LiveAt
<1>2. "ctx" \in Block /\ "ciphertext" \in Block  BY DEF Block
<1>3. \A b \in Block : heap'[b] = IF b = "ctx" THEN Dead
                                  ELSE IF b = "ciphertext" THEN Tagged(heap[b])
                                  ELSE heap[b]
  BY <1>1, <1>2 DEF Tag, AfterFree, Live, Inv, Types
<1>4. heap' = [b \in Block |-> heap'[b]]  BY <1>2 DEF Tag, Inv, Types
<1>5. Tagged(heap["ciphertext"]) \notin Special  BY TermsAreValues
<1>6. Sound'  BY <1>3, <1>5 DEF Inv, Sound, Special, Dead, Twice, Lost
<1>7. Live' = Derived \cup {"ciphertext"}
  <2>1. Live' = {b \in Block : heap'[b] # Dead}  BY DEF Live
  <2>2. \A b \in Block : heap'[b] # Dead <=> b \in Live /\ b # "ctx"
    BY <1>1, <1>3, <1>5 DEF Live, Special
  <2>3. Live' = Live \ {"ctx"}  BY <2>1, <2>2 DEF Live
  <2> QED  BY <1>1, <2>3 DEF Derived
<1>8. phase' \in Phases /\ LiveAt[phase'] = Derived \cup {"ciphertext"}
  BY <1>1 DEF Phases, LiveAt
<1>9. unseen' \in BOOLEAN  BY DEF Tag, Inv, Types
<1> QED
  BY <1>1, <1>4, <1>6, <1>7, <1>8, <1>9 DEF Inv, Types, Accounted

LEMMA Preservation == Inv /\ [Next]_vars => Inv'
<1> SUFFICES ASSUME Inv, [Next]_vars PROVE Inv'
  OBVIOUS
<1>1. CASE UNCHANGED vars
  BY <1>1 DEF vars, Inv, Types, Sound, Accounted, Live
<1> QED
  BY <1>1, NextCases, FailuresPreserve, CallsPreserve, WritesPreserve,
     AllocationsPreserve, CheckPeerPreserves, TagPreserves

LEMMA InitInv == Init => Inv
<1> SUFFICES ASSUME Init PROVE Inv
  OBVIOUS
<1>1. Types  BY DEF Init, Types, Phases
<1>2. Sound  BY DEF Init, Sound, Dead, Twice, Lost
<1>3. Accounted  BY DEF Init, Accounted, Live, LiveAt
<1> QED  BY <1>1, <1>2, <1>3 DEF Inv

LEMMA Invariance == Spec => []Inv
BY InitInv, Preservation, PTL DEF Spec

\* Nothing is freed twice, and nothing is allocated over what is not freed.
THEOREM TypeCorrect == Spec => []TypeOK
<1>1. Inv => TypeOK  BY DEF Inv, Types, Sound, TypeOK
<1> QED  BY <1>1, Invariance, PTL

\* Every way out with an error frees what there is; the other leaves the
\* outputs.
THEOREM LeavesNothing == Spec => []NothingLeft
<1>1. Inv => NothingLeft  BY DEF Inv, Accounted, NothingLeft, LiveAt
<1> QED  BY <1>1, Invariance, PTL
-----------------------------------------------------------------------------
(* What the blocks hold. *)

\* The phases in which the code has gone on from a call to the next.
Active == Phases \ {"done", "failed", "crashed", "exited"}
Late == {"peerpoint", "secret", "prk", "publickey", "bytes", "cekinfo", "cek",
         "nonceinfo", "nonce", "pad", "ctx", "init", "initkey", "buffer", "update",
         "final", "tag", "outputs", "salt", "done"}
Middle == {"x", "y", "point", "coordinates", "public", "checkpeer"}

\* Only a key that is a point of the curve gets past the check.
KeyChecked ==
  /\ phase \in Middle \cup Late => key.head # "compressed"
  /\ phase \in Late => key.head # "offcurve"

LEMMA KeyCheckedPreserved == Inv /\ KeyChecked /\ [Next]_vars => KeyChecked'
<1> SUFFICES ASSUME Inv, KeyChecked, [Next]_vars PROVE KeyChecked'
  OBVIOUS
<1> USE DEF KeyChecked, Middle, Late, Goes
<1>1. CASE UNCHANGED vars  BY <1>1 DEF vars
<1>2. CASE Failing
  <2>1. phase' = "failed"
    BY <1>2 DEF Failing, Fails, NewCurveFails, GenerateKeyFails, CheckKeyFails,
       GetGroupFails, NewPeerFails, ReadXFails, ReadYFails, SetCoordinatesFails,
       SetPublicKeyFails, CheckPeerFails, PeerPointFails, PointToBnFails,
       NewContextFails, InitCipherFails, InitKeyFails, UpdateFails, FinalFails,
       TagFails
  <2> QED  BY <2>1
<1>3. CASE Unchanging
  BY <1>3 DEF Unchanging, CheckKey, GetGroup, PeerPoint, InitCipher, Final,
     NewPointFails, OutOfMemory
<1>4. CASE Overwriting
  BY <1>4 DEF Overwriting, GenerateKey, SetCoordinates, SetPublicKey, InitKey, Update
<1>5. CASE NewCurve \/ NewPeer \/ ReadX \/ ReadY \/ NewPoint
  BY <1>5 DEF NewCurve, NewPeer, ReadX, ReadY, NewPoint
<1>6. CASE ComputeSecret \/ ComputeSecretFails \/ DerivePRK \/ PointToBn \/ BnToBytes
  BY <1>6 DEF ComputeSecret, ComputeSecretFails, DerivePRK, PointToBn, BnToBytes
<1>7. CASE CekInfo \/ DeriveCEK \/ NonceInfo \/ DeriveNonce \/ Pad
  BY <1>7 DEF CekInfo, DeriveCEK, NonceInfo, DeriveNonce, Pad
<1>8. CASE NewContext \/ Buffer \/ EncodeKey \/ EncodeSalt
  BY <1>8 DEF NewContext, Buffer, EncodeKey, EncodeSalt
<1>9. CASE CheckPeer \/ Tag  BY <1>9 DEF CheckPeer, Tag
<1> QED
  BY <1>1, <1>2, <1>3, <1>4, <1>5, <1>6, <1>7, <1>8, <1>9, NextCases DEF Storing

Info(type) == InfoChunk(type, UserKey, Bytes(Point(Own)))
GoodPRK == Hkdf(UserSecret, Secret(Own, UserPoint), AuthInfo)
Holds(b) == b \in LiveAt[phase]

Text == Sealed(heap["CEK"], heap["Nonce"], Padded(Data))

\* What was derived before each call; garbage where a call failed unseen.
PeerValues ==
  /\ phase \notin {"curve", "generate"} => heap["curve"] = Point(Own)
  /\ Holds("pub_key_x") => heap["pub_key_x"] = UserPoint
  /\ phase \in {"public", "checkpeer"} => heap["pub_key"] = UserPoint
  /\ phase \in {"checkpeer", "peerpoint", "secret"} => heap["pkey"] = UserPoint

KeyValues ==
  /\ Holds("IKM") => heap["IKM"] = Secret(Own, UserPoint)
  /\ Holds("PRK") => heap["PRK"] \in {GoodPRK, Garbage}
  /\ phase = "bytes" => heap["bn"] = Point(Own)
  /\ Holds("PublicKey") => heap["PublicKey"] = Bytes(Point(Own))
  /\ phase = "cek" => heap["info_chunk"] = Info("aesgcm")
  /\ phase = "nonce" => heap["info_chunk"] = Info("nonce")
  /\ Holds("CEK") => heap["CEK"] \in {Hkdf(Salt, heap["PRK"], Info("aesgcm")), Garbage}
  /\ Holds("Nonce") => heap["Nonce"] \in {Hkdf(Salt, heap["PRK"], Info("nonce")), Garbage}
  /\ unseen <=> \/ Holds("PRK") /\ heap["PRK"] = Garbage
                \/ Holds("CEK") /\ heap["CEK"] = Garbage
                \/ Holds("Nonce") /\ heap["Nonce"] = Garbage

TextValues ==
  /\ Holds("data_in") => heap["data_in"] = Padded(Data)
  /\ phase \in {"buffer", "update"} =>
       heap["ctx"] = <<"keyed", heap["CEK"], heap["Nonce"]>>
  /\ phase \in {"final", "tag"} => heap["ciphertext"] = Text
  /\ phase \in {"outputs", "salt"} => heap["ciphertext"] = Tagged(Text)
  /\ phase = "salt" => heap["dh_out"] = Web(Bytes(Point(Own)))

Values == phase \in Active => PeerValues /\ KeyValues /\ TextValues


\* What is left of a step when its block has its value.
Becomes(at, to, new, value, olds) ==
  /\ phase = at /\ phase' = to /\ key' = key
  /\ UserPoint' = UserPoint /\ GoodPRK' = GoodPRK
  /\ Info("aesgcm")' = Info("aesgcm") /\ Info("nonce")' = Info("nonce")
  /\ heap'[new] = value
  /\ \A b \in Block : b # new /\ b \notin olds => heap'[b] = heap[b]

LEMMA TermsStay ==
  ASSUME key' = key
  PROVE  /\ UserPoint' = UserPoint /\ GoodPRK' = GoodPRK
         /\ Info("aesgcm")' = Info("aesgcm") /\ Info("nonce")' = Info("nonce")
BY DEF UserPoint, GoodPRK, Info, UserKey, Exact, ChunkLength

LEMMA Allocated ==
  ASSUME Inv, NEW at, NEW to, NEW new, NEW olds, Fits(at, to, new, olds),
         Goes(at, to), NEW value, value \notin Special, Allocates(new, value, olds)
  PROVE  Becomes(at, to, new, value, olds)
<1>1. Live = LiveAt[at]  BY DEF Inv, Accounted, Goes, Fits
<1>2. new \in Block \ Live /\ olds \subseteq Live  BY <1>1 DEF Fits
<1>3. /\ heap'[new] = value
      /\ \A b \in Block : b # new /\ b \notin olds => heap'[b] = heap[b]
  BY <1>2, Allocating DEF Inv
<1> QED  BY <1>3, TermsStay DEF Becomes, Goes

LEMMA Overwritten ==
  ASSUME Inv, NEW at, NEW to, NEW new, Goes(at, to), NEW value, Writes(new, value),
         new \in Block
  PROVE  Becomes(at, to, new, value, {})
<1>1. /\ heap'[new] = value
      /\ \A b \in Block : b # new /\ b \notin {} => heap'[b] = heap[b]
  BY DEF Writes, Inv, Types
<1> QED  BY <1>1, TermsStay DEF Becomes, Goes

\* Values that are allocated are what the values before say they are.
LEMMA StoringValues ==
  ASSUME Inv, Values, Storing, phase' \in Active
  PROVE  Values'
<1> USE DEF Values, PeerValues, KeyValues, TextValues, Text, Holds, LiveAt, Active,
            Phases, Block, Peer, PeerBlocks, Keys, Keyed, Ready, Derived
<1>1. CASE NewCurve
  <2>1. Fits("curve", "generate", "curve", {})  BY Fitting, Zenon
  <2>2. Blank \notin Special
    BY TermsAreValues, Zenon
  <2>3. Goes("curve", "generate") /\ UNCHANGED unseen
        /\ Allocates("curve", Blank, {})
    BY <1>1, Zenon DEF NewCurve
  <2>4. Becomes("curve", "generate", "curve", Blank,
                {})
    BY <2>1, <2>2, <2>3, Allocated, Zenon
  <2> QED  BY <2>3, <2>4 DEF Becomes
<1>2. CASE NewPeer
  <2>1. Fits("user", "x", "pkey", {})  BY Fitting, Zenon
  <2>2. Blank \notin Special
    BY TermsAreValues, Zenon
  <2>3. Goes("user", "x") /\ UNCHANGED unseen
        /\ Allocates("pkey", Blank, {})
    BY <1>2, Zenon DEF NewPeer
  <2>4. Becomes("user", "x", "pkey", Blank,
                {})
    BY <2>1, <2>2, <2>3, Allocated, Zenon
  <2> QED  BY <2>3, <2>4 DEF Becomes
<1>3. CASE ReadX
  <2>1. Fits("x", "y", "pub_key_x", {})  BY Fitting, Zenon
  <2>2. UserPoint \notin Special  BY TermsAreValues, Zenon DEF UserPoint
  <2>3. Goes("x", "y") /\ UNCHANGED unseen
        /\ Allocates("pub_key_x", UserPoint, {})
    BY <1>3, Zenon DEF ReadX
  <2>4. Becomes("x", "y", "pub_key_x", UserPoint,
                {})
    BY <2>1, <2>2, <2>3, Allocated, Zenon
  <2> QED  BY <2>3, <2>4 DEF Becomes
<1>4. CASE ReadY
  <2>1. Fits("y", "point", "pub_key_y", {})  BY Fitting, Zenon
  <2>2. UserPoint \notin Special  BY TermsAreValues, Zenon DEF UserPoint
  <2>3. Goes("y", "point") /\ UNCHANGED unseen
        /\ Allocates("pub_key_y", UserPoint, {})
    BY <1>4, Zenon DEF ReadY
  <2>4. Becomes("y", "point", "pub_key_y", UserPoint,
                {})
    BY <2>1, <2>2, <2>3, Allocated, Zenon
  <2> QED  BY <2>3, <2>4 DEF Becomes
<1>5. CASE NewPoint
  <2>1. Fits("point", "coordinates", "pub_key", {})  BY Fitting, Zenon
  <2>2. Blank \notin Special
    BY TermsAreValues, Zenon
  <2>3. Goes("point", "coordinates") /\ UNCHANGED unseen
        /\ Allocates("pub_key", Blank, {})
    BY <1>5, Zenon DEF NewPoint
  <2>4. Becomes("point", "coordinates", "pub_key", Blank,
                {})
    BY <2>1, <2>2, <2>3, Allocated, Zenon
  <2> QED  BY <2>3, <2>4 DEF Becomes
<1>6. CASE ComputeSecret
  <2>1. Fits("secret", "prk", "IKM", {"pkey"})  BY Fitting, Zenon
  <2>2. Secret(heap["curve"][2], heap["pkey"]) \notin Special
    BY TermsAreValues, Zenon
  <2>3. Goes("secret", "prk") /\ UNCHANGED unseen
        /\ Allocates("IKM", Secret(heap["curve"][2], heap["pkey"]), {"pkey"})
    BY <1>6, Zenon DEF ComputeSecret
  <2>4. Becomes("secret", "prk", "IKM", Secret(heap["curve"][2], heap["pkey"]),
                {"pkey"})
    BY <2>1, <2>2, <2>3, Allocated, Zenon
  <2> QED  BY <2>3, <2>4 DEF Becomes, Point
<1>7. CASE DerivePRK
  <2>1. Fits("prk", "publickey", "PRK", {})  BY Fitting, Zenon
  <2>2. Goes("prk", "publickey")  BY <1>7, Zenon DEF DerivePRK
  <2>3. CASE Allocates("PRK", Hkdf(UserSecret, heap["IKM"], AuthInfo), {})
             /\ UNCHANGED unseen
    <3>1. Hkdf(UserSecret, heap["IKM"], AuthInfo) \notin Special  BY TermsAreValues, Zenon
    <3>2. Becomes("prk", "publickey", "PRK", Hkdf(UserSecret, heap["IKM"], AuthInfo),
                {})
      BY <2>1, <2>2, <2>3, <3>1, Allocated, Zenon
    <3>3. Hkdf(UserSecret, heap["IKM"], AuthInfo) # Garbage  BY DEF Hkdf, Garbage
    <3> QED  BY <2>3, <3>2, <3>3 DEF Becomes, GoodPRK
  <2>4. CASE Allocates("PRK", Garbage, {})
             /\ unseen' = TRUE
    <3>1. Garbage \notin Special  BY TermsAreValues, Zenon
    <3>2. Becomes("prk", "publickey", "PRK", Garbage,
                {})
      BY <2>1, <2>2, <2>4, <3>1, Allocated, Zenon
    <3> QED  BY <2>4, <3>2 DEF Becomes
  <2> QED  BY <1>7, <2>3, <2>4, Zenon DEF DerivePRK, Derives
<1>8. CASE PointToBn
  <2>1. Fits("publickey", "bytes", "bn", {})  BY Fitting, Zenon
  <2>0. "curve" \in Live  BY <1>8 DEF PointToBn, Goes, Inv, Accounted
  <2>2. heap["curve"] \notin Special  BY <2>0, HeldAreValues, Zenon
  <2>3. Goes("publickey", "bytes") /\ UNCHANGED unseen
        /\ Allocates("bn", heap["curve"], {})
    BY <1>8, Zenon DEF PointToBn
  <2>4. Becomes("publickey", "bytes", "bn", heap["curve"],
                {})
    BY <2>1, <2>2, <2>3, Allocated, Zenon
  <2> QED  BY <2>3, <2>4 DEF Becomes
<1>9. CASE BnToBytes
  <2>1. Fits("bytes", "cekinfo", "PublicKey", {"bn"})  BY Fitting, Zenon
  <2>2. Bytes(heap["bn"]) \notin Special
    BY TermsAreValues, Zenon
  <2>3. Goes("bytes", "cekinfo") /\ UNCHANGED unseen
        /\ Allocates("PublicKey", Bytes(heap["bn"]), {"bn"})
    BY <1>9, Zenon DEF BnToBytes
  <2>4. Becomes("bytes", "cekinfo", "PublicKey", Bytes(heap["bn"]),
                {"bn"})
    BY <2>1, <2>2, <2>3, Allocated, Zenon
  <2> QED  BY <2>3, <2>4 DEF Becomes
<1>10. CASE CekInfo
  <2>1. Fits("cekinfo", "cek", "info_chunk", {})  BY Fitting, Zenon
  <2>2. InfoChunk("aesgcm", UserKey, heap["PublicKey"]) \notin Special
    BY TermsAreValues, Zenon
  <2>3. Goes("cekinfo", "cek") /\ UNCHANGED unseen
        /\ Allocates("info_chunk", InfoChunk("aesgcm", UserKey, heap["PublicKey"]), {})
    BY <1>10, Zenon DEF CekInfo
  <2>4. Becomes("cekinfo", "cek", "info_chunk", InfoChunk("aesgcm", UserKey, heap["PublicKey"]),
                {})
    BY <2>1, <2>2, <2>3, Allocated, Zenon
  <2> QED  BY <2>3, <2>4 DEF Becomes, Info
<1>11. CASE DeriveCEK
  <2>1. Fits("cek", "nonceinfo", "CEK", {"info_chunk"})  BY Fitting, Zenon
  <2>2. Goes("cek", "nonceinfo")  BY <1>11, Zenon DEF DeriveCEK
  <2>3. CASE Allocates("CEK", Hkdf(Salt, heap["PRK"], heap["info_chunk"]), {"info_chunk"})
             /\ UNCHANGED unseen
    <3>1. Hkdf(Salt, heap["PRK"], heap["info_chunk"]) \notin Special  BY TermsAreValues, Zenon
    <3>2. Becomes("cek", "nonceinfo", "CEK", Hkdf(Salt, heap["PRK"], heap["info_chunk"]),
                {"info_chunk"})
      BY <2>1, <2>2, <2>3, <3>1, Allocated, Zenon
    <3>3. Hkdf(Salt, heap["PRK"], heap["info_chunk"]) # Garbage  BY DEF Hkdf, Garbage
    <3> QED  BY <2>3, <3>2, <3>3 DEF Becomes
  <2>4. CASE Allocates("CEK", Garbage, {"info_chunk"})
             /\ unseen' = TRUE
    <3>1. Garbage \notin Special  BY TermsAreValues, Zenon
    <3>2. Becomes("cek", "nonceinfo", "CEK", Garbage,
                {"info_chunk"})
      BY <2>1, <2>2, <2>4, <3>1, Allocated, Zenon
    <3> QED  BY <2>4, <3>2 DEF Becomes
  <2> QED  BY <1>11, <2>3, <2>4, Zenon DEF DeriveCEK, Derives
<1>12. CASE NonceInfo
  <2>1. Fits("nonceinfo", "nonce", "info_chunk", {})  BY Fitting, Zenon
  <2>2. InfoChunk("nonce", UserKey, heap["PublicKey"]) \notin Special
    BY TermsAreValues, Zenon
  <2>3. Goes("nonceinfo", "nonce") /\ UNCHANGED unseen
        /\ Allocates("info_chunk", InfoChunk("nonce", UserKey, heap["PublicKey"]), {})
    BY <1>12, Zenon DEF NonceInfo
  <2>4. Becomes("nonceinfo", "nonce", "info_chunk", InfoChunk("nonce", UserKey, heap["PublicKey"]),
                {})
    BY <2>1, <2>2, <2>3, Allocated, Zenon
  <2> QED  BY <2>3, <2>4 DEF Becomes, Info
<1>13. CASE DeriveNonce
  <2>1. Fits("nonce", "pad", "Nonce", {"info_chunk"})  BY Fitting, Zenon
  <2>2. Goes("nonce", "pad")  BY <1>13, Zenon DEF DeriveNonce
  <2>3. CASE Allocates("Nonce", Hkdf(Salt, heap["PRK"], heap["info_chunk"]), {"info_chunk"})
             /\ UNCHANGED unseen
    <3>1. Hkdf(Salt, heap["PRK"], heap["info_chunk"]) \notin Special  BY TermsAreValues, Zenon
    <3>2. Becomes("nonce", "pad", "Nonce", Hkdf(Salt, heap["PRK"], heap["info_chunk"]),
                {"info_chunk"})
      BY <2>1, <2>2, <2>3, <3>1, Allocated, Zenon
    <3>3. Hkdf(Salt, heap["PRK"], heap["info_chunk"]) # Garbage  BY DEF Hkdf, Garbage
    <3> QED  BY <2>3, <3>2, <3>3 DEF Becomes
  <2>4. CASE Allocates("Nonce", Garbage, {"info_chunk"})
             /\ unseen' = TRUE
    <3>1. Garbage \notin Special  BY TermsAreValues, Zenon
    <3>2. Becomes("nonce", "pad", "Nonce", Garbage,
                {"info_chunk"})
      BY <2>1, <2>2, <2>4, <3>1, Allocated, Zenon
    <3> QED  BY <2>4, <3>2 DEF Becomes
  <2> QED  BY <1>13, <2>3, <2>4, Zenon DEF DeriveNonce, Derives
<1>14. CASE Pad
  <2>1. Fits("pad", "ctx", "data_in", {})  BY Fitting, Zenon
  <2>2. Padded(Data) \notin Special
    BY TermsAreValues, Zenon
  <2>3. Goes("pad", "ctx") /\ UNCHANGED unseen
        /\ Allocates("data_in", Padded(Data), {})
    BY <1>14, Zenon DEF Pad
  <2>4. Becomes("pad", "ctx", "data_in", Padded(Data),
                {})
    BY <2>1, <2>2, <2>3, Allocated, Zenon
  <2> QED  BY <2>3, <2>4 DEF Becomes
<1>15. CASE NewContext
  <2>1. Fits("ctx", "init", "ctx", {})  BY Fitting, Zenon
  <2>2. Blank \notin Special
    BY TermsAreValues, Zenon
  <2>3. Goes("ctx", "init") /\ UNCHANGED unseen
        /\ Allocates("ctx", Blank, {})
    BY <1>15, Zenon DEF NewContext
  <2>4. Becomes("ctx", "init", "ctx", Blank,
                {})
    BY <2>1, <2>2, <2>3, Allocated, Zenon
  <2> QED  BY <2>3, <2>4 DEF Becomes
<1>16. CASE Buffer
  <2>1. Fits("buffer", "update", "ciphertext", {})  BY Fitting, Zenon
  <2>2. Blank \notin Special
    BY TermsAreValues, Zenon
  <2>3. Goes("buffer", "update") /\ UNCHANGED unseen
        /\ Allocates("ciphertext", Blank, {})
    BY <1>16, Zenon DEF Buffer
  <2>4. Becomes("buffer", "update", "ciphertext", Blank,
                {})
    BY <2>1, <2>2, <2>3, Allocated, Zenon
  <2> QED  BY <2>3, <2>4 DEF Becomes
<1>17. CASE EncodeKey
  <2>1. Fits("outputs", "salt", "dh_out", {})  BY Fitting, Zenon
  <2>2. Web(heap["PublicKey"]) \notin Special
    BY TermsAreValues, Zenon
  <2>3. Goes("outputs", "salt") /\ UNCHANGED unseen
        /\ Allocates("dh_out", Web(heap["PublicKey"]), {})
    BY <1>17, Zenon DEF EncodeKey
  <2>4. Becomes("outputs", "salt", "dh_out", Web(heap["PublicKey"]),
                {})
    BY <2>1, <2>2, <2>3, Allocated, Zenon
  <2> QED  BY <2>3, <2>4 DEF Becomes
<1>18. CASE ComputeSecretFails \/ EncodeSalt
  BY <1>18 DEF ComputeSecretFails, EncodeSalt, Goes
<1> QED
  BY <1>1, <1>2, <1>3, <1>4, <1>5, <1>6, <1>7, <1>8, <1>9, <1>10, <1>11, <1>12, <1>13, <1>14, <1>15, <1>16, <1>17, <1>18 DEF Storing

\* The other steps keep the values, or write what the next phase says.
LEMMA OtherValues ==
  ASSUME Inv, Values, Unchanging \/ Overwriting \/ CheckPeer \/ Tag
  PROVE  Values'
<1> USE DEF Values, PeerValues, KeyValues, TextValues, Text, Holds, LiveAt, Active,
            Phases, Block, Peer, PeerBlocks, Keys, Keyed, Ready, Derived
<1>1. CASE CheckKey \/ GetGroup \/ PeerPoint \/ InitCipher \/ Final
  <2>1. UNCHANGED <<key, heap, unseen>>
    BY <1>1 DEF CheckKey, GetGroup, PeerPoint, InitCipher, Final, Goes
  <2>2. /\ UserPoint' = UserPoint /\ GoodPRK' = GoodPRK
        /\ Info("aesgcm")' = Info("aesgcm") /\ Info("nonce")' = Info("nonce")
    BY <2>1, TermsStay
  <2>3. CASE CheckKey  BY <2>1, <2>2, <2>3 DEF CheckKey, Goes
  <2>4. CASE GetGroup  BY <2>1, <2>2, <2>4 DEF GetGroup, Goes
  <2>5. CASE PeerPoint  BY <2>1, <2>2, <2>5 DEF PeerPoint, Goes
  <2>6. CASE InitCipher  BY <2>1, <2>2, <2>6 DEF InitCipher, Goes
  <2>7. CASE Final  BY <2>1, <2>2, <2>7 DEF Final, Goes
  <2> QED  BY <1>1, <2>3, <2>4, <2>5, <2>6, <2>7
<1>2. CASE NewPointFails \/ OutOfMemory
  BY <1>2 DEF NewPointFails, OutOfMemory, Goes
<1>3. CASE GenerateKey
  <2>1. Goes("generate", "check") /\ Writes("curve", Point(Own)) /\ unseen' = unseen
    BY <1>3 DEF GenerateKey
  <2>2. Becomes("generate", "check", "curve", Point(Own), {})
    BY <2>1, Overwritten
  <2> QED  BY <2>1, <2>2 DEF Becomes
<1>4. CASE SetCoordinates
  <2>1. Goes("coordinates", "public") /\ Writes("pub_key", heap["pub_key_x"])
        /\ unseen' = unseen
    BY <1>4 DEF SetCoordinates
  <2>2. Becomes("coordinates", "public", "pub_key", heap["pub_key_x"], {})
    BY <2>1, Overwritten
  <2> QED  BY <2>1, <2>2 DEF Becomes
<1>5. CASE SetPublicKey
  <2>1. Goes("public", "checkpeer") /\ Writes("pkey", heap["pub_key"])
        /\ unseen' = unseen
    BY <1>5 DEF SetPublicKey
  <2>2. Becomes("public", "checkpeer", "pkey", heap["pub_key"], {})
    BY <2>1, Overwritten
  <2> QED  BY <2>1, <2>2 DEF Becomes
<1>6. CASE InitKey
  <2> DEFINE keyed == <<"keyed", heap["CEK"], heap["Nonce"]>>
  <2>1. Goes("initkey", "buffer") /\ Writes("ctx", keyed) /\ unseen' = unseen
    BY <1>6 DEF InitKey
  <2>2. Becomes("initkey", "buffer", "ctx", keyed, {})
    BY <2>1, Overwritten
  <2> QED  BY <2>1, <2>2 DEF Becomes
<1>7. CASE Update
  <2> DEFINE sealed == Sealed(heap["ctx"][2], heap["ctx"][3], heap["data_in"])
  <2>1. Goes("update", "final") /\ Writes("ciphertext", sealed) /\ unseen' = unseen
    BY <1>7 DEF Update
  <2>2. Becomes("update", "final", "ciphertext", sealed, {})
    BY <2>1, Overwritten
  <2>3. sealed = Text
    BY <2>1 DEF Goes
  <2> QED  BY <2>1, <2>2, <2>3 DEF Becomes
<1>8. CASE CheckPeer
  <2>1. Goes("checkpeer", "peerpoint") /\ unseen' = unseen
        /\ \A b \in Block \ PeerBlocks : heap'[b] = heap[b]
    BY <1>8 DEF CheckPeer, Frees
  <2>2. /\ UserPoint' = UserPoint /\ GoodPRK' = GoodPRK
        /\ Info("aesgcm")' = Info("aesgcm") /\ Info("nonce")' = Info("nonce")
    BY <2>1, TermsStay DEF Goes
  <2> QED  BY <2>1, <2>2 DEF Goes
<1>9. CASE Tag
  <2>1. Goes("tag", "outputs") /\ unseen' = unseen
        /\ heap'["ciphertext"] = Tagged(heap["ciphertext"])
        /\ \A b \in Block \ {"ctx", "ciphertext"} : heap'[b] = heap[b]
    BY <1>9 DEF Tag, Inv, Types
  <2>2. /\ UserPoint' = UserPoint /\ GoodPRK' = GoodPRK
        /\ Info("aesgcm")' = Info("aesgcm") /\ Info("nonce")' = Info("nonce")
    BY <2>1, TermsStay DEF Goes
  <2> QED  BY <2>1, <2>2 DEF Goes
<1> QED
  BY <1>1, <1>2, <1>3, <1>4, <1>5, <1>6, <1>7, <1>8, <1>9 DEF Unchanging, Overwriting

\* Terms are equal only when what they are made of is.
LEMMA TermsDiffer ==
  /\ \A x, y : Web(x) = Web(y) => x = y
  /\ \A x, y : Tagged(x) = Tagged(y) => x = y
  /\ \A x, y : Bytes(x) = Bytes(y) => x = y
  /\ \A a, b, c, d, e, f : Sealed(a, b, c) = Sealed(d, e, f) => a = d /\ b = e
  /\ \A a, b, c, d, e, f : Hkdf(a, b, c) = Hkdf(d, e, f) => b = e /\ c = f
  /\ \A t, a, b, c : InfoChunk(t, a, c) = InfoChunk(t, b, c) => a = b
  /\ \A a, b, c : Hkdf(a, b, c) # Garbage
<1>1. \A x, y : Web(x) = Web(y) => x = y
  <2> SUFFICES ASSUME NEW x, NEW y, Web(x) = Web(y) PROVE x = y  OBVIOUS
  <2>1. Web(x)[2] = x /\ Web(y)[2] = y  BY DEF Web
  <2> QED  BY <2>1
<1>2. \A x, y : Tagged(x) = Tagged(y) => x = y
  <2> SUFFICES ASSUME NEW x, NEW y, Tagged(x) = Tagged(y) PROVE x = y  OBVIOUS
  <2>1. Tagged(x)[2] = x /\ Tagged(y)[2] = y  BY DEF Tagged
  <2> QED  BY <2>1
<1>3. \A x, y : Bytes(x) = Bytes(y) => x = y
  <2> SUFFICES ASSUME NEW x, NEW y, Bytes(x) = Bytes(y) PROVE x = y  OBVIOUS
  <2>1. Bytes(x)[2] = x /\ Bytes(y)[2] = y  BY DEF Bytes
  <2> QED  BY <2>1
<1>4. \A a, b, c, d, e, f : Sealed(a, b, c) = Sealed(d, e, f) => a = d /\ b = e
  <2> SUFFICES ASSUME NEW a, NEW b, NEW c, NEW d, NEW e, NEW f,
                      Sealed(a, b, c) = Sealed(d, e, f)
               PROVE  a = d /\ b = e
    OBVIOUS
  <2>1. /\ Sealed(a, b, c)[2] = a /\ Sealed(a, b, c)[3] = b
        /\ Sealed(d, e, f)[2] = d /\ Sealed(d, e, f)[3] = e
    BY DEF Sealed
  <2> QED  BY <2>1
<1>5. \A a, b, c, d, e, f : Hkdf(a, b, c) = Hkdf(d, e, f) => b = e /\ c = f
  <2> SUFFICES ASSUME NEW a, NEW b, NEW c, NEW d, NEW e, NEW f,
                      Hkdf(a, b, c) = Hkdf(d, e, f)
               PROVE  b = e /\ c = f
    OBVIOUS
  <2>1. /\ Hkdf(a, b, c)[3] = b /\ Hkdf(a, b, c)[4] = c
        /\ Hkdf(d, e, f)[3] = e /\ Hkdf(d, e, f)[4] = f
    BY DEF Hkdf
  <2> QED  BY <2>1
<1>6. \A t, a, b, c : InfoChunk(t, a, c) = InfoChunk(t, b, c) => a = b
  <2> SUFFICES ASSUME NEW t, NEW a, NEW b, NEW c,
                      InfoChunk(t, a, c) = InfoChunk(t, b, c)
               PROVE  a = b
    OBVIOUS
  <2>1. InfoChunk(t, a, c)[3] = a /\ InfoChunk(t, b, c)[3] = b  BY DEF InfoChunk
  <2> QED  BY <2>1
<1>7. \A a, b, c : Hkdf(a, b, c) # Garbage  BY DEF Hkdf, Garbage
<1> QED  BY <1>1, <1>2, <1>3, <1>4, <1>5, <1>6, <1>7

\* What goes into the chunk are the bytes of the user's point just when the key
\* is exact, and then the point is his.
LEMMA ExactKey ==
  ASSUME Types
  PROVE  /\ UserKey = Bytes(Point(User)) <=> Exact
         /\ Exact => UserPoint = Point(User)
<1>1. \A k, l : <<"first", k, l>> # Point(User)  BY DEF Point, User
<1>2. ~Exact => UserKey # Bytes(Point(User))
  <2> SUFFICES ASSUME ~Exact, UserKey = Bytes(Point(User)) PROVE FALSE
    OBVIOUS
  <2>1. Bytes(<<"first", ChunkLength, key.head>>) = Bytes(Point(User))  BY DEF UserKey
  <2>2. <<"first", ChunkLength, key.head>> = Point(User)  BY <2>1, TermsDiffer, Zenon
  <2> QED  BY <1>1, <2>2
<1>3. Exact => key.head = "point" /\ key.len >= PointLength
  <2>1. key.len \in Nat  BY EncryptAssumption DEF Types
  <2>2. \A m \in Nat : m % 65536 = 65 => m >= 65  OBVIOUS
  <2> QED  BY <2>1, <2>2 DEF Exact, ChunkLength, Span, PointLength
<1> QED  BY <1>2, <1>3 DEF UserKey, UserPoint

\* What the user derives when all he is given is what it should be.
UsersPRK == Hkdf(UserSecret, Secret(User, Point(Own)), AuthInfo)
UsersInfo(type) == InfoChunk(type, Bytes(Point(User)), Bytes(Point(Own)))
UsersText == Tagged(Sealed(Hkdf(Salt, UsersPRK, UsersInfo("aesgcm")),
                           Hkdf(Salt, UsersPRK, UsersInfo("nonce")), Padded(Data)))

LEMMA ReadingIs == Reading(Web(Bytes(Point(Own))), Web(Salt)) = UsersText
<1> DEFINE dh == Web(Bytes(Point(Own)))
<1>1. dh[2] = Bytes(Point(Own)) /\ dh[2][2] = Point(Own) /\ Web(Salt)[2] = Salt
  BY DEF Web, Bytes
<1> HIDE DEF dh
<1>2. Reading(dh, Web(Salt)) = UsersText
  BY <1>1 DEF Reading, UsersText, UsersPRK, UsersInfo
<1> QED  BY <1>2 DEF dh

\* The keys and the text of the last step are the user's exactly when his key
\* was used and no call failed unseen.
LEMMA LastStep ==
  ASSUME Inv, Values, EncodeSalt
  PROVE  ReadableIfExact'
<1>1. /\ Goes("salt", "done") /\ unseen' = unseen
      /\ Allocates("salt_out", Web(Salt), Derived)
  BY DEF EncodeSalt
<1>2. Web(Salt) \notin Special  BY TermsAreValues
<1>3. Fits("salt", "done", "salt_out", Derived)  BY Fitting, Zenon
<1>4. Becomes("salt", "done", "salt_out", Web(Salt), Derived)
  BY <1>1, <1>2, <1>3, Allocated, Zenon
<1>5. /\ heap["PRK"] \in {GoodPRK, Garbage}
      /\ heap["CEK"] \in {Hkdf(Salt, heap["PRK"], Info("aesgcm")), Garbage}
      /\ heap["Nonce"] \in {Hkdf(Salt, heap["PRK"], Info("nonce")), Garbage}
      /\ unseen <=> \/ heap["PRK"] = Garbage
                    \/ heap["CEK"] = Garbage
                    \/ heap["Nonce"] = Garbage
  BY <1>1 DEF Goes, Values, KeyValues, Holds, LiveAt, Active, Phases, Derived
<1>6. heap["ciphertext"] = Tagged(Text) /\ heap["dh_out"] = Web(Bytes(Point(Own)))
  BY <1>1 DEF Goes, Values, TextValues, Active, Phases
<1>7. /\ heap'["ciphertext"] = Tagged(Text)
      /\ heap'["dh_out"] = Web(Bytes(Point(Own)))
      /\ heap'["salt_out"] = Web(Salt)
      /\ key' = key /\ (Exact' <=> Exact)
  BY <1>4, <1>6 DEF Becomes, Block, Derived, Exact, ChunkLength
<1>8. Reading(heap["dh_out"], heap["salt_out"])' = UsersText
  BY <1>7, ReadingIs DEF Reading
<1>9. ASSUME Tagged(Text) = UsersText
      PROVE  Exact /\ ~unseen
  <2>1. Text = Sealed(Hkdf(Salt, UsersPRK, UsersInfo("aesgcm")),
                      Hkdf(Salt, UsersPRK, UsersInfo("nonce")), Padded(Data))
    BY <1>9, TermsDiffer, Zenon DEF UsersText
  <2>2. /\ heap["CEK"] = Hkdf(Salt, UsersPRK, UsersInfo("aesgcm"))
        /\ heap["Nonce"] = Hkdf(Salt, UsersPRK, UsersInfo("nonce"))
    BY <2>1, TermsDiffer DEF Text
  <2>3. heap["CEK"] # Garbage /\ heap["Nonce"] # Garbage
    BY <2>2, TermsDiffer
  <2>4. Hkdf(Salt, heap["PRK"], Info("aesgcm")) = Hkdf(Salt, UsersPRK, UsersInfo("aesgcm"))
    BY <1>5, <2>2, <2>3
  <2>5. heap["PRK"] = UsersPRK /\ Info("aesgcm") = UsersInfo("aesgcm")
    BY <2>4, TermsDiffer
  <2>6. heap["PRK"] # Garbage  BY <2>5, TermsDiffer DEF UsersPRK
  <2>7. UserKey = Bytes(Point(User))
    BY <2>5, TermsDiffer, Zenon DEF Info, UsersInfo
  <2> QED  BY <1>5, <2>3, <2>6, <2>7, ExactKey DEF Inv
<1>10. ASSUME Exact, ~unseen
       PROVE  Tagged(Text) = UsersText
  <2>1. UserKey = Bytes(Point(User)) /\ UserPoint = Point(User)
    BY <1>10, ExactKey DEF Inv
  <2>2. Info("aesgcm") = UsersInfo("aesgcm") /\ Info("nonce") = UsersInfo("nonce")
    BY <2>1 DEF Info, UsersInfo
  <2>3. Secret(Own, Point(User)) = Secret(User, Point(Own))  BY DEF Secret
  <2>4. heap["PRK"] = UsersPRK
    BY <1>5, <1>10, <2>1, <2>3 DEF GoodPRK, UsersPRK
  <2> QED  BY <1>5, <1>10, <2>2, <2>4 DEF Text, UsersText
<1> QED
  BY <1>1, <1>7, <1>8, <1>9, <1>10 DEF ReadableIfExact

\* The whole invariant.
Full == Inv /\ KeyChecked /\ Values /\ ReadableIfExact

LEMMA FullPreserved == Full /\ [Next]_vars => Full'
<1> SUFFICES ASSUME Full, [Next]_vars PROVE Full'
  OBVIOUS
<1>1. Inv /\ Inv' /\ KeyChecked'  BY Preservation, KeyCheckedPreserved DEF Full
<1>2. CASE UNCHANGED vars
  <2>1. Values' /\ ReadableIfExact'
    BY <1>2 DEF Full, vars, Values, PeerValues, KeyValues, TextValues, Holds, Text, Info,
       GoodPRK, UserKey, UserPoint, Exact, ChunkLength, ReadableIfExact, Reading
  <2> QED  BY <1>1, <2>1 DEF Full
<1>3. CASE Failing
  <2>1. phase' = "failed"
    BY <1>3 DEF Failing, Fails, Goes, NewCurveFails, GenerateKeyFails, CheckKeyFails,
       GetGroupFails, NewPeerFails, ReadXFails, ReadYFails, SetCoordinatesFails,
       SetPublicKeyFails, CheckPeerFails, PeerPointFails, PointToBnFails,
       NewContextFails, InitCipherFails, InitKeyFails, UpdateFails, FinalFails,
       TagFails
  <2> QED  BY <1>1, <2>1 DEF Full, Values, Active, ReadableIfExact
<1>4. CASE Unchanging \/ Overwriting \/ CheckPeer \/ Tag
  <2>1. phase' # "done"
    BY <1>4 DEF Goes, Unchanging, Overwriting, CheckPeer, Tag, CheckKey, GetGroup,
       PeerPoint, InitCipher, Final, NewPointFails, OutOfMemory, GenerateKey,
       SetCoordinates, SetPublicKey, InitKey, Update
  <2> QED  BY <1>1, <1>4, <2>1, OtherValues DEF Full, ReadableIfExact
<1>5. CASE EncodeSalt
  <2>1. phase' = "done"  BY <1>5 DEF EncodeSalt, Goes
  <2> QED  BY <1>1, <1>5, <2>1, LastStep DEF Full, Values, Active
<1>6. CASE Storing /\ ~EncodeSalt
  <2>1. phase' # "done"
    BY <1>6 DEF Goes, Storing, NewCurve, NewPeer, ReadX, ReadY, NewPoint, ComputeSecret,
       ComputeSecretFails, DerivePRK, PointToBn, BnToBytes, CekInfo, DeriveCEK,
       NonceInfo, DeriveNonce, Pad, NewContext, Buffer, EncodeKey
  <2>2. Values'  BY <1>6, StoringValues DEF Full, Values
  <2> QED  BY <1>1, <2>1, <2>2 DEF Full, ReadableIfExact
<1> QED  BY <1>2, <1>3, <1>4, <1>5, <1>6, NextCases

LEMMA FullInvariance == Spec => []Full
<1>1. Init => Full
  <2> SUFFICES ASSUME Init PROVE Full
    OBVIOUS
  <2>1. Inv /\ phase = "curve"  BY InitInv DEF Init
  <2>2. KeyChecked /\ ReadableIfExact
    BY <2>1 DEF KeyChecked, Middle, Late, ReadableIfExact
  <2>3. Values
    BY <2>1 DEF Init, Values, PeerValues, KeyValues, TextValues, Holds, LiveAt
  <2> QED  BY <2>1, <2>2, <2>3 DEF Full
<1> QED  BY <1>1, FullPreserved, PTL DEF Spec

\* The user can read the message exactly when the key begins with his point, its
\* length as a uint16_t is that of a point, and no call failed unseen: for keys
\* of every length.
THEOREM ReadableExactly == Spec => []ReadableIfExact
<1>1. Full => ReadableIfExact  BY DEF Full
<1> QED  BY <1>1, FullInvariance, PTL
-----------------------------------------------------------------------------
\* A step goes from an active phase to another, or ends the encryption.
LEMMA StepKinds ==
  ASSUME Next
  PROVE  /\ phase \in Active /\ key' = key
         /\ \/ phase' \in Active
            \/ phase' \in {"failed", "crashed", "exited"}
            \/ phase' = "done" /\ EncodeSalt
<1> USE DEF Goes, Active, Phases
<1>1. CASE Failing
  BY <1>1 DEF Failing, Fails, NewCurveFails, GenerateKeyFails, CheckKeyFails,
     GetGroupFails, NewPeerFails, ReadXFails, ReadYFails, SetCoordinatesFails,
     SetPublicKeyFails, CheckPeerFails, PeerPointFails, PointToBnFails,
     NewContextFails, InitCipherFails, InitKeyFails, UpdateFails, FinalFails, TagFails
<1>2. CASE Unchanging
  BY <1>2 DEF Unchanging, CheckKey, GetGroup, PeerPoint, InitCipher, Final,
     NewPointFails, OutOfMemory
<1>3. CASE Overwriting
  BY <1>3 DEF Overwriting, GenerateKey, SetCoordinates, SetPublicKey, InitKey, Update
<1>4. CASE NewCurve \/ NewPeer \/ ReadX \/ ReadY \/ NewPoint \/ ComputeSecret
             \/ ComputeSecretFails \/ DerivePRK \/ PointToBn \/ BnToBytes
  BY <1>4 DEF NewCurve, NewPeer, ReadX, ReadY, NewPoint, ComputeSecret,
     ComputeSecretFails, DerivePRK, PointToBn, BnToBytes
<1>5. CASE CekInfo \/ DeriveCEK \/ NonceInfo \/ DeriveNonce \/ Pad \/ NewContext
             \/ Buffer \/ EncodeKey
  BY <1>5 DEF CekInfo, DeriveCEK, NonceInfo, DeriveNonce, Pad, NewContext, Buffer,
     EncodeKey
<1>6. CASE EncodeSalt  BY <1>6 DEF EncodeSalt
<1>7. CASE CheckPeer \/ Tag  BY <1>7 DEF CheckPeer, Tag
<1>8. Failing \/ Unchanging \/ Overwriting \/ Storing \/ CheckPeer \/ Tag
  BY DEF Next, Failing, Unchanging, Overwriting, Storing
<1> QED
  BY <1>1, <1>2, <1>3, <1>4, <1>5, <1>6, <1>7, <1>8 DEF Storing

\* What FcmClient has allocated while the encryption goes on.
LEMMA ActiveLive ==
  phase \in Active => ClientLive = {"response", "endpoint", "p256_dec", "auth_dec"}
BY DEF Active, Phases, ClientLive

LEMMA Invisible ==
  ASSUME phase \in Active, phase' \in Active, key' = key
  PROVE  UNCHANGED Client!vars
<1>1. ClientLive = ClientLive'
  BY DEF Active, Phases, ClientLive
<1> QED
  BY <1>1 DEF Client!vars, Active, Phases, Request

LEMMA Failed ==
  ASSUME phase \in Active, phase' = "failed", key' = key
  PROVE  Client!EncryptFails(Caller)
<1>1. ClientLive = {"response", "endpoint", "p256_dec", "auth_dec"}  BY ActiveLive
<1>2. ClientLive' = {}  BY DEF ClientLive
<1>3. phase \notin {"done", "failed", "crashed", "exited"}  BY DEF Active
<1>4. Client!Step(Caller, "encrypt", "idle")  BY <1>3 DEF Client!Step
<1>5. Client!Memory(Caller, {}, {"p256_dec", "auth_dec", "endpoint", "response"})
  BY <1>1, <1>2, <1>3 DEF Client!Memory, Client!Block
<1>6. Client!Settle(Caller, "null")
  BY <1>3 DEF Client!Settle, Client!NoCall, Request
<1> QED
  BY <1>3, <1>4, <1>5, <1>6 DEF Client!EncryptFails, Client!connVars

LEMMA Ended ==
  ASSUME phase \in Active, phase' \in {"crashed", "exited"}, key' = key
  PROVE  Client!EncryptCrashes(Caller) \/ Client!OutOfMemory(Caller)
<1>1. ClientLive = ClientLive'
  BY DEF Active, Phases, ClientLive
<1>2. CASE phase' = "crashed"
  BY <1>1, <1>2 DEF Active, Phases, Client!EncryptCrashes, Client!Step,
     Client!connVars, Caller
<1>3. CASE phase' = "exited"
  BY <1>1, <1>3 DEF Active, Phases, Client!OutOfMemory, Client!Step,
     Client!connVars, Caller
<1> QED  BY <1>2, <1>3

LEMMA Encrypted ==
  ASSUME Full, Full', EncodeSalt
  PROVE  Client!Encrypt(Caller)
<1>1. phase = "salt" /\ phase' = "done" /\ key' = key  BY DEF EncodeSalt, Goes
<1>2. key.head \notin {"compressed", "offcurve"}
  BY <1>1 DEF Full, KeyChecked, Late
<1>3. ClientLive = {"response", "endpoint", "p256_dec", "auth_dec"}
  BY <1>1, ActiveLive DEF Active, Phases
<1>4. Live' = {"ciphertext", "dh_out", "salt_out"}
  BY <1>1 DEF Full, Inv, Accounted, LiveAt
<1>5. ClientLive' = {"response", "endpoint", "message_enc", "dh", "salt"}
  BY <1>1, <1>4 DEF ClientLive, ClientBlock, Live
<1> QED
  BY <1>1, <1>2, <1>3, <1>5 DEF Client!Encrypt, Client!Step, Client!Memory, Client!My,
     Client!connVars, Client!callVars, Client!Block, Request, Caller

\* The encryption does to its caller what FcmClient says it does.
THEOREM EncryptStepsOfClient == Spec => StepsOfClient
<1>1. Full /\ Full' /\ [Next]_vars => [Client!Advance(Caller)]_(Client!vars)
  <2> SUFFICES ASSUME Full, Full', [Next]_vars
               PROVE  Client!Advance(Caller) \/ UNCHANGED Client!vars
    OBVIOUS
  <2>1. CASE UNCHANGED vars
    BY <2>1 DEF vars, Client!vars, ClientLive, Request
  <2>2. CASE Next /\ phase' \in Active  BY <2>2, StepKinds, Invisible
  <2>3. CASE Next /\ phase' = "failed"
    BY <2>3, StepKinds, Failed DEF Client!Advance
  <2>4. CASE Next /\ phase' \in {"crashed", "exited"}
    BY <2>4, StepKinds, Ended DEF Client!Advance
  <2>5. CASE EncodeSalt  BY <2>5, Encrypted DEF Client!Advance
  <2> QED  BY <2>1, <2>2, <2>3, <2>4, <2>5, StepKinds
<1> QED  BY <1>1, FullInvariance, PTL DEF Spec, StepsOfClient
=============================================================================
