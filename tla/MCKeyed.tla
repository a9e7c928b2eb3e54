------------------------------ MODULE MCKeyed -------------------------------
(***************************************************************************)
(* What works under a key: two AEAD objects on a channel, block and stream *)
(* ciphers, block modes, macs, and BLAKE2, whose blocks may begin with a   *)
(* key.  A behaviour is one family's; the others rest.                     *)
(***************************************************************************)
EXTENDS FullCrypt, HmacHash, TLC

CONSTANTS Families,    \* bound: whose behaviours
          AeadStrays,  \* bound: what callers of an AEAD do that the code does not expect
          keyByte, d1, d2

VARIABLES family,
          aKind, aSnd, aRcv, aMsg, aWrote, aCt, aFound, aTag, aVerdict, aAsked, aAstray,
          cName, cKey, cBuilt, cBase, cBuff, cNet, cCalls, cAstray,
          hObj, hMsg, hSpent, hOut,
          pObj, pMsg, pSpent, pOut,
          eObj, eMsg, eSplit, eSpent, eOut,
          tObj, tCount, tCall, tMsg, tSpent, tDrifted, tTouched, tOut
aVars == <<aKind, aSnd, aRcv, aMsg, aWrote, aCt, aFound, aTag, aVerdict, aAsked, aAstray>>
cVars == <<cName, cKey, cBuilt, cBase, cBuff, cNet, cCalls, cAstray>>
hVars == <<hObj, hMsg, hSpent, hOut>>
pVars == <<pObj, pMsg, pSpent, pOut>>
eVars == <<eObj, eMsg, eSplit, eSpent, eOut>>
tVars == <<tObj, tCount, tCall, tMsg, tSpent, tDrifted, tTouched, tOut>>
-----------------------------------------------------------------------------
\* Block modes and stream ciphers: one class each; an iv that does not fit a block gives
\* no object.  Messages of up to two and a half blocks, in up to two pieces.
MCCipher(b) == LET x == (b[1] + 37 * b[2] + 11) % 256 IN <<x, (b[2] + 101 * x + 5) % 256>>
MCDecipher(b) == LET y == (b[2] - 101 * b[1] - 5) % 256 IN <<(b[1] - 37 * y - 11) % 256, y>>
Bytes == <<0, 1, 128, 255>>
Iv == <<255, 254>>
Key == <<1, 128>>
MCKinds == UNION {M!Ecb(p) \union M!Cbc(p, Iv) : p \in M!Paddings}
           \union UNION {M!Cfb(iv) \union M!Ofb(iv) \union M!Ctr(iv, {}) \union M!Ctr(iv, {254}) :
                             iv \in {Iv, <<128>>}}
           \union {Salsa(Key, Iv, 0), XSalsa(Key, Iv, Key, 14), ChaCha(Key, Iv, 2),
                   XChaCha(Key, Iv, <<1>>, 0), Rabbit(Key, Iv)}
MCMessages == {[i \in 1..n |-> Bytes[((s * i) % 4) + 1]] : n \in 0..5, s \in {0, 1, 2}}

\* AEADs: every class; associated data and messages from nothing to two blocks and more
Asc == INSTANCE Ascon
Null == {}
Mark == {Asc!Mark}
Some == {Asc!Atom(1)}
Ads == {<<>>, <<Null>>, <<Mark>>, <<Null, Null>>, <<Null, Mark>>, <<Some, Null>>,
        <<Some, Mark, Null>>, <<Some, Null, Mark, Null, Mark>>}
Text(n) == [i \in 1..n |-> {Asc!Atom(i + 1)}]
AeadKinds == {Asc!Ascon128, Asc!Ascon128a, Asc!Ascon80pq} \union [cipher : {"ChaCha20"}]
AeadMessages == {[ad |-> a, believed |-> a, pt |-> Text(n), change |-> c] :
                    a \in Ads, n \in {0, 1, 3, 4, 9}, c \in {"none", "flipped", "cut", "added"}}
                \union [ad : Ads, believed : Ads, pt : {Text(2)}, change : {"none"}]
                \union {[ad |-> <<>>, believed |-> <<Some>>, pt |-> <<Some, Mark>> \o Text(n),
                         change |-> "beheaded"] : n \in {0, 1}}
A == INSTANCE AeadSession WITH
       Kinds <- AeadKinds, Messages <- AeadMessages, Cuts <- {0, 1, 2, 4, 8}, Strays <- AeadStrays,
       kind <- aKind, snd <- aSnd, rcv <- aRcv, msg <- aMsg, wrote <- aWrote, ct <- aCt,
       found <- aFound, tag <- aTag, verdict <- aVerdict, asked <- aAsked, astray <- aAstray

\* Simon and Speck: every class, on a buffer of two blocks
CipherNames == {"Simon64_96", "Simon64_128", "Simon128_128", "Simon128_192", "Simon128_256",
                "Speck64_96", "Speck64_128", "Speck128_128", "Speck128_192", "Speck128_256"}
C == INSTANCE BlockCiphers WITH
       Names <- CipherNames, Blocks <- 2, MaxCalls <- 3,
       name <- cName, key <- cKey, built <- cBuilt, base <- cBase, buff <- cBuff, net <- cNet,
       calls <- cCalls, astray <- cAstray

\* The hashes of Ascon and the mac of Poly1305 behind IHash
HashData == {<<>>, <<Some>>, <<Null, Mark>>, <<Some, Mark, Null>>}
Ah == INSTANCE MacHash WITH
       Kind <- Asc!AsconHash, Ctx <- {"h1", "h2"}, Data <- HashData, MaxLen <- 5, Strays <- FALSE,
       obj <- hObj, msg <- hMsg, spent <- hSpent, out <- hOut
P == INSTANCE MacHash WITH
       Kind <- [mac |-> "Poly1305"], Ctx <- {"p1", "p2"}, Data <- HashData, MaxLen <- 5,
       Strays <- FALSE,
       obj <- pObj, msg <- pMsg, spent <- pSpent, out <- pOut

\* Hmac on a hash of two byte blocks; a key is padded, just fits, or is hashed
HmacBytes == {keyByte, NulByte}
HmacKeys == {<<keyByte>>, <<keyByte, NulByte>>, <<NulByte, keyByte, keyByte>>}
HmacData == {<<>>, <<keyByte>>, <<NulByte, keyByte>>}

\* Cmac with two byte blocks; arrays from empty to three blocks
Cm == INSTANCE CmacHash WITH
       Ctx <- {"e1", "e2"}, MaxLen <- 5, BlockSize <- 2,
       Data <- {<<>>, <<1>>, <<2, 1>>, <<1, 2, 1>>, <<2, 2, 1, 1>>, <<1, 2, 1, 1, 2>>},
       obj <- eObj, msg <- eMsg, split <- eSplit, spent <- eSpent, out <- eOut

\* BLAKE2 with blocks of three bytes, with a key and without: one byte, and more than a
\* block
TwoObjects == {d1, d2}
T == INSTANCE Blake2Hash WITH
       Ctx <- TwoObjects, BlockSize <- 3, MaxLen <- 4, MaxCount <- 5, Keys <- {<<>>, <<9>>},
       Data <- {<<7>>, <<1, 2, 3, 4>>},
       obj <- tObj, count <- tCount, call <- tCall, msg <- tMsg, spent <- tSpent,
       drifted <- tDrifted, touched <- tTouched, out <- tOut
MCSymmetry == Permutations(TwoObjects)

ASSUME InstanceAssumptions ==
  /\ C!BlocksAssumption
  /\ Cm!BlockSizeAssumption /\ T!Blake2Sizes
-----------------------------------------------------------------------------
Everything == {"modes", "aead", "blocks", "ascon", "poly1305", "hmac", "cmac", "blake2"}
Rest(f, resting) == family # f => resting
AllInit == /\ family \in Families
           /\ CInit /\ Rest("modes", o = Rabbit(Key, Iv))
           /\ A!Init /\ Rest("aead", aKind = Asc!Ascon128 /\ aMsg.pt = <<>> /\ aMsg.ad = <<>>
                                       /\ aMsg.believed = <<>> /\ aMsg.change = "none")
           /\ C!Init /\ Rest("blocks", cName = "Speck64_96" /\ cBase = 0)
           /\ Ah!Init /\ P!Init
           /\ Init /\ Rest("hmac", \A m \in Mac : key[m] = <<keyByte>>)
           /\ Cm!Init
           /\ T!Init /\ Rest("blake2", \A d \in TwoObjects : tObj[d].key = <<>>)
Rested == <<cryptVars, aVars, cVars, hVars, pVars, vars, eVars, tVars>>
AllNext ==
  /\ UNCHANGED family
  /\ \/ /\ family = "modes" /\ CNext
        /\ UNCHANGED <<aVars, cVars, hVars, pVars, vars, eVars, tVars>>
     \/ /\ family = "aead" /\ A!Next
        /\ UNCHANGED <<cryptVars, cVars, hVars, pVars, vars, eVars, tVars>>
     \/ /\ family = "blocks" /\ C!Next
        /\ UNCHANGED <<cryptVars, aVars, hVars, pVars, vars, eVars, tVars>>
     \/ /\ family = "ascon" /\ Ah!Next
        /\ UNCHANGED <<cryptVars, aVars, cVars, pVars, vars, eVars, tVars>>
     \/ /\ family = "poly1305" /\ P!Next
        /\ UNCHANGED <<cryptVars, aVars, cVars, hVars, vars, eVars, tVars>>
     \/ /\ family = "hmac" /\ Next
        /\ UNCHANGED <<cryptVars, aVars, cVars, hVars, pVars, eVars, tVars>>
     \/ /\ family = "cmac" /\ Cm!Next
        /\ UNCHANGED <<cryptVars, aVars, cVars, hVars, pVars, vars, tVars>>
     \/ /\ family = "blake2" /\ T!Next
        /\ UNCHANGED <<cryptVars, aVars, cVars, hVars, pVars, vars, eVars>>
AllSpec == AllInit /\ [][AllNext]_<<family, Rested>>
-----------------------------------------------------------------------------
\* What the receiver of an AEAD verifies is what was sent, associated data included, and
\* what it verified decrypts to what the sender encrypted (Ascon.ts, Poly1305.ts).
AeadRight == family = "aead" => A!VerifiesSent /\ A!VerifiedIsPlain

\* Every encryption of a block is undone by a decryption, in any order over the blocks of
\* a buffer and by any two ciphers of one key, until a 128 bit class is built twice from
\* one key array or used past the first block (Simon*.ts, Speck*.ts).
CallsCancel == family = "blocks" => C!CallsCancel

\* AsconHash and Poly1305 keep the IHash contract while no write misses a block's end.
MacsAreIHash == Ah!ImplementsIHash /\ P!ImplementsIHash

\* Cmac: tags are RFC 4493's until a write() is split over a begun block (Cmac.ts:55).
CmacRight == family = "cmac" => Cm!TypeOK /\ Cm!TagRightUnlessSplit

\* BLAKE2: the counter holds the key and the message, and an object whose counter no other
\* call touched returns the digest of one write() (Blake2.ts).
Blake2Right == family = "blake2" => T!Blake2Right

\* "Encrypt a block in place ... @param offset Block-offset. Note 1 is the second block"
\* (Simon128.ts, Speck128.ts): a call changes the block its offset names.
BlockAtOffset == C!BlockAtOffset

\* "can be called multiple times" (Ascon.ts, Poly1305.ts writeAD()): a tag does not depend
\* on how the associated data was cut.
AdInPieces == A!AdInPieces
=============================================================================
