--------------------------- MODULE MCBlockHashes ----------------------------
(***************************************************************************)
(* The hashes that cut their message in blocks, side by side: SHA-2 and    *)
(* Whirlpool, BLAKE and Skein, two objects each, with blocks of four       *)
(* bytes.  A behaviour is one family's; the others rest.                   *)
(***************************************************************************)
EXTENDS Sha2Hash

VARIABLES family,
          bObj, bCall, bMsg, bSpent, bOver, bOut,
          kObj, kMsg, kWrites, kKeyed, kSpent, kOut
bVars == <<bObj, bCall, bMsg, bSpent, bOver, bOut>>
kVars == <<kObj, kMsg, kWrites, kKeyed, kSpent, kOut>>

\* SHA-2: less than a block, one short of a block, a block, and more than a block
MCData == {<<7>>, <<128, 0, 7>>, <<5, 6, 7, 8>>, <<1, 2, 3, 4, 5>>}

\* BLAKE: one byte, one short of a block, and more than a block
B == INSTANCE Blake1Hash WITH
       LenSpace <- 1, MaxLen <- 8,
       Data <- {<<7>>, <<128, 0, 7>>, <<1, 2, 3, 4, 5>>},
       obj <- bObj, call <- bCall, msg <- bMsg, spent <- bSpent, over <- bOver, out <- bOut

\* Skein: no byte, one, a block exactly, and more than two blocks; a key longer than a
\* block, a key-id, and a digest of two blocks
K == INSTANCE SkeinHash WITH
       MaxLen <- 9, Key <- <<9, 9, 9, 9, 9>>, Kdf <- <<8>>, OutBlocks <- 2,
       Data <- {<<>>, <<7>>, <<1, 2, 3>>, <<1, 2, 3, 4>>, <<1, 2, 3, 4, 5, 6, 7, 8, 9>>},
       obj <- kObj, msg <- kMsg, writes <- kWrites, keyed <- kKeyed, spent <- kSpent, out <- kOut

ASSUME BlakeAssumption == B!BlakeSizes

AllInit == /\ family \in {"SHA-2", "BLAKE", "Skein"}
           /\ ShaInit /\ B!Init /\ K!Init
AllNext == /\ UNCHANGED family
           /\ \/ family = "SHA-2" /\ ShaNext /\ UNCHANGED <<bVars, kVars>>
              \/ family = "BLAKE" /\ B!Next /\ UNCHANGED <<svars, kVars>>
              \/ family = "Skein" /\ K!Next /\ UNCHANGED <<svars, bVars>>
AllSpec == AllInit /\ [][AllNext]_<<family, svars, bVars, kVars>>

\* BLAKE: the blocks are always those of the message, in order, and without drift a
\* digest does not depend on how the message came (Blake1.ts write()).
BlakeRight == family = "BLAKE" => B!BlakeRight

\* Skein: one write gives the digest of the definition after any reset, clone or newEmpty,
\* and no block is encrypted under a stale tweak: its flags and position are the block's.
SkeinRight ==
  family = "Skein" => K!TypeOK /\ K!OneWriteDigest /\ K!TweakWordFresh /\ K!MessageTweaks
=============================================================================
