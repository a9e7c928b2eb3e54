# A verification development of gnablib

gnablib is a TypeScript library without dependencies: hashes, ciphers, checksums,
random number generators, codecs, dates and the byte handling below them. Nothing in
it waits, forks or calls back asynchronously: every call runs to its end on one thread.
What is hard to test is in its *stateful objects*: a caller holds several, calls their
methods in any order, with data cut in any way, and expects what the interface says; and
in its *arithmetic at the edges*: the last hour of a month, a shift by the width, a key
of exactly a block. This directory models both in TLA+, checks the models with TLC on
small instances, and proves the main results with TLAPS for all values of the constants.

Paths below are in the repository; `src/...` is its library, `tst/...` its tests.

## 1. Inventory

### What the objects promise

Everything that is fed piecewise implements `IHash` or `IWriter`
(`src/crypto/interfaces/IHash.ts`): `write` adds to the message, `sum` returns the
digest "of all content written so far (does not mutate state)", `sumIn` may destroy
the object, `reset` empties it, `clone` copies it "(uses different memory)", `newEmpty`
makes an empty object of the same algorithm. The comment at the top of the interface
says what a caller relies on: `write(a), sum(), write(b), sum()` gives `hash(a)` and
`hash(ab)`. What encrypts implements `IFullCrypt` (pieces in, pieces out, undone by the
same calls on the other side), AEADs add stages and a tag, block ciphers implement
`IBlockCrypt` (a block of the caller's array, in place).

### The parts

| Part | State it keeps | Operations | What is hard about it | What makes it correct |
|---|---|---|---|---|
| MD4, MD5, RIPEMD, SHA-1 (`crypto/hash/Md5.ts` and others) | chaining value, block, position, count of bytes | the IHash calls | a write of any length against a partly filled block; one block or two at the end; stale bytes of the block after `reset` | digest depends on the message alone, padding is the standard's |
| SHA-2, Whirlpool | the same | the same | a write loop that throws when a begun block is overrun, after the count was advanced | the same until a throw, and which writes cannot throw |
| BLAKE, BLAKE2 | the same, and a count that enters each compression | the same | the count is advanced in two places; in BLAKE2 it is an object of its own that clones share | count equals bytes, a digest is that of the message |
| Skein | chain, configured chain to go back to, block, `Tweak` with a cached word behind a lock | the same | lazy last block, the cache, objects built without the key and then patched | no stale tweak, blocks in order, one-write digest |
| Keccak, SHA-3, SHAKE | sponge state, position | the same | pad bits that fall on one byte | digest tells messages apart |
| cSHAKE, KMAC, TupleHash, ParallelHash | a sponge they own, a block and a count | the same, inherited or not | what a subclass forgets to override | digest is the input string of SP 800-185 |
| KangarooTwelve, HopMAC | sponge, an array of chunk hashes | the same | clones share the array | what an object holds is its message |
| Streebog | block filled from the end, 512 bit sums | the same | as MD5, with two sums | as MD5 |
| HMAC (`crypto/mac/Hmac.ts`) | three hash objects, two shared by a family | the same | any call of a relative must leave the two shared ones alone | RFC 2104 of the key and the message |
| CMAC (`crypto/mac/Cmac.ts`) | chained block, position | the same | a full block waits until it is known not to be the last | RFC 4493 |
| Poly1305, Ascon, the AEADs (`crypto/mac/Poly1305.ts`, `crypto/sym/Ascon.ts`) | stage, block, position | associated data, encrypt or decrypt, verify | calls out of order, data cut anywhere, a channel that changes what it carries | verified means sent; what is verified decrypts to what was encrypted |
| HKDF, PBKDF2 (`crypto/kdf`) | one HMAC, a running total | one call | arrays that `sumIn` returns are live | the RFC's recursion |
| block modes, padding (`crypto/block`, `crypto/pad`) | an iv or counter, not moved on by a call | encrypt, decrypt, pad, unpad | boundaries: empty, whole block; in place | one undoes the other |
| stream ciphers (`crypto/sym`) | count of blocks, derived key | encrypt in pieces | what a call throws away of a block; counter overflow | both sides stay in step |
| Simon, Speck (`crypto/sym`) | round keys, a view of the caller's block | encrypt or decrypt one block in place | a schedule that runs in the caller's key; views that begin inside their buffer | calls cancel, on the block they name |
| HOTP, TOTP (`crypto/otp`) | none (the caller keeps the counter) | one code per counter | text of addresses | the RFC's truncation |
| checksums (`checksum`) | sums, tail buffer | write, sum, clone | reduction put off until it is necessary; tail shorter than a lane | equal to the definition |
| generators (`prng`) | state words, pointers beside them | numbers of any width, fill, save, restore | a number's bits across drawn words, byte order of what is saved, `fillBytes` must end | leading bits of the stream; a restored generator continues it |
| `BitReader`, `BitWriter`, `ByteWriter`, `WindowStr` (`primitive`) | position in bytes and bits | read, write, skip, seek, align | bit positions that straddle bytes, windows on a shared buffer | what is read is what was written |
| typed arrays (`primitive/TypedArrayExt.ts`) | a buffer that is replaced, a length, a lock, views | element, fill, set, reverse, sort, capacity, spans | a buffer replaced under its spans | a growing array is the sequence of its elements; spans share its memory |
| 32 to 512 bit numbers (`primitive/number`) | limbs in an array; mutable kinds alias | arithmetic, order, bytes | carries, shifts of 32 and more, aliased operands | arithmetic modulo 2^w; nothing else is touched |
| IP addresses (`primitive/net`) | tree of ranges | add, remove, merge | merging neighbours | the set of addresses |
| codecs (`codec`) | none | encode, decode | padding, limits of lengths | decoding undoes encoding |
| BNF, NFA (`abnf`, `algo`) | shared window, state sets | descend, step | position after a branch that failed | longest match, language of the expression |
| Reed-Solomon (`ecc`) | tables | encode, decode | number of errors at the limit | decodes what the code can correct |
| commands and columns (`cud`) | command list, table | apply, serialise | order, ids | round trip |
| dates and durations (`datetime`) | the fields of a date, in bytes | add, subtract, difference, compare, serialise, parse | ends of months and years, years before 0, days without a month | the instant of the Gregorian calendar |
| `endian`, `error`, `safe`, `regexp`, `interfaces` | none | guards | | the guards of their callers |
| `runtime`, `cli`, `test` | environment | input and output | | |

### How they interact

HMAC, HKDF, PBKDF2 and HOTP are built on an `IHash` somebody else made; the derived
functions of Keccak own a sponge; ParallelHash and KangarooTwelve own sponges that they
create while writing; Skein drives Threefish through a `Tweak` both hold; CMAC and the
block modes drive a block cipher; Poly1305's AEAD drives a stream cipher; a generator
fills an array through a `BitWriter`; dates and durations are serialised through bit
writers and parsed from windows. All of these are direct calls. What is shared is
memory: a U64Mut, an array of chunks, two hashes of a family of HMACs, a caller's key
array, limbs two numbers are mounted on, a buffer under a span. There are no callbacks,
threads or files, hence no crash and no timeout to model; the one thing between two
objects that may go wrong is the channel between a sender and a receiver, which in
`AeadSession` changes, cuts, extends or beheads what it carries.

The models take one property of the hash layer to the layer above: a class that
implements `HashContract` *is* the message written to it. So in `CShakeHash` and
`HmacHash` a sponge or hash is the sequence of what was written to it, and `KeccakHash`
and `MdHash` are what entitles them to that.

## 2. Modules

```
HashContract   abstract IHash                     BlockBuffer    the byte block and its helpers
   ^  ^  ^                                          ^    ^   ^    ^
   |  |  +- implements --- KeccakHash               |    |   |    |
   |  +---- implements --- MacHash (Ascon,Poly1305) |    |   |  SkeinHash
   +------- implements --- MdHash ------------------+  Blake1Hash  Blake2Hash
                            ^
                         Sha2Hash
Sp800185  <--- CShakeHash, K12Hash        HmacHash, CmacHash (over any hash, any cipher)
Ascon, Poly1305  <--- AeadSession, MacHash
Words  <--- Arx  <--- BlockCiphers        BlockModes (over any cipher)  <--- FullCrypt
Words  <--- Prng32, Prng64                Prng32, BitStream  <--- Prng
Words  <--- BitStream  <--- Dates  <--- DateTime
Numbers                                   GrowableArray <- implements - TypedArrays
<Name>Proofs                   theorems of MdHash and Sha2Hash, Blake1Hash, Blake2Hash,
                               KeccakHash, HmacHash and FullCrypt (KeyedProofs),
                               TypedArrays, Prng, Numbers
MC<Name>                       small values for TLC, and the families that share a run
```

Hashes:

- **HashContract** is the interface as a state machine: a message per object, and what
  the last call returned. It is the abstract specification of the hashes.
- **BlockBuffer**: `#block`, `set`, the position, the rest filled with zeros.
- **MdHash**: `Md5.ts`, whose flow `Md4.ts`, `RipeMd.ts` and `Sha1.ts` share (constants
  for the block, the length field and its byte order). The `while` loop of `write` is
  three actions, one per way a turn can go: `WriteTail` (the rest fits), `WriteBlock`
  (a block is completed and compressed), `WriteEnd` (nothing left). `call` holds the
  loop's local variables. No other call starts before it returns. `Final` is `sumIn`:
  marker, flush if the length does not fit, zeros, length, compression.
- **Sha2Hash** extends MdHash with the loop of `Sha2.ts` and `Whirlpool.ts`, which hands
  up to a whole block to `TypedArray.set` at `_bPos`; that throws when it does not fit
  (`WriteThrows`).
- **Blake1Hash**, **Blake2Hash**: the same loop with the count given to each
  compression. Blake2Hash has a heap of counters, as `clone()` copies the reference to
  one, and a key per object.
- **SkeinHash**: `SkeinCore` and the class `Tweak` of `Threefish.ts`. A block in the
  chain carries the tweak it was encrypted under and the word the cipher really read
  from the cache.
- **KeccakHash**: a byte absorbed per step, a byte being a set of bits so that the two
  paddings can be xored into one; `Final` is suffix, end bit, permutation.
- **Sp800185**: `leftEncode`, `rightEncode`, `encodeString`, `bytePad`,
  `k12LengthEncode` as operators, in any base and for any length of the buffer.
- **CShakeHash**: `CShake` and its three subclasses side by side, with what each
  inherits rather than overrides. An object's `class` in the history is the one it
  should be of, `obj[c].class` the one it is of; likewise `size`, the digest's, with
  which the code also hashes the blocks of a ParallelHash.
- **K12Hash**: `KangarooTwelve` with a heap of chunk arrays.

Keyed:

- **HmacHash**: `Hmac` over any hash, with a heap of hash objects: the caller's, the two
  shared ones of every family, the inner one of every HMAC. `newEmpty` and `clone` build
  the throwaway HMAC that the code builds.
- **CmacHash**: `Cmac` over any cipher.
- **Ascon**, **Poly1305**: the classes as records and operators: sponge and stages of
  `Ascon.ts`, block and accumulator of `Poly1305.ts`, with their write loops as they
  are. The permutation and the polynomial are ideal; xor is exact, because a byte is a
  set of atoms.
- **AeadSession**: a sender and a receiver, both of one class, and the channel. The
  sender writes associated data and encrypts in pieces, asks for its tag; the receiver
  gets what the channel made of it, in pieces of its own, and verifies. `astray` marks
  what the code gives no right answer to (section 6); `AeadStrays` says which of it a
  run's callers do.
- **MacHash**: the hashes of Ascon and the mac of Poly1305 behind `IHash`; implements
  HashContract.
- **BlockModes**: ECB, CBC, CFB, OFB and CTR with the four paddings, over any cipher whose
  blocks have 1 to 255 bytes; **FullCrypt**: two objects of one mode or of one stream cipher (Salsa20,
  XSalsa20, ChaCha20, XChaCha20, Rabbit), pieces from one to the other.
- **Words**: machine words as sets of bits. **Arx**: schedules and rounds of Simon and
  Speck at their real width. **BlockCiphers**: the ten classes with the caller's key
  array, the ciphers built from it in turn, and a view on the caller's blocks.

Generators:

- **Prng32**, **Prng64**: every class of `prng`, its `rawNext` bit by bit and its seeds;
  `MCPrng` lists them.
- **Prng**: the abstract `APrng32` and `APrng64`, with a class's fields and `rawNext` as
  constants, to which the run gives those of every class: `_nextU`, `fillBytes` turn by turn
  through the `BitWriter` (**BitStream**), `save` and `restore` with their byte order on
  either kind of platform.

Memory:

- **Numbers**: `AInt` on an array of limbs, as the code has it: limb by limb, with half
  limbs where it multiplies and divides; and on it the classes U32 to U512, I64 and
  the mutable ones as windows on one array, an action per method.
- **TypedArrays**: `ScalingTyped` with a heap of buffers and the `FixedTyped` and
  `ReadonlyTyped` spans a caller holds. **GrowableArray**: what that promises, memory
  without end.

Dates:

- **Dates**: components, their bytes and bits, days from and to a date, `DateOnly`,
  `TimeOnly`, `TimeOnlyMs`, the ISO forms, `WindowStr` and the parsers. **DateTime**:
  `DurationExact` and `Duration`; `DateTimeShared` and its heirs;
  the machine that takes a date through operations, with the instant it should denote.

Compression functions, permutations and large ciphers are ideal: their value is the
sequence of what went into them, so two states are equal exactly when the same blocks
went through in the same order. That is what the control around them can be held to; the
arithmetic inside is modelled where it has edges of its own (Simon, Speck, generators,
numbers, dates).

Variables that the code does not have are commented where they are declared: "history",
what was written, what the caller asked for, whether a call threw or went `astray`, the
`due` instant of a date. Guards read them only to bound a run, or to leave a state past
`sumIn` ("Use if you won't need the obj again") or past a throw, after which a caller
must `reset`.

Assumptions on constants are named. They are `ASSUME`s of their module where an MC module
extends it (`SizesAssumption` and `DataAssumption` of MdHash, `SpongeAssumption`,
`CryptAssumption`, `HmacAssumption`, `ClassesAssumption` of Prng and others); in a module that is only instantiated
they are a definition (`BlakeSizes`, `CShakeAssumption`, ...) that the MC module asserts of
its instance, and that a theorem of the module has as its `ASSUME`. So TLC evaluates all
that the proofs rest on.

## 3. Runs

A run is a question; where several components answer it each for itself, the MC module
puts them side by side as *families*: the family is chosen in the initial state, its
`Next` is the only one that moves, the variables of the others rest in one state. The
state space is the sum, not the product, and a property of a family is stated under
`family = ...`.

| Run | Checks | Distinct states |
|---|---|---|
| `md_hash` | MD family. `DigestRight`: a digest is the padded message, which is computed from the message alone. `SameDigestIffSameMessage`: neither cuts nor stale bytes reach a digest. `ImplementsIHash`: refinement of HashContract | 232,490 |
| `block_hashes` | SHA-2, BLAKE, Skein. `DigestRight`, for objects no write of which threw; `FailedCountsTooMuch`: what a throw leaves behind; `AlignedWriteCompletes`: a write that starts on a block boundary never throws. `BlakeRight`: the count is wrong by exactly the bytes that lay in a block when a later write completed it, blocks are in order, digests are right without that. `SkeinRight`: one write gives the definition's digest after any reset, clone or newEmpty, no block is ever encrypted under a stale cached word | 2,349,132 |
| `sponges` | Keccak and what derives from it. `SpongesApart`, `ImplementsIHash`, with data that equal the padding bits; `DigestRight` of the five SP 800-185 classes, which for ParallelHash also says when the digest is the standard's and when it is not; `TuplesApart`: TupleHash tells the cuts apart and the others do not; `EncodingsRight`: the encodings decode, are prefix free (suffix free for KangarooTwelve), the padding is whole; `K12Right` for objects no other reached | 1,239,605 |
| `keyed` | What works under a key. `CameBack`, `InStep`: modes, paddings and stream ciphers; `AeadRight`: what verifies was sent, what is verified decrypts to what was encrypted; `CallsCancel`: Simon and Speck; `HmacRight`, `CmacRight`, `Blake2Right`; `MacsAreIHash`: refinement of HashContract by AsconHash and Poly1305 | 638,721 |
| `prng` | Every generator. `NumbersAreLeadingBits`, `FilledFromStream`: neither numbers nor arrays lose or repeat a bit; `RestoreContinues`, on either byte order; `FillReturns`: `fillBytes()` ends | 52,589 |
| `datetime` | `KeepsTime`: after up to three operations of any kind a date denotes the instant it should; `ElapsedAddsUp`, `DiffLeadsBack`: the two differences; `CmpIsChronological`: the comparison of raw bytes; `DurationsKept`: durations through addition, subtraction and bits | 97,243 |
| `memory` | `ArithmeticRight`, `OthersKept`, `OrderRight`, `BytesRight`: numbers on shared limbs; `SpansShareMemory`, `ThrownChangesNothing`, `ImplementsGrowable` (refinement): arrays that move | 177,773 |

Five more runs show one disagreement each (section 6): `k12_sum`, `date_add`,
`block_offset`, `aead_pieces`, `prng_fill`.

Bounds, and why they are enough:

- *Objects.* Two of a class: each action names at most two, each heap has a cell for all
  they can refer to, and what three could share two do.
  In `sponges` the two SP 800-185 objects are of one class, any of the five, and of one
  size of digest, 32 or 64 bytes, of which the standard fixes the first for the blocks of
  a ParallelHash128: objects of two classes or sizes share nothing and no property
  compares them.
- *Blocks and data.* Blocks of two to four bytes: a position that is the first, the
  last, one short of the last and, for a length field, on either side of its start. The
  data include nothing, a single byte, and more than a block or a chunk has room for, so
  every way through a write loop occurs; some data equal the padding marker, the end bit
  or zero, so that padding can be confused with data. Messages (`MaxLen`) go past the
  first block or chunk, and objects are used again after `reset`, so stale bytes exist.
- *Encodings.* Every number up to 120 against every smaller one, which in base 3 with a
  buffer of 5 passes the limit of the buffer at 81.
- *AEADs.* A cell of the model is four bytes of Ascon, eight of Poly1305; messages from
  nothing to two blocks and more, cut in two at every cell.
- *Modes.* The bytes 0, 1, 128 and 255 in blocks of two, up to two and a half blocks in up
  to two pieces; the cipher is a permutation of all 65536 blocks.
- *Simon and Speck* have their real words and rounds; two blocks, three calls, two
  ciphers of one key.
- *Generators* have their real words; the Mersenne Twister has 5 words for 624 (`MtN`)
  and ARC4 16 bytes for 256 (`ArcN`); three calls, arrays of 0, 3 and 9 bytes: none, less
  than a drawn 32 bits and more than 64.
- *Numbers* have limbs of 4 bits, half limbs of 2, and 1, 2 or 3 of them; every shift
  around 0, a limb and the width; limbs begin as 0, 6 or 15; two numbers anywhere on an array of 4 limbs, apart,
  overlapping or the same.
- *Arrays* of up to 4 elements, two spans. The 1 MB switch of `goodSize` is
  `LinearSwitch`, here 6 bytes: arrays of three and four elements of two bytes are past
  it, and without a capacity their constructor throws (section 6). After the first span
  `GrowableArray` lets any element change, as the holder of a span may, so
  `ImplementsGrowable` says most of the calls before it, where buffers are replaced;
  after it `SpansShareMemory` says that there is one buffer and no other.
- *Dates* begin at ten instants: ends of months, leap days, centuries, years before 0, the
  least and largest years; a second has 100 microseconds, everything else is the code's.
  Durations carry through every field.

`CHECK_DEADLOCK FALSE` stands in the runs whose behaviours end: `keyed` (a message was
sent and received, calls are counted), `prng` (`MaxCalls`), `datetime` (`MaxSteps`) and
`memory` (a number's method is one step). In the hash runs deadlock is checked: some call
is always possible. Type invariants also say what a type of the code would: the position
is inside the block between calls, an object past its end is not written to.

Fairness: `Prng!FairSpec` has weak fairness of `FillTurn` and `FillReturn` and of nothing
else. `fillBytes()` is one synchronous call, so once begun its loop's next turn is all
that can happen; nothing obliges a caller to begin. Elsewhere no liveness is stated: each
call is a loop over its argument whose measure (`nToWrite`) is part of the inductive
invariant, or a single step.

Each property has a mutant in `PROJECT.json`: a definition changed the way a slip in
the code would change it (`>=` for `>`, a position not put back, a field not copied, a
key forgotten by `reset`), under which the property fails. The mutated operators stand
in the modules, before the definition they would replace, marked "Mutant of".

## 4. Proofs

Each theorem is listed in `PROJECT.json` with what it establishes. All hold for every
value of the constants that the assumption named with it allows; sets of objects, data
and messages are arbitrary, bounds on messages and calls any number.

| Module | Theorems | For every |
|---|---|---|
| `MdHashProofs` | MdHash: types, `Absorbed`, `DigestRight`, `SameDigestIffSameMessage`, `ImplementsIHash` | block size, shorter length field (not zero), byte order (`SizesAssumption`, `DataAssumption`) |
| | Sha2Hash: the first three with throws, `FailedCountsTooMuch`, `AlignedWriteCompletes` | the same |
| `Blake1HashProofs` | types, `CountDrift`, `BlocksInOrder`, `DigestRightUnlessDrifted`, and all as `BlakeRight` | block size and length field (`BlakeSizes`) |
| `Blake2HashProofs` | types, `CountsOwnBytes`, `DigestRightWhenAlone`, and all as `Blake2Right` | block size, keys that fit a block (`Blake2Sizes`) |
| `KeccakHashProofs` | types, `SameDigestIffSameMessage`, `SpongesApart`, `ImplementsIHash` | rate, suffix but 0, data (`SpongeAssumption`, `BytesAssumption`) |
| `KeyedProofs` | HmacHash: types, `SharedAsBuilt`, `DigestRight`, `HmacRight` | finite set of HMACs, block size, keys (`HmacAssumption`) |
| | FullCrypt: `ModeFound` of one call, `InStep`, `CameBack` | cipher whose `decryptBlock` undoes its `encryptBlock`, block of 1 to 255 bytes, width of a counter, objects the constructors make (`CryptAssumption`) |
| `TypedArraysProofs` | `SpansShareMemory`, `ThrownChangesNothing`, `ImplementsGrowable` | bound on the elements, values, spans (`SizesAssumption`, `ArgumentsAssumption`) |
| `PrngProofs` | `NumbersAreLeadingBits`, `RestoreContinues`, `FilledFromStream`, each given `WordsFit` | classes of words of 1 to 64 bits, safe bits the loop can use, initial words, sizes of arrays (`ClassesAssumption`) |
| `NumbersProofs` | types, `OthersKept`, `OrderRight`, `BytesRight`, `ArithmeticRight` | even number of bits of a limb, size of the array, limbs of each class (one for U32), contents, amounts of a shift (`HAssumption`, `NumbersAssumption`) |

**MdHash.** The inductive invariant is `IInv == TypeOK /\ Absorbed`. Neither half is
inductive alone: `WriteBlock` keeps the position in the block only because `Absorbed` ties
the loop's `space` to it, and `Absorbed` speaks of bytes that `TypeOK` says are there.
`Absorbed` is needed in full, not only that the positions are right: that the block holds
the rest of the message is what makes the padded block the standard's, and the loop's
local variables are in it because a call is many steps. There is a lemma per action
(`WriteTailKeeps`, `WriteBlockKeeps`, ...), and under those, lemmas of what `Fill`, `Hash`
and `Final` do to an object; the two cases of the end, the length fits or spills into a
block of its own, are `FinalFits` and `FinalSpills`, joined in `FinalIsPadded`. From it
follow `DigestAlwaysRight`, by a second induction over what was returned, and, step by
step, the refinement. `PaddedInjective` adds that the padding tells messages apart: of
two different lengths the marker is in a different place, of equal lengths a byte differs;
the length field, which wraps, is not needed for it.

**Sha2Hash** reuses those lemmas. Its invariant adds that a loop in a later turn has an
empty block (`LaterTurn`), so only a first turn can throw; `AlignedWriteCompletes` and
`FailedCountsTooMuch`, which says how many bytes too many, follow.

**Blake1Hash.** The count enters what a block is compressed with, so the invariant ties it
to the message through `over`, the bytes counted twice: chain and block hold the message
in order (`BlocksInOrder`) and the count is its length and `over`, between the turns of
the loop too (`Took`). Only a completed begun block adds to `over`; a digest is right while
it is 0. The end has its cases: the length fits into the last block or not, and that block
carries bytes of the message or has its count overridden.

**Blake2Hash.** Clones share the counter of their original, so the invariant cannot say of
every object that its counter is its own count. It says so (`Holds`) of those that are
`Alone`: neither `drifted` nor `touched` by a call of another object. Of the others it says
what they absorbed, not what was counted. That they harm nobody who is alone holds because
whoever shares a counter is touched by the call that changes it.

**KeccakHash.** The invariant says, at any turn of the loop, that the absorbed blocks and
the begun one are what was taken of the message, and that the block is zero past its
position (`Good`). Injectivity goes backwards: the last block that suffix and end bit left
tells where the message ends, even when both fall on one byte.

**HmacHash.** The invariant is about the heap of hashes: every HMAC's inner hash is a cell
of its own that holds the key under `ipad` and the message; its other two stand in the
cells of some name and hold what the constructor made of its key (`Paired`); and two HMACs
with one pair have one key. That no call of a relative changes them is then each call's
lemma, the throwaway HMACs that `newEmpty` and `clone` build included. A new pair needs a
name nobody uses, which is a count of the finite set of HMACs (`NameLeft`).

**FullCrypt.** The invariant `CInv` says that there are numbers of blocks, one before each
piece, from which each piece was encrypted and at whose ends both objects stand (`Stands`),
and plaintexts, each the one before it and its piece, of which the receiver has one
(`Says`). They are quantified, not computed by a fold, which no prover could unfold. Under
it stand the modes: the padding of every length is undone (its count is a byte, hence
blocks to 255); a chained block is undone given the block before it, by induction on the
number of blocks; CFB, OFB and CTR xor with the same blocks on either side. `ModeFound`
joins them for one call. Nothing is said of objects that went `astray` but what `InStep`
and `CameBack` say.

**TypedArrays.** `IInv` has types, spans inside the buffer, and that a span implies the lock,
so that there is one buffer for good: `SpansShareMemory` follows. The refinement needs
`RInv`: the buffer holds values within the bound, and nothing is past the length while the
array is not locked. Only that makes what a grown array shows the zeros of the abstract
memory. `sort` is, on both sides, the choice of an ascending
rearrangement of the same elements: that there is one is proved by insertion, induction on
their number.

**Prng.** `rawNext` and `seed` are constants, so what is proved is about any generator; that
a class returns words of its bits is `WordsFit`, the hypothesis of the three theorems and
a part of `NumbersAreLeadingBits`, where TLC checks it of every class. A number comes from
a loop over words and a byte array from a loop over numbers, each itself a loop over bytes
(`pushNumberBE`): there is an induction for each, with `DrawInv` (what is gathered is the
stream's bits above those that are missing) and `TurnInv` (the bits before the writer's
position are those it held and the number's; after them the byte is empty). The state's
invariants are one per question. `NumbersInv`: there are none, one or two numbers at hand,
each drawn from its own part of the words. `FillInv`: the array so far is the top safe
bits of each word, the last word perhaps cut by the array's end, after which the loop
turns no more; a class that defines no `safeBits` writes nothing. `FileInv`: the file is
what `Saved` makes of `kept` on one kind of platform or the other, and restoring joins the
halves again. No byte is written twice because
a number's bits end where the next one's begin, which is arithmetic of `\div 8` and `% 8`
at every width.

**Numbers.** The invariant is small (`NumbersTyped`: the array holds limbs), since each
behaviour is one call; the work is in what a call computes, for windows that may be one,
apart or overlapping. Loops over limbs are functions defined from below (`Upward`,
`Downward`, the carry of `Carried`, the columns of `mul`); for each there is a lemma of
what it changes, at most its window, and what it leaves there when no limb is read after it
was written. That a carry is 0 or 1, a borrow 0 or -1 and a column's carry fits in a
double, is in the loop's invariant. A number is a sum of limbs by powers of two;
`OrderRight` then rests on the highest limb that differs, which outweighs all below it,
and `BytesRight` on halving each limb and joining the halves again, from either end.
`ArithmeticRight` is proved in four layers. First each loop: a sum or difference with its
carry, a shift by whole limbs and by the bits left over, the column sums of `mul`, long
division by halves of limbs, each as an equation between the values of windows (`MulValue`,
`DivValue`, `BitsRight`); a product is there summed by rows and by diagonals, and a
quotient's remainders stay below the divisor, which is where `Half \div 2` is needed. Then
each method: what it leaves is the promised number modulo 2 to the width (`CalledRight`;
`SingleRight` for U32, whose methods are operators on one limb, `BuiltInt` for the numbers
made from a double). Then the three kinds of call: in place, on a copy that an immutable
class makes first, and building (`InPlaceRight`, `PureRight`, `BuildRight`). Last the
step: a call records what it was asked and what it left, and no later call changes that
record. The proof keeps the four exceptions of the property as they stand, for in each of
them the code may yield another number.

Induction over numbers is possible although no installed prover can instantiate the
theorems that take an operator: `UpTo` is about a *set* that holds 0 and with each number
the next, from WellFoundedInduction. With it chains of blocks, sorted sequences and the
values of particular recursive functions are within reach; a fold over arbitrary data
with an operator of its own is not.

`Absorbed`, `SharedAsBuilt`, `CountDrift` and the others of the table that no run
lists are checked as parts of the run's property named for the component
(`BlakeRight`, `HmacRight`), or follow from it.

Only model-checked so far: the classes over `Sp800185` (`CShakeRight`, `TuplesApart`,
`EncodingsRight`, `K12Right`), `SkeinRight`, `CmacRight`, `AeadRight`, `MacsAreIHash`,
`CallsCancel`, and the dates.
Left to TLC for good: liveness (`FillReturns`), what folds over data compute (the digests
of `CShakeHash`, `K12Hash`, `CmacHash`, `SkeinHash`), the rounds of Simon and Speck and of
the generators, which are identities of bits at one width, and decoding in `Sp800185`.

## 5. Not modelled

`PROJECT.json` lists every part with its reason. In short: the tables and rounds of the
large ciphers and compression functions (straight lines of words, covered by test
vectors, beyond a model checker at their width); parameters that are constant for a class
(salts, personalisation, tree parameters); messages so long that 32 bit lengths wrap;
text of numbers and durations; the clock, the time zone and the locale of the platform;
codecs, Reed-Solomon and the other functions of one call without state; HopMAC, Streebog,
HKDF, PBKDF2, checksums, `IpTree`, BNF, NFA and CUD, which the plan names.

## 6. Where the code and its documents disagree

Found while modelling. The first five are runs; the others are exclusions in the
properties above, each stated there or in `PROJECT.json` under hazards, so that what is
checked is exactly how far the promise is kept.

| Where | The code | The promise |
|---|---|---|
| `crypto/hash/Keccak.ts:1226` (`k12_sum`) | `sum()` of a KangarooTwelve closes a clone that shares the chunk array, so it writes the customization into its own object | "It's ok that these are sharing memory"; `sum` "does not mutate state" |
| `datetime/dt.ts:3280` (`date_add`) | `add()` of a Duration gives day 0 of the next month at 23:00 and later of the last day of a month: the run adds four years to 2024-02-29 23:30. `validate()` throws for it | "2024-02-29 +4y = 2028-02-29" (3612) |
| `crypto/sym/Simon128.ts:29` (`block_offset`), `Speck128.ts` | a block is mounted from the start of the buffer, whatever view was given: every offset works on the first block | "Note 1 is the second block" |
| `crypto/sym/Ascon.ts:214` (`aead_pieces`), `mac/Poly1305.ts:160` | associated data in a begun block is xored past the rate; Poly1305 throws, with its lengths and its cipher moved on (320, 340) | "can be called multiple times" |
| `prng/middleSquare.ts:20` (`prng_fill`), `prng/mcg.ts:23` | `safeBits` is undefined, so `fillBytes()` does not return | "Fill the provided array with random data" |
| `crypto/hash/Keccak.ts:265` | KangarooTwelve inherits a `reset()` that keeps chunks and count | "Any past writes will be forgotten" |
| `crypto/hash/Keccak.ts:586` | a KMAC that is reset has lost its key | "Set hash to initial state" |
| `crypto/hash/Keccak.ts:602` | `newEmpty()` of KMAC, TupleHash and ParallelHash makes a plain cSHAKE | "Create an empty IHash using the same algorithm" |
| `crypto/hash/Keccak.ts:945`, `Sha2.ts:197`, `Blake1.ts`, `Blake2.ts:238` | a write that overruns a begun block by the size of a block throws | "can be called multiple times" |
| `crypto/hash/Keccak.ts:974` | ParallelHash does not count a last block that is not full | SP 800-185 |
| `crypto/hash/Keccak.ts:923` | ParallelHash hashes each block to the size that was asked for the whole, so only a ParallelHash of the default size is the standard's | SP 800-185 6.3: 256 bits (ParallelHash128) or 512 (ParallelHash256) |
| `crypto/hash/Keccak.ts:513` | `bytePad` allocates without its own prefix | "Figure out allocation size" |
| `crypto/hash/Blake1.ts:204`, `Blake2.ts:239` | a block completed by a later write is counted whole, again | "Number of bytes added to the hash" |
| `crypto/hash/Blake1.ts:237` | the padding block of a message of whole blocks has the message's count | the BLAKE proposal has 0 |
| `crypto/hash/Blake2.ts:309` | clones share one mutable counter | "uses different memory" |
| `crypto/hash/Blake2.ts:240`, `:289` | a message of whole blocks ends with a block of zeros; a key is not padded to a block | RFC 7693 |
| `crypto/hash/Skein.ts:144` | the second write goes over the first | "can be called multiple times" |
| `crypto/mac/Cmac.ts:82` | a write past the end of a begun block loses bytes | IHash.ts:8 |
| `crypto/mac/Hmac.ts` | the size documented as `hash.blockSize` is `hash.size` | its own comment |
| `crypto/sym/Ascon.ts:246`, `:274`, `:448` | encrypting, decrypting or hashing in pieces that do not end with a block goes wrong as the associated data does | `IFullCrypt`, `IHash` |
| `crypto/block/Cbc.ts:56`, `Cfb.ts:53`, `Ascon.ts:278`, `Poly1305.ts:352` | decrypting in place reads back what it wrote | silent on it |
| `crypto/sym/Rabbit.ts:193` | `decryptInto` goes by the length of its target | `encryptInto` goes by the plaintext |
| `crypto/sym/ChaCha.ts:104` | the count of blocks wraps at 32 bits | 64 bits in Salsa |
| `crypto/sym/Speck128.ts:83`, `Simon128.ts:114` | the schedule runs in the caller's key array: a second cipher of it has another key | |
| `crypto/pad/Pkcs7.ts:64` | `unpad()` takes a count of 0 for no padding | |
| `datetime/dt.ts:1515`, `:788` | `DateOnly.add()` does not carry months below 1 or above 12 into the year | |
| `datetime/dt.ts:3259` | a fraction of a month added to a date of December gives month 0: 12.25 is above 12 and becomes 0.25 before the fraction is cut off | the examples of `add()` |
| `datetime/dt.ts:3342` and others | a fraction of a month below January is turned round after it was used | |
| `datetime/Duration.ts:556`, `:1012` | days above the largest are let through below one day more; days of exactly 400 years stay days | |
| `primitive/number/_AInt.ts:54`, `U64.ts:277`, `U128.ts:214` | `fromI32s()` of `U64Mut` and `U128Mut` fills the limbs not given with ones when the last number is negative; that of `I64` does so by the sign of the number, not by its top bit: `0xffffffff` gets zeros | "Assumes unspecified values are 0" (`U64.ts:273`, `U128.ts:210`); "0/-1 (depending on MSB of final number)" (`I64.ts:31`, `:208`) |
| `primitive/number/_AInt.ts:331`, `:47`, `:386` | a divisor above 2^15 makes the remainder negative; a negative number fills two limbs only; overlapping windows are changed as they are read | |
| `primitive/number/U32Static.ts`, `U64.ts` | the constant time comparisons other than equality are no order on large operands | "Less than" and so on |
| `primitive/TypedArrayExt.ts:38` | from 1 MB on the size is the number of megabytes, in which the array has no room: the constructor throws | "nearest 1MB alignment (that's larger)" |
| `primitive/TypedArrayExt.ts:817`, `:884` | a `span()` that throws has locked the array already | locked because a span may point to it |
| `primitive/TypedArrayExt.ts:672` | spans past a buffer throw what the platform throws; a start and no length is measured from the buffer, not the view | |
| `prng/sfc64.ts:74`, `gjrand64.ts:64`, `mcg.ts:69` | what is saved on a big-endian platform is not in the order that is restored | "restore" |

## 7. Plan

Done: the contract and the hashes; HMAC, CMAC, the AEADs, modes, paddings and stream
ciphers, Simon and Speck; the generators; typed arrays and numbers; dates and durations;
the proofs of section 4. Next, in this order:

1. **Theorems**: `ImplementsIHash` for MacHash; `TweakWordFresh` for SkeinHash;
   `CmpIsChronological` for DateTime, from the monotony of `fromDate`.
   The modules are written for that: constants with assumptions, an action per call, no
   recursive operator.
2. **Compositions**: HmacHash over Blake2Hash, where the shared counter meets the
   family's shared hashes; HKDF and PBKDF2 over HmacHash (`sumIn`'s live arrays against
   the running total); HopMAC over K12Hash.
3. **Checksums**: deferred reduction as a refinement of the sum, tail buffers. Streebog as
   an instance of MdHash's contract.
4. **Sets and text**: `IpTree` as a refinement of a set of addresses; BNF descent over
   the window of `Dates`; NFA sets; the CUD command sequence.

New components join the family run that asks their question; a run is added only for a
new one.
