------------------------------ MODULE K12Hash ------------------------------
(***************************************************************************)
(* KangarooTwelve (src/src/crypto/hash/Keccak.ts).  Its own sponge takes   *)
(* the first maxChunkSize bytes; every further chunk of the message has a  *)
(* TurboShake128 of its own in the array _chunks, and sumIn() writes the   *)
(* customization after the message and the digests of the chunks into the  *)
(* sponge.                                                                 *)
(*                                                                         *)
(* clone() copies the reference to the array, so the module has a heap of  *)
(* arrays: a write to a chunk, or a new chunk, shows in every object that  *)
(* refers to the array.  sum() is clone().sumIn().  reset() is KeccakCore's*)
(* and knows nothing of the chunks; newEmpty() is too.                     *)
(***************************************************************************)
EXTENDS Sp800185

CONSTANTS
  Ctx,           \* the hash objects a caller holds
  Data,          \* the byte arrays a caller passes to write()
  MaxLen,        \* bound: the longest message
  MaxHeld,       \* bound: the bytes in an array of chunks beyond which it is left alone
  MaxChunkSize,  \* 8192 in the code
  Custom         \* the customization

\* Assumed where the module is instantiated
ChunkAssumption == MaxChunkSize \in Nat \ {0}

VARIABLES
  obj,      \* obj[c]: the fields of c; obj[c].chunks is a reference
  chunks,   \* chunks[a]: the array a, of the bytes written to each chunk
  wrote,    \* history: the bytes written to each object since it was last empty
  tainted,  \* history: objects that were reset, or whose array another call changed
  spent,    \* history: past sumIn(), and not reset
  out       \* what the last call returned

vars == <<obj, chunks, wrote, tainted, spent, out>>

Arr == 1..Cardinality(Ctx)       \* enough: one for each object

\* As in CShakeHash: a byte, or the digest of a chunk
Bytes(s) == [i \in DOMAIN s |-> <<s[i]>>]
ChunkDigest(s) == << <<Base>> \o s >>
Concat(ss) == FoldLeft(LAMBDA s, t : s \o t, <<>>, ss)

-----------------------------------------------------------------------------
(* An object with its array, as a pair: [o |-> fields, a |-> array].       *)

New(x) == [k12 |-> TRUE, sponge |-> <<>>, chunks |-> x, ingest |-> 0]

Pair(c) == [o |-> obj[c], a |-> chunks[obj[c].chunks]]

\* super.write(), or the write() of the last chunk
Put(p, s) ==
  IF p.a = <<>> THEN [p EXCEPT !.o.sponge = @ \o Bytes(s)]
  ELSE [p EXCEPT !.a[Len(p.a)] = @ \o s]

\* Mutant of NextChunk: the count of the chunk before goes on
NextChunkKeepsCount(p, s) == LET q == Put(p, s) IN [q EXCEPT !.a = Append(@, <<>>)]

\* "Build the next chunk", after the bytes that complete this one
NextChunk(p, s) ==
  LET q == Put(p, s) IN [q EXCEPT !.a = Append(@, <<>>), !.o.ingest = 0]

\* Mutant of Written: >= for >, a chunk that is exactly full is followed by another
WrittenEager(p, data) ==
  LET eat   == MaxChunkSize - p.o.ingest
      rest  == Len(data) - eat
      turns == IF rest < 0 THEN 0 ELSE 1 + (rest \div MaxChunkSize)
      From(k) == IF k = 1 THEN 0 ELSE eat + (k - 2) * MaxChunkSize
      Turn(q, k) == NextChunk(q, SubSeq(data, From(k) + 1, From(k + 1)))
      tail  == SubSeq(data, From(turns + 1) + 1, Len(data))
      q     == FoldLeft(Turn, p, [k \in 1..turns |-> k])
  IN  IF p.o.k12 THEN [Put(q, tail) EXCEPT !.o.ingest = @ + Len(tail)]
      ELSE [p EXCEPT !.o.sponge = @ \o Bytes(data)]

\* write(), which calls itself for each chunk it completes
Written(p, data) ==
  LET eat   == MaxChunkSize - p.o.ingest
      rest  == Len(data) - eat
      turns == IF rest <= 0 THEN 0 ELSE 1 + ((rest - 1) \div MaxChunkSize)
      From(k) == IF k = 1 THEN 0 ELSE eat + (k - 2) * MaxChunkSize
      Turn(q, k) == NextChunk(q, SubSeq(data, From(k) + 1, From(k + 1)))
      tail  == SubSeq(data, From(turns + 1) + 1, Len(data))
      q     == FoldLeft(Turn, p, [k \in 1..turns |-> k])
  IN  IF p.o.k12 THEN [Put(q, tail) EXCEPT !.o.ingest = @ + Len(tail)]
      ELSE [p EXCEPT !.o.sponge = @ \o Bytes(data)]

\* Mutant of Closed: the count of the chunks is left out
ClosedUncounted(p) ==
  LET q == Written(Written(p, Custom), K12LengthEncode(Len(Custom)))
      all == Concat([i \in DOMAIN q.a |-> ChunkDigest(q.a[i])])
  IN  IF ~p.o.k12 \/ q.a = <<>> THEN (IF p.o.k12 THEN q ELSE p)
      ELSE [q EXCEPT !.o.sponge = @ \o Bytes(<<3, 0, 0, 0, 0, 0, 0, 0>>) \o all
                                    \o Bytes(<<Base - 1, Base - 1>>)]

\* xorSuffix(): a KeccakCore writes nothing
Closed(p) ==
  LET q == Written(Written(p, Custom), K12LengthEncode(Len(Custom)))
      all == Concat([i \in DOMAIN q.a |-> ChunkDigest(q.a[i])])
  IN  IF ~p.o.k12 \/ q.a = <<>> THEN (IF p.o.k12 THEN q ELSE p)
      ELSE [q EXCEPT !.o.sponge = @ \o Bytes(<<3, 0, 0, 0, 0, 0, 0, 0>>) \o all
                                    \o Bytes(K12LengthEncode(Len(q.a)))
                                    \o Bytes(<<Base - 1, Base - 1>>)]

\* The sponge, and the suffix 6 or 7 that goes after it
DigestOf(p) ==
  LET q == Closed(p)
  IN  [input |-> q.o.sponge, suffix |-> IF p.o.k12 /\ q.a # <<>> THEN 6 ELSE 7]

-----------------------------------------------------------------------------
Init ==
  /\ \E f \in Injection(Ctx, Arr) : obj = [c \in Ctx |-> New(f[c])]
  /\ chunks = [x \in Arr |-> <<>>]
  /\ wrote = [c \in Ctx |-> <<>>]
  /\ tainted = {}
  /\ spent = {}
  /\ out = {}

Sharers(c) == {d \in Ctx : obj[d].chunks = obj[c].chunks}

Usable(c) == c \notin spent /\ Len(Concat(chunks[obj[c].chunks])) <= MaxHeld

\* A call on c, or on a clone of it, leaves the array a: those that saw another are
\* tainted
Leaves(c, a, others) ==
  /\ chunks' = [chunks EXCEPT ![obj[c].chunks] = a]
  /\ tainted' = IF a = chunks[obj[c].chunks] THEN tainted ELSE tainted \union others

Write(c, data) ==
  LET p == Written(Pair(c), data)
  IN  /\ Usable(c)
      /\ Len(wrote[c]) + Len(data) <= MaxLen
      /\ obj' = [obj EXCEPT ![c] = p.o]
      /\ Leaves(c, p.a, Sharers(c) \ {c})
      /\ wrote' = [wrote EXCEPT ![c] = @ \o data]
      /\ out' = {}
      /\ UNCHANGED spent

Returned(c) ==
  {[wrote |-> wrote[c], tainted |-> c \in tainted, digest |-> DigestOf(Pair(c))]}

\* The fields of the clone are its own and dropped with it; the array is not
Sum(c) ==
  /\ Usable(c)
  /\ out' = Returned(c)
  /\ Leaves(c, Closed(Pair(c)).a, Sharers(c))
  /\ UNCHANGED <<obj, wrote, spent>>

SumIn(c) ==
  /\ Usable(c)
  /\ out' = Returned(c)
  /\ obj' = [obj EXCEPT ![c] = Closed(Pair(c)).o]
  /\ Leaves(c, Closed(Pair(c)).a, Sharers(c))
  /\ spent' = spent \union {c}
  /\ UNCHANGED wrote

\* reset(): the sponge alone
Reset(c) ==
  /\ obj' = [obj EXCEPT ![c].sponge = <<>>]
  /\ wrote' = [wrote EXCEPT ![c] = <<>>]
  /\ tainted' = tainted \union {c}
  /\ spent' = spent \ {c}
  /\ out' = {}
  /\ UNCHANGED chunks

\* Mutant of Clone: the count of the bytes in the chunk is not copied
CloneUncounted(c, d) ==
  /\ c # d
  /\ c \notin spent
  /\ obj' = [obj EXCEPT ![d] = [obj[c] EXCEPT !.ingest = 0]]
  /\ wrote' = [wrote EXCEPT ![d] = wrote[c]]
  /\ tainted' = IF c \in tainted THEN tainted \union {d} ELSE tainted \ {d}
  /\ spent' = spent \ {d}
  /\ out' = {}
  /\ UNCHANGED chunks

\* clone(): "It's ok that these are sharing memory"
Clone(c, d) ==
  /\ c # d
  /\ c \notin spent
  /\ obj' = [obj EXCEPT ![d] = obj[c]]
  /\ wrote' = [wrote EXCEPT ![d] = wrote[c]]
  /\ tainted' = IF c \in tainted THEN tainted \union {d} ELSE tainted \ {d}
  /\ spent' = spent \ {d}
  /\ out' = {}
  /\ UNCHANGED chunks

\* newEmpty(): a KeccakCore, which has no chunks; its reference is to an unused array
NewEmpty(c, d) ==
  /\ c # d
  /\ \E x \in Arr :
       /\ \A e \in Ctx \ {d} : obj[e].chunks # x
       /\ obj' = [obj EXCEPT ![d] = [New(x) EXCEPT !.k12 = FALSE]]
       /\ chunks' = [chunks EXCEPT ![x] = <<>>]
  /\ wrote' = [wrote EXCEPT ![d] = <<>>]
  /\ tainted' = tainted \union {d}
  /\ spent' = spent \ {d}
  /\ out' = {}

Next ==
  \E c \in Ctx :
    \/ \E data \in Data : Write(c, data)
    \/ Sum(c)
    \/ SumIn(c)
    \/ Reset(c)
    \/ \E d \in Ctx : Clone(c, d) \/ NewEmpty(c, d)

Spec == Init /\ [][Next]_vars

-----------------------------------------------------------------------------
(* The digest by its definition (draft-irtf-cfrg-kangarootwelve, 3.2): the *)
(* message, customization and its length, cut into chunks.                 *)

NthChunk(s, k) == SubSeq(s, (k - 1) * MaxChunkSize + 1, IF k * MaxChunkSize < Len(s) THEN k * MaxChunkSize ELSE Len(s))

Defined(m) ==
  LET s == m \o Custom \o K12LengthEncode(Len(Custom))
      n == (Len(s) + MaxChunkSize - 1) \div MaxChunkSize
  IN  IF n <= 1 THEN [input |-> Bytes(s), suffix |-> 7]
      ELSE [input |-> Bytes(NthChunk(s, 1)) \o Bytes(<<3, 0, 0, 0, 0, 0, 0, 0>>)
                      \o Concat([k \in 1..(n - 1) |-> ChunkDigest(NthChunk(s, k + 1))])
                      \o Bytes(K12LengthEncode(n - 1)) \o Bytes(<<Base - 1, Base - 1>>),
            suffix |-> 6]

-----------------------------------------------------------------------------
(* Properties. *)

\* Every field has its type, and no chunk takes more than its size unless a sum or
\* another object wrote to it.
TypeOK ==
  /\ \A c \in Ctx :
       /\ obj[c].chunks \in Arr
       /\ obj[c].ingest \in 0..MaxChunkSize
       /\ c \notin tainted \union spent =>
            \A i \in DOMAIN chunks[obj[c].chunks] : Len(chunks[obj[c].chunks][i]) <= MaxChunkSize
  /\ spent \subseteq Ctx /\ tainted \subseteq Ctx

\* An object that no other call reached holds its message: the sponge its first
\* chunk, the array the others, all full but the last, which ingest counts.
HoldsMessage ==
  \A c \in Ctx \ (tainted \union spent) :
    LET s == <<[i \in DOMAIN obj[c].sponge |-> obj[c].sponge[i][1]]>> \o chunks[obj[c].chunks]
    IN  /\ Concat(s) = wrote[c]
        /\ \A i \in 1..(Len(s) - 1) : Len(s[i]) = MaxChunkSize
        /\ obj[c].ingest = Len(s[Len(s)])

\* The first digest of such an object is the one KangarooTwelve defines.
DigestRightWhenAlone == \A r \in out : ~r.tainted => r.digest = Defined(r.wrote)

\* A sum changes nothing as long as message, customization and length fill at most
\* one chunk; the sharing shows only beyond.
SmallSumIsPure ==
  [][\A c \in Ctx :
       /\ Sum(c)
       /\ obj[c].ingest + Len(Custom) + Len(K12LengthEncode(Len(Custom))) <= MaxChunkSize
       /\ chunks[obj[c].chunks] = <<>>
       => UNCHANGED chunks]_vars

\* "It's ok that these are sharing memory", "does not mutate state": a second sum()
\* returns what the first did.
SumDoesNotMutate ==
  [][\A c \in Ctx : Sum(c) => DigestOf(Pair(c))' = DigestOf(Pair(c))]_vars
=============================================================================
