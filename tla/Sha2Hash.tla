------------------------------ MODULE Sha2Hash ------------------------------
(***************************************************************************)
(* Sha2_32bit, Sha2_64bit (src/src/crypto/hash/Sha2.ts) and Whirlpool.     *)
(* They differ from MdHash in one expression: a turn of the loop of        *)
(* write() copies data.subarray(dPos, dPos + blockSize), where the Md      *)
(* classes stop at the space that is left.  TypedArray.set() throws a      *)
(* RangeError when its source does not fit, so a write that starts inside  *)
(* a block and reaches past its end throws, after the bytes were counted.  *)
(*                                                                         *)
(* The actions of MdHash are used as they are; only the turn that copies a *)
(* whole block is replaced.                                                *)
(***************************************************************************)
EXTENDS MdHash

VARIABLE failed   \* history: the objects with a write() that threw, until reset()

svars == <<vars, failed>>

\* data.subarray(dPos, dPos + this.blockSize).length
CopyLen(w) == IF w.nToWrite < BlockSize THEN w.nToWrite ELSE BlockSize

\* this.#block.set(...) accepts it
Fits(w) == obj[w.ctx].bPos + CopyLen(w) <= BlockSize

ShaInit == Init /\ failed = {}

ShaWriteBlock ==
  /\ \A w \in call : Fits(w)
  /\ WriteBlock
  /\ UNCHANGED failed

\* Mutant of WriteThrows: a caller that catches sees an object as good as before
ThrowsUnnoticed ==
  \E w \in call :
    /\ w.nToWrite > 0
    /\ w.space <= w.nToWrite
    /\ ~Fits(w)
    /\ call' = {}
    /\ UNCHANGED <<obj, msg, spent, out, failed>>

\* RangeError: write() ends here.  Its bytes are in _ingestBytes and not in the
\* block, and "if we do [fail], we cannot recover": only reset() does.
WriteThrows ==
  \E w \in call :
    /\ w.nToWrite > 0
    /\ w.space <= w.nToWrite
    /\ ~Fits(w)
    /\ call' = {}
    /\ failed' = failed \union {w.ctx}
    /\ spent' = spent \union {w.ctx}
    /\ UNCHANGED <<obj, msg, out>>

ShaReset(c) == Reset(c) /\ failed' = failed \ {c}
ShaClone(c, d) == Clone(c, d) /\ failed' = failed \ {d}
ShaNewEmpty(c, d) == NewEmpty(c, d) /\ failed' = failed \ {d}

ShaNext ==
  \/ ShaWriteBlock
  \/ WriteThrows
  \/ (WriteEnd \/ WriteTail) /\ UNCHANGED failed
  \/ \E c \in Ctx :
       \/ (\E data \in Data : WriteBegin(c, data)) /\ UNCHANGED failed
       \/ (Sum(c) \/ SumIn(c)) /\ UNCHANGED failed
       \/ ShaReset(c)
       \/ \E d \in Ctx : ShaClone(c, d) \/ ShaNewEmpty(c, d)

ShaSpec == ShaInit /\ [][ShaNext]_svars

-----------------------------------------------------------------------------
(* Properties, next to those of MdHash, which hold of every object that is *)
(* live: not past sumIn() and not past a write() that threw.               *)

\* Types, and a failed object is not live.
ShaTypeOK == TypeOK /\ failed \subseteq spent

\* A write that threw leaves the object's count ahead of the bytes it holds by
\* exactly the bytes of that write, and leaves the bytes of all earlier writes in
\* place: no later call can tell, so the object's digest would be wrong.
FailedCountsTooMuch ==
  \A c \in failed :
    /\ obj[c].ingest = Len(msg[c])
    /\ Position(obj[c]) < obj[c].ingest
    /\ HoldsPrefix(obj[c], msg[c])

\* A write to an object that holds whole blocks only never throws, however long
\* the data: the loop never meets a partial block after its first turn.
AlignedWriteCompletes ==
  [][\A w \in call :
       (Len(msg[w.ctx]) - Len(w.data)) % BlockSize = 0 => w.ctx \notin failed']_svars
=============================================================================
