---------------------------- MODULE BlockBuffer ----------------------------
(***************************************************************************)
(* The block that the hashes of src/src/crypto/hash gather bytes in: a     *)
(* Uint8Array of BlockSize bytes and the position _bPos of the next one.   *)
(* The operators take the object that holds them, a record with at least   *)
(* the fields block and bPos.  Bytes outside the copied range keep their   *)
(* value, as in the code: a block is never cleared between two messages.   *)
(***************************************************************************)
EXTENDS Integers, Sequences

CONSTANT BlockSize        \* 64 or 128 in the code

ByteVal == 0..255
ZeroByte == 0
MarkByte == 128           \* 0x80

Idx == 0..BlockSize-1
Block == [Idx -> ByteVal]
ZeroBlock == [j \in Idx |-> ZeroByte]

\* this.#block.fill(0, this._bPos)
ZeroRest(o) ==
  [o EXCEPT !.block = [j \in Idx |-> IF j < o.bPos THEN o.block[j] ELSE ZeroByte]]

\* this.#block.set(data.subarray(dPos, dPos + n), this._bPos)
Fill(o, data, dPos, n) ==
  [o EXCEPT !.block = [j \in Idx |-> IF j \in o.bPos..(o.bPos + n - 1)
                                     THEN data[dPos + (j - o.bPos) + 1]
                                     ELSE o.block[j]]]

\* The same, and this._bPos += n
Advance(o, data, dPos, n) == [Fill(o, data, dPos, n) EXCEPT !.bPos = o.bPos + n]

\* Byte k, from the least significant, of the length in bits of n bytes.  The code
\* holds it in two 32 bit words, n << 3 and n / 0x20000000, and writes no others.
BitLenByte(n, k) ==
  LET word == IF k < 4 THEN 8 * n ELSE IF k < 8 THEN n \div 536870912 ELSE 0
      unit == <<1, 256, 65536, 16777216>>[(k % 4) + 1]
  IN  (word \div unit) % 256
=============================================================================
