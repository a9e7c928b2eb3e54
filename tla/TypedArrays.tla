---------------------------- MODULE TypedArrays ----------------------------
(***************************************************************************)
(* TypedArrayExt.ts: a ScalingTyped array, whose buffer is replaced by a   *)
(* larger or a smaller one as it is written, and the spans of it that a    *)
(* caller holds, FixedTyped and ReadonlyTyped ones, each a view of a       *)
(* buffer.  Once there is a span the array may not move: it is locked.     *)
(* Buffers are sequences of elements (their sizes are whole elements); the *)
(* view of the array is the first len elements of its buffer.              *)
(***************************************************************************)
EXTENDS Integers, Sequences, SequencesExt

CONSTANTS Vals,          \* values of an element, 0 among them; integers, as only
                         \*   their order matters
          B,             \* BYTES_PER_ELEMENT
          LinearSwitch,  \* 1 MB in the code
          MaxEls,        \* bound: elements of a buffer
          MaxSpans,      \* bound: spans a caller holds
          Starts,        \* starts and lengths of spans and fills, None for
          Lengths,       \*   an argument that is not given
          Given,         \* the arrays passed to set()
          None, Thrown

\* BYTES_PER_ELEMENT of Uint8, Uint8Clamped and Int8, of the 16 bit classes, of the
\* 32 bit ones with Float32, and of Float64.
ElementBytes == {1, 2, 4, 8}
ASSUME SizesAssumption ==
    /\ B \in ElementBytes /\ 0 \in Vals /\ Vals \subseteq Int /\ LinearSwitch > 4
    /\ MaxEls \in Nat /\ MaxSpans \in Nat
ASSUME ArgumentsAssumption ==
    /\ Starts \subseteq Int \cup {None} /\ Lengths \subseteq Int \cup {None}
    /\ Given \subseteq Seq(Vals)
    /\ Thrown # "ok" /\ Thrown \notin Int

VARIABLES heap,    \* the buffers that something refers to
          data,    \* the array's own among them
          len,     \* length of the array's view
          locked,  \* _sizeLocked
          spans,   \* the spans, in the order they were made
          out      \* what the last call did: "ok" or Thrown
vars == <<heap, data, len, locked, spans, out>>

\* The buffer as endless memory: what the array promises is said of that.
Stored(b) == [i \in 1..MaxEls |-> IF i <= Len(b) THEN b[i] ELSE 0]
G == INSTANCE GrowableArray WITH store <- Stored(heap[data]), length <- len, shared <- locked

Zeros(n) == [i \in 1..n |-> 0]
Or(x, default) == IF x = None THEN default ELSE x
Least(S) == CHOOSE x \in S : \A y \in S : x <= y

defaultCap == 4
\* nextPow2(): the least power of two that is not below v.
nextPow2(v) == Least({2^k : k \in 0..v} \cap v..(2 * v + 1))
\* Past 1 MB the quotient counts megabytes, and ArrayBuffer rounds it down: a buffer
\* of few bytes, in which no such array has room.
goodSize(v) == IF v <= defaultCap THEN defaultCap
               ELSE IF v < LinearSwitch THEN nextPow2(v)
               ELSE (v + LinearSwitch) \div LinearSwitch

\* The elements the constructor makes room for; no array when it throws.
Room(length, capacity) ==
    LET cap == Or(capacity, 0) IN
    IF length = 0 THEN 0                   \* whatever the capacity
    ELSE IF cap > 0 THEN (IF cap < length THEN Thrown ELSE cap)
    ELSE LET els == goodSize(length * B) \div B
         IN  IF els < length THEN Thrown ELSE els

Init == /\ data = 1 /\ locked = FALSE /\ spans = <<>> /\ out = "ok"
        /\ \E length \in 0..MaxEls, capacity \in {None} \cup 0..MaxEls :
             /\ Room(length, capacity) \in 0..MaxEls
             /\ heap = <<Zeros(Room(length, capacity))>>
             /\ len = length
-----------------------------------------------------------------------------
View(seq) == SubSeq(seq, 1, len)
Array == [heap |-> heap, data |-> data, len |-> len]

\* A copy of what the view holds, or of the first bytes of the buffer, becomes
\* the buffer; the one before is gone unless a span still views it.
Replaced(buffer, n) ==
    IF spans = <<>> THEN [heap |-> <<buffer>>, data |-> 1, len |-> n]
    ELSE [heap |-> Append(heap, buffer), data |-> Len(heap) + 1, len |-> n]

\* Mutant of _resize: locked arrays too
_resizeAnyway(n, viewSize) ==
    LET old == heap[data] IN
    IF n < Len(old) THEN Replaced(SubSeq(old, 1, n), viewSize)
    ELSE Replaced(View(old) \o Zeros(n - len), viewSize)
\* Mutant of _resize: upsizing starts from nothing
_resizeForgets(n, viewSize) ==
    LET old == heap[data] IN
    IF locked THEN Thrown
    ELSE IF n < Len(old) THEN Replaced(SubSeq(old, 1, n), viewSize)
    ELSE Replaced(Zeros(n), viewSize)
_resize(n, viewSize) ==
    LET old == heap[data] IN
    IF locked THEN Thrown
    ELSE IF n < Len(old) THEN Replaced(SubSeq(old, 1, n), viewSize)
    ELSE Replaced(View(old) \o Zeros(n - len), viewSize)

assertSpace(required) ==
    IF len > required THEN Array
    ELSE IF Len(heap[data]) <= required THEN _resize(required, required)
    ELSE [Array EXCEPT !.len = required]

\* The array is as a says, with Edit made to its buffer; or the call threw.
Changed(a, Edit(_)) ==
    IF a = Thrown THEN out' = Thrown /\ UNCHANGED <<heap, data, len>>
    ELSE /\ out' = "ok"
         /\ heap' = [a.heap EXCEPT ![a.data] = Edit(@)]
         /\ data' = a.data /\ len' = a.len

\* s with w written from the element after at.
Written(s, at, w) ==
    [i \in DOMAIN s |-> IF i \in (at + 1)..(at + Len(w)) THEN w[i - at] ELSE s[i]]
Repeated(v, n) == [i \in 1..n |-> v]
startFix(start, n) == IF start = None THEN 0 ELSE IF start < 0 THEN start + n ELSE start
\* What fill() writes of n elements in a view of size.
Clipped(start, n, size) == IF n < 0 \/ start >= size THEN 0
                           ELSE IF start + n > size THEN size - start ELSE n
-----------------------------------------------------------------------------
\* The array's own methods.  An index of -1 is no element: the write is lost.
setEl(i, v) ==
    /\ i < MaxEls
    /\ LET Put(b) == IF i < 0 THEN b ELSE [b EXCEPT ![i + 1] = v]
       IN  Changed(assertSpace(i + 1), Put)
    /\ UNCHANGED <<locked, spans>>

fill(v, start, length) ==
    LET from == startFix(start, len)
        n == Or(length, len - from)
        Put(b) == IF n <= 0 THEN b ELSE Written(b, from, Repeated(v, n))
    IN  /\ from + n <= MaxEls
        /\ IF from < 0 \/ from >= len
           THEN out' = "ok" /\ UNCHANGED <<heap, data, len>>
           ELSE Changed(assertSpace(from + n), Put)
        /\ UNCHANGED <<locked, spans>>

set(array, offset) ==
    LET Put(b) == Written(b, offset, array)
    IN  /\ offset + Len(array) <= MaxEls
        /\ IF offset < 0 THEN out' = "ok" /\ UNCHANGED <<heap, data, len>>
           ELSE Changed(assertSpace(offset + Len(array)), Put)
        /\ UNCHANGED <<locked, spans>>

reverse ==
    LET Put(b) == Written(b, 0, Reverse(View(b)))
    IN  Changed(Array, Put) /\ UNCHANGED <<locked, spans>>
sort ==
    LET Put(b) == Written(b, 0, G!Sorted(View(b)))
    IN  Changed(Array, Put) /\ UNCHANGED <<locked, spans>>

capacity(n) ==
    LET Same(b) == b
    IN  /\ n <= MaxEls
        /\ IF n = Len(heap[data]) THEN Changed(Array, Same)
           ELSE Changed(_resize(n, IF len < n THEN len ELSE n), Same)
        /\ UNCHANGED <<locked, spans>>
-----------------------------------------------------------------------------
\* new FixedTyped(data, start, length) and new ReadonlyTyped(...): a view of the
\* whole buffer, from start; JavaScript throws when it would reach past it.
Viewing(kind, b, start, length) ==
    LET from == Or(start, 0)
        n == Or(length, Len(heap[b]) - from)
    IN  IF from < 0 \/ n < 0 \/ from + n > Len(heap[b]) THEN Thrown
        ELSE [kind |-> kind, buf |-> b, start |-> from, len |-> n]
Held(view) ==
    IF view = Thrown THEN out' = Thrown /\ UNCHANGED spans
    ELSE out' = "ok" /\ spans' = Append(spans, view)

FixedTyped(b, start, length) == Viewing("fixed", b, start, length)
ReadonlyTyped(b, start, length) == Viewing("readonly", b, start, length)

\* The array stays locked even if there is no span in the end.
Spanning(view) == /\ Len(spans) < MaxSpans
                  /\ locked' = TRUE
                  /\ Held(view)
                  /\ UNCHANGED <<heap, data, len>>
span(start, length) == Spanning(FixedTyped(data, start, length))
readonlySpan(start, length) == Spanning(ReadonlyTyped(data, start, length))

\* A span of a span: its start counts from the buffer's first element.
OfSpan(view) == Len(spans) < MaxSpans /\ Held(view) /\ UNCHANGED <<heap, data, len, locked>>
fixedSpan(s, start, length) ==
    s.kind = "fixed" /\ OfSpan(FixedTyped(s.buf, start, length))
fixedReadonlySpan(s, start, length) ==
    s.kind = "fixed" /\ OfSpan(ReadonlyTyped(s.buf, start, length))
readonlyReadonlySpan(s, start, length) ==
    s.kind = "readonly" /\ OfSpan(ReadonlyTyped(s.buf, start, length))

\* The methods of a FixedTyped; a ReadonlyTyped has none that write.
Elements(s) == SubSeq(heap[s.buf], s.start + 1, s.start + s.len)
Through(s, w) == /\ heap' = [heap EXCEPT ![s.buf] = Written(@, s.start, w)]
                 /\ out' = "ok"
                 /\ UNCHANGED <<data, len, locked, spans>>
spanSetEl(s, i, v) == i \in 0..(s.len - 1) /\ Through(s, [Elements(s) EXCEPT ![i + 1] = v])
spanFill(s, v, start, length) ==
    LET from == startFix(start, s.len)
        n == IF from < 0 THEN 0 ELSE Clipped(from, Or(length, s.len), s.len)
    IN  Through(s, Written(Elements(s), from, Repeated(v, n)))
\* Mutant of spanSet: what fits is written before the rest is found not to
spanSetPartly(s, array, offset) ==
    IF offset < 0 THEN out' = Thrown /\ UNCHANGED <<heap, data, len, locked, spans>>
    ELSE /\ heap' = [heap EXCEPT ![s.buf] = Written(@, s.start + offset, array)]
         /\ out' = (IF offset + Len(array) > s.len THEN Thrown ELSE "ok")
         /\ UNCHANGED <<data, len, locked, spans>>
spanSet(s, array, offset) ==
    IF offset < 0 \/ offset + Len(array) > s.len
    THEN out' = Thrown /\ UNCHANGED <<heap, data, len, locked, spans>>
    ELSE Through(s, Written(Elements(s), offset, array))
spanReverse(s) == Through(s, Reverse(Elements(s)))
spanSort(s) == Through(s, G!Sorted(Elements(s)))

\* set() of a span, which to JavaScript is no typed array: its elements are read
\* one by one while those before them are being written.
Copied(b, s, offset) ==
    LET upTo[k \in 0..s.len] ==
          IF k = 0 THEN b
          ELSE LET l == upTo[k - 1] IN [l EXCEPT ![offset + k] = l[s.start + k]]
    IN  [i \in DOMAIN b |-> upTo[s.len][i]]
setFromSpan(s, offset) ==
    LET Put(b) == Copied(b, s, offset)
    IN  /\ offset + s.len <= MaxEls
        /\ Changed(assertSpace(offset + s.len), Put)
        /\ UNCHANGED <<locked, spans>>

Next ==
    \/ \E i \in -1..MaxEls, v \in Vals : setEl(i, v)
    \/ \E v \in Vals, start \in Starts, length \in Lengths : fill(v, start, length)
    \/ \E array \in Given, offset \in -1..MaxEls : set(array, offset)
    \/ reverse \/ sort
    \/ \E n \in 0..MaxEls : capacity(n)
    \/ \E start \in Starts, length \in Lengths :
         \/ span(start, length)
         \/ readonlySpan(start, length)
         \/ \E k \in DOMAIN spans : \/ fixedSpan(spans[k], start, length)
                                   \/ fixedReadonlySpan(spans[k], start, length)
                                   \/ readonlyReadonlySpan(spans[k], start, length)
    \/ \E k \in DOMAIN spans :
         \/ \E offset \in 0..MaxEls : setFromSpan(spans[k], offset)
         \/ /\ spans[k].kind = "fixed"
            /\ \/ \E i \in 0..MaxEls, v \in Vals : spanSetEl(spans[k], i, v)
               \/ \E v \in Vals, start \in Starts, length \in Lengths :
                    spanFill(spans[k], v, start, length)
               \/ \E array \in Given, offset \in -1..MaxEls : spanSet(spans[k], array, offset)
               \/ spanReverse(spans[k])
               \/ spanSort(spans[k])

Spec == Init /\ [][Next]_vars
-----------------------------------------------------------------------------
\* Every buffer replaced, every copy to a larger or smaller one, is invisible: the
\* array is endless memory that is zero until written, cut only by its capacity.  Once
\* memory is shared the interface lets any element change: this speaks of the calls up
\* to the first span, and SpansShareMemory of those after it.
ImplementsGrowable == G!GSpec

\* "if there was a resize this span may point to different memory": there is none.
\* However the array is written after a span was made, and whatever is made of
\* that span, all are views of the one buffer, and none reaches past its end.
SpansShareMemory ==
    /\ len <= Len(heap[data])
    /\ \A k \in DOMAIN spans : /\ spans[k].buf = data
                               /\ spans[k].start + spans[k].len <= Len(heap[data])

\* A call that throws, for a locked array or for a view past the end, has changed
\* no element, no length and no span before it did.  The lock is not among them: a
\* span() that throws has locked the array for good (TypedArrayExt.ts:817).
ThrownChangesNothing ==
    [][out' = Thrown => UNCHANGED <<heap, data, len, spans>>]_vars
=============================================================================
