------------------------- MODULE TypedArraysProofs -------------------------
(***************************************************************************)
(* Proofs about TypedArrays, for any elements, buffers and spans: an array *)
(* never moves away from its spans, a call that throws changes nothing,    *)
(* and the arrays, with their buffers, lengths and spans, implement the    *)
(* endless memory of GrowableArray.                                        *)
(***************************************************************************)
EXTENDS TypedArrays, WellFoundedInduction, TLAPS


-----------------------------------------------------------------------------
(* Buffers: sequences of which only the length matters here. *)

Buffer(b) == /\ Len(b) \in Nat
             /\ b = [i \in 1..Len(b) |-> b[i]]

LEMMA FunBuffer ==
  ASSUME NEW b, NEW n \in Nat, b = [i \in 1..n |-> b[i]]
  PROVE  Buffer(b) /\ Len(b) = n
<1> DEFINE S == {b[i] : i \in 1..n}
<1>1. b \in [1..n -> S]
  OBVIOUS
<1> HIDE DEF S
<1>2. b \in Seq(S) /\ Len(b) = n
  BY <1>1
<1> QED BY <1>2 DEF Buffer

LEMMA BufferSeq ==
  ASSUME NEW b, Buffer(b)
  PROVE  b \in Seq({b[i] : i \in 1..Len(b)})
<1> DEFINE S == {b[i] : i \in 1..Len(b)}
<1>1. b \in [1..Len(b) -> S] /\ Len(b) \in Nat
  BY DEF Buffer
<1> HIDE DEF S
<1>2. b \in Seq(S)
  BY <1>1
<1> QED BY <1>2 DEF S

LEMMA SeqBuffer ==
  ASSUME NEW S, NEW b \in Seq(S)
  PROVE  Buffer(b)
BY DEF Buffer

LEMMA SubBuffer ==
  ASSUME NEW b, Buffer(b), NEW n \in Nat, n <= Len(b)
  PROVE  Buffer(SubSeq(b, 1, n)) /\ Len(SubSeq(b, 1, n)) = n
<1> DEFINE S == {b[i] : i \in 1..Len(b)}
<1>1. b \in Seq(S) /\ Len(b) \in Nat
  BY BufferSeq DEF Buffer
<1> HIDE DEF S
<1>2. SubSeq(b, 1, n) \in Seq(S) /\ Len(SubSeq(b, 1, n)) = n
  BY <1>1
<1> QED BY <1>2, SeqBuffer

LEMMA ConcatBuffer ==
  ASSUME NEW a, NEW b, Buffer(a), Buffer(b)
  PROVE  Buffer(a \o b) /\ Len(a \o b) = Len(a) + Len(b)
<1> DEFINE S == {a[i] : i \in 1..Len(a)} \union {b[i] : i \in 1..Len(b)}
<1>1. a \in [1..Len(a) -> S] /\ b \in [1..Len(b) -> S] /\ Len(a) \in Nat /\ Len(b) \in Nat
  BY DEF Buffer
<1> HIDE DEF S
<1>2. a \in Seq(S) /\ b \in Seq(S)
  BY <1>1
<1>3. a \o b \in Seq(S) /\ Len(a \o b) = Len(a) + Len(b)
  BY <1>2
<1> QED BY <1>3, SeqBuffer

\* A buffer with some elements changed
LEMMA EditedBuffer ==
  ASSUME NEW a, NEW b, Buffer(a), b = [i \in DOMAIN a |-> b[i]]
  PROVE  Buffer(b) /\ Len(b) = Len(a)
<1>1. DOMAIN a = 1..Len(a) /\ Len(a) \in Nat
  BY DEF Buffer
<1>2. b = [i \in 1..Len(a) |-> b[i]]
  BY <1>1
<1> QED BY <1>1, <1>2, FunBuffer

LEMMA ZerosBuffer == ASSUME NEW n \in Nat PROVE Buffer(Zeros(n)) /\ Len(Zeros(n)) = n
<1>1. Zeros(n) = [i \in 1..n |-> Zeros(n)[i]]
  BY DEF Zeros
<1> QED BY <1>1, FunBuffer

-----------------------------------------------------------------------------
(* The inductive invariant: there is only ever one buffer, because an array *)
(* with a span is locked. *)

SpanType == [kind : {"fixed", "readonly"}, buf : {1}, start : Nat, len : Nat]

IInv ==
  /\ data = 1
  /\ Buffer(heap[1]) /\ heap = <<heap[1]>>
  /\ len \in Nat /\ len <= Len(heap[1])
  /\ spans \in Seq(SpanType)
  /\ \A k \in DOMAIN spans : spans[k].start + spans[k].len <= Len(heap[1])
  /\ spans # <<>> => locked

\* The array after a call that gave it a buffer and a length
LEMMA Rebuilt ==
  ASSUME IInv, NEW b, Buffer(b), NEW n \in Nat, n <= Len(b),
         heap' = <<b>>, data' = 1, len' = n, UNCHANGED <<locked, spans>>,
         spans = <<>> \/ Len(b) = Len(heap[1])
  PROVE  IInv'
<1>1. heap'[1] = b
  OBVIOUS
<1>2. spans' \in Seq(SpanType) /\ (spans' # <<>> => locked')
  BY DEF IInv
<1>3. \A k \in DOMAIN spans' : spans'[k].start + spans'[k].len <= Len(b)
  BY DEF IInv
<1> QED BY <1>1, <1>2, <1>3 DEF IInv

LEMMA Resized ==
  ASSUME IInv, NEW n \in Nat, NEW size \in Nat, size <= n, n < Len(heap[1]) \/ len <= n,
         _resize(n, size) # Thrown
  PROVE  /\ spans = <<>>
         /\ \E b : /\ Buffer(b) /\ Len(b) = n
                   /\ _resize(n, size) = [heap |-> <<b>>, data |-> 1, len |-> size]
<1>1. ~locked /\ spans = <<>>
  BY DEF _resize, IInv
<1>2. Buffer(heap[1]) /\ len \in Nat /\ len <= Len(heap[1]) /\ data = 1
  BY DEF IInv
<1>3. CASE n < Len(heap[1])
  <2> DEFINE b == SubSeq(heap[1], 1, n)
  <2>1. Buffer(b) /\ Len(b) = n
    BY <1>2, <1>3, SubBuffer
  <2>2. _resize(n, size) = [heap |-> <<b>>, data |-> 1, len |-> size]
    BY <1>1, <1>2, <1>3 DEF _resize, Replaced
  <2> QED BY <1>1, <2>1, <2>2
<1>4. CASE ~(n < Len(heap[1]))
  <2> DEFINE v == View(heap[1])
             b == v \o Zeros(n - len)
  <2>1. Buffer(v) /\ Len(v) = len
    BY <1>2, SubBuffer DEF View
  <2>2. n - len \in Nat
    BY <1>2, <1>4
  <2>3. Buffer(Zeros(n - len)) /\ Len(Zeros(n - len)) = n - len
    BY <2>2, ZerosBuffer
  <2> HIDE DEF v
  <2>4. Buffer(b) /\ Len(b) = n
    BY <1>2, <2>1, <2>2, <2>3, ConcatBuffer
  <2>5. _resize(n, size) = [heap |-> <<b>>, data |-> 1, len |-> size]
    BY <1>1, <1>2, <1>4 DEF _resize, Replaced, v
  <2> QED BY <1>1, <2>4, <2>5
<1> QED BY <1>2, <1>3, <1>4

\* What assertSpace() and a changed capacity give: one buffer, which is another one only
\* when there are no spans
OneArray(a) ==
  \E b, n : /\ a = [heap |-> <<b>>, data |-> 1, len |-> n]
            /\ Buffer(b) /\ n \in Nat /\ n <= Len(b)
            /\ spans = <<>> \/ Len(b) = Len(heap[1])

LEMMA ArrayIsOne == ASSUME IInv PROVE OneArray(Array)
BY DEF IInv, OneArray, Array

LEMMA ResizedIsOne ==
  ASSUME IInv, NEW n \in Nat, NEW size \in Nat, size <= n, n < Len(heap[1]) \/ len <= n,
         _resize(n, size) # Thrown
  PROVE  OneArray(_resize(n, size))
BY Resized DEF OneArray

LEMMA SpaceIsOne ==
  ASSUME IInv, NEW required \in Int, assertSpace(required) # Thrown
  PROVE  OneArray(assertSpace(required))
<1>1. /\ data = 1 /\ Buffer(heap[1]) /\ len \in Nat /\ len <= Len(heap[1]) /\ Len(heap[1]) \in Nat
      /\ heap = <<heap[1]>>
  BY DEF IInv, Buffer
<1>2. CASE len > required
  BY <1>2, ArrayIsOne DEF assertSpace
<1>3. CASE ~(len > required) /\ Len(heap[1]) <= required
  <2>1. required \in Nat /\ len <= required
    BY <1>1, <1>3
  <2>2. assertSpace(required) = _resize(required, required)
    BY <1>1, <1>3 DEF assertSpace
  <2> QED BY <2>1, <2>2, ResizedIsOne
<1>4. CASE ~(len > required) /\ ~(Len(heap[1]) <= required)
  <2>1. required \in Nat /\ required <= Len(heap[1])
    BY <1>1, <1>4
  <2>2. assertSpace(required) = [Array EXCEPT !.len = required]
    BY <1>1, <1>4 DEF assertSpace
  <2>3. [Array EXCEPT !.len = required] = [heap |-> <<heap[1]>>, data |-> 1, len |-> required]
    BY <1>1 DEF Array
  <2> QED BY <1>1, <2>1, <2>2, <2>3 DEF OneArray
<1> QED BY <1>2, <1>3, <1>4

\* Changed() with an edit that keeps the buffer's length
LEMMA ChangedKeeps ==
  ASSUME IInv, NEW a, OneArray(a), NEW buf, buf = [i \in DOMAIN a.heap[a.data] |-> buf[i]],
         heap' = [a.heap EXCEPT ![a.data] = buf], data' = a.data, len' = a.len,
         UNCHANGED <<locked, spans>>
  PROVE  IInv'
<1> PICK b, n : /\ a = [heap |-> <<b>>, data |-> 1, len |-> n]
                /\ Buffer(b) /\ n \in Nat /\ n <= Len(b)
                /\ spans = <<>> \/ Len(b) = Len(heap[1])
  BY DEF OneArray
<1>1. a.heap = <<b>> /\ a.data = 1 /\ a.len = n /\ a.heap[a.data] = b
  OBVIOUS
<1>2. heap' = <<buf>>
  BY <1>1
<1>3. Buffer(buf) /\ Len(buf) = Len(b)
  BY <1>1, EditedBuffer
<1> QED BY <1>1, <1>2, <1>3, Rebuilt

LEMMA OneIsBuffer ==
  ASSUME NEW a, OneArray(a)
  PROVE  a.heap[a.data] = [i \in DOMAIN a.heap[a.data] |-> a.heap[a.data][i]]
BY DEF OneArray, Buffer

LEMMA SpanAt ==
  ASSUME IInv, NEW k \in DOMAIN spans
  PROVE  /\ spans[k] \in SpanType /\ locked
         /\ spans[k].buf = 1 /\ spans[k].start \in Nat /\ spans[k].len \in Nat
         /\ spans[k].start + spans[k].len <= Len(heap[1])
<1>1. spans \in Seq(SpanType) /\ DOMAIN spans = 1..Len(spans) /\ Len(spans) \in Nat
  BY DEF IInv
<1>2. spans[k] \in SpanType
  BY <1>1
<1>3. spans # <<>>
  BY <1>1
<1> QED BY <1>2, <1>3 DEF IInv, SpanType

LEMMA Unchanged ==
  ASSUME IInv, UNCHANGED <<heap, data, len, locked, spans>>
  PROVE  IInv'
BY DEF IInv, Buffer

-----------------------------------------------------------------------------
(* One lemma for each action of the array. *)

LEMMA SetElKeeps ==
  ASSUME IInv, NEW i \in Int, NEW v, setEl(i, v)
  PROVE  IInv'
<1> DEFINE a == assertSpace(i + 1)
           x == a.heap[a.data]
           buf == IF i < 0 THEN x ELSE [x EXCEPT ![i + 1] = v]
<1>1. CASE a = Thrown
  BY <1>1, Unchanged DEF setEl, Changed
<1>2. CASE a # Thrown
  <2>1. OneArray(a)
    BY <1>2, SpaceIsOne
  <2>2. /\ heap' = [a.heap EXCEPT ![a.data] = buf] /\ data' = a.data /\ len' = a.len
        /\ UNCHANGED <<locked, spans>>
    BY <1>2 DEF setEl, Changed
  <2>3. x = [j \in DOMAIN x |-> x[j]]
    BY <2>1, OneIsBuffer
  <2> HIDE DEF a, x
  <2>4. buf = [j \in DOMAIN x |-> buf[j]]
    BY <2>3
  <2> HIDE DEF buf
  <2> QED BY <2>1, <2>2, <2>4, ChangedKeeps DEF x
<1> QED BY <1>1, <1>2

LEMMA FillKeeps ==
  ASSUME IInv, NEW v, NEW start \in Starts, NEW length \in Lengths, fill(v, start, length)
  PROVE  IInv'
<1> DEFINE from == startFix(start, len)
           n == Or(length, len - from)
           a == assertSpace(from + n)
           x == a.heap[a.data]
           buf == IF n <= 0 THEN x ELSE Written(x, from, Repeated(v, n))
<1>1. CASE from < 0 \/ from >= len
  BY <1>1, Unchanged DEF fill
<1>2. CASE ~(from < 0 \/ from >= len) /\ a = Thrown
  BY <1>2, Unchanged DEF fill, Changed
<1>3. CASE ~(from < 0 \/ from >= len) /\ a # Thrown
  <2>1. from \in Int /\ n \in Int
    <3>1. len \in Int
      BY DEF IInv
    <3>2. from \in Int
      BY <3>1, ArgumentsAssumption DEF startFix
    <3> HIDE DEF from
    <3> QED BY <3>1, <3>2, ArgumentsAssumption DEF Or
  <2>2. OneArray(a)
    <3>1. from + n \in Int
      BY <2>1
    <3> QED BY <1>3, <3>1, SpaceIsOne
  <2>3. /\ heap' = [a.heap EXCEPT ![a.data] = buf] /\ data' = a.data /\ len' = a.len
        /\ UNCHANGED <<locked, spans>>
    BY <1>3 DEF fill, Changed
  <2>4. x = [j \in DOMAIN x |-> x[j]]
    BY <2>2, OneIsBuffer
  <2> HIDE DEF a, x, n, from
  <2>5. buf = [j \in DOMAIN x |-> buf[j]]
    BY <2>4 DEF Written
  <2> HIDE DEF buf
  <2> QED BY <2>2, <2>3, <2>5, ChangedKeeps DEF x
<1> QED BY <1>1, <1>2, <1>3

LEMMA SetKeeps ==
  ASSUME IInv, NEW array \in Given, NEW offset \in Int, set(array, offset)
  PROVE  IInv'
<1> DEFINE a == assertSpace(offset + Len(array))
           x == a.heap[a.data]
           buf == Written(x, offset, array)
<1>1. CASE offset < 0
  BY <1>1, Unchanged DEF set
<1>2. CASE ~(offset < 0) /\ a = Thrown
  BY <1>2, Unchanged DEF set, Changed
<1>3. CASE ~(offset < 0) /\ a # Thrown
  <2>1. OneArray(a)
    <3>1. Len(array) \in Nat
      BY ArgumentsAssumption
    <3>2. offset + Len(array) \in Int
      BY <3>1
    <3> QED BY <1>3, <3>2, SpaceIsOne
  <2>2. /\ heap' = [a.heap EXCEPT ![a.data] = buf] /\ data' = a.data /\ len' = a.len
        /\ UNCHANGED <<locked, spans>>
    BY <1>3 DEF set, Changed
  <2> HIDE DEF a, x
  <2>3. buf = [j \in DOMAIN x |-> buf[j]]
    BY DEF Written
  <2> HIDE DEF buf
  <2> QED BY <2>1, <2>2, <2>3, ChangedKeeps DEF x
<1> QED BY <1>1, <1>2, <1>3

LEMMA ReorderKeeps ==
  ASSUME IInv, reverse \/ sort
  PROVE  IInv'
<1> DEFINE x == Array.heap[Array.data]
<1>1. OneArray(Array)
  BY ArrayIsOne
<1>2. ASSUME NEW w, NEW buf, buf = Written(x, 0, w),
             \/ Array = Thrown /\ UNCHANGED <<heap, data, len, locked, spans>>
             \/ /\ heap' = [Array.heap EXCEPT ![Array.data] = buf]
                /\ data' = Array.data /\ len' = Array.len /\ UNCHANGED <<locked, spans>>
      PROVE  IInv'
  <2> HIDE DEF x
  <2>1. buf = [j \in DOMAIN x |-> buf[j]]
    BY <1>2 DEF Written
  <2> QED BY <1>1, <1>2, <2>1, ChangedKeeps, Unchanged DEF x
<1>3. CASE reverse
  <2> DEFINE w == Reverse(View(x))
             buf == Written(x, 0, w)
  <2>1. \/ Array = Thrown /\ UNCHANGED <<heap, data, len, locked, spans>>
        \/ /\ heap' = [Array.heap EXCEPT ![Array.data] = buf]
           /\ data' = Array.data /\ len' = Array.len /\ UNCHANGED <<locked, spans>>
    BY <1>3 DEF reverse, Changed
  <2> HIDE DEF x, w
  <2> QED BY <1>2, <2>1
<1>4. CASE sort
  <2> DEFINE w == G!Sorted(View(x))
             buf == Written(x, 0, w)
  <2>1. \/ Array = Thrown /\ UNCHANGED <<heap, data, len, locked, spans>>
        \/ /\ heap' = [Array.heap EXCEPT ![Array.data] = buf]
           /\ data' = Array.data /\ len' = Array.len /\ UNCHANGED <<locked, spans>>
    BY <1>4 DEF sort, Changed
  <2> HIDE DEF x, w
  <2> QED BY <1>2, <2>1
<1> QED BY <1>3, <1>4

LEMMA CapacityKeeps ==
  ASSUME IInv, NEW n \in Nat, capacity(n)
  PROVE  IInv'
<1> DEFINE size == IF len < n THEN len ELSE n
           a == IF n = Len(heap[data]) THEN Array ELSE _resize(n, size)
           x == a.heap[a.data]
<1>1. data = 1 /\ len \in Nat /\ len <= Len(heap[1]) /\ Len(heap[1]) \in Nat
  BY DEF IInv, Buffer
<1>2. \/ a = Thrown /\ UNCHANGED <<heap, data, len, locked, spans>>
      \/ /\ a # Thrown
         /\ heap' = [a.heap EXCEPT ![a.data] = x] /\ data' = a.data /\ len' = a.len
         /\ UNCHANGED <<locked, spans>>
  BY DEF capacity, Changed
<1>3. CASE a = Thrown
  BY <1>2, <1>3, Unchanged
<1>4. CASE a # Thrown
  <2>1. OneArray(a)
    <3>1. CASE n = Len(heap[data])
      BY <3>1, ArrayIsOne
    <3>2. CASE n # Len(heap[data])
      <4>1. size \in Nat /\ size <= n /\ (n < Len(heap[1]) \/ len <= n)
        BY <1>1, <3>2
      <4>2. _resize(n, size) # Thrown
        BY <1>4, <3>2
      <4> HIDE DEF size
      <4>3. OneArray(_resize(n, size))
        BY <4>1, <4>2, ResizedIsOne
      <4> QED BY <3>2, <4>3
    <3> QED BY <3>1, <3>2
  <2>2. x = [j \in DOMAIN x |-> x[j]]
    BY <2>1, OneIsBuffer
  <2> HIDE DEF a
  <2> QED BY <1>2, <1>4, <2>1, <2>2, ChangedKeeps
<1> QED BY <1>3, <1>4

LEMMA SetFromSpanKeeps ==
  ASSUME IInv, NEW k \in DOMAIN spans, NEW offset \in Nat, setFromSpan(spans[k], offset)
  PROVE  IInv'
<1> DEFINE s == spans[k]
           a == assertSpace(offset + s.len)
           x == a.heap[a.data]
           buf == Copied(x, s, offset)
<1>1. CASE a = Thrown
  BY <1>1, Unchanged DEF setFromSpan, Changed
<1>2. CASE a # Thrown
  <2>1. s.len \in Nat
    BY SpanAt
  <2>2. OneArray(a)
    <3>1. offset + s.len \in Int
      BY <2>1
    <3> QED BY <1>2, <3>1, SpaceIsOne
  <2>3. /\ heap' = [a.heap EXCEPT ![a.data] = buf] /\ data' = a.data /\ len' = a.len
        /\ UNCHANGED <<locked, spans>>
    BY <1>2 DEF setFromSpan, Changed
  <2> HIDE DEF a, x
  <2>4. buf = [j \in DOMAIN x |-> buf[j]]
    BY DEF Copied
  <2> HIDE DEF buf
  <2> QED BY <2>2, <2>3, <2>4, ChangedKeeps DEF x
<1> QED BY <1>1, <1>2

-----------------------------------------------------------------------------
(* And for those of its spans. *)

\* What span(), readonlySpan() and those of a span make
LEMMA HeldKeeps ==
  ASSUME IInv, NEW kind \in {"fixed", "readonly"}, NEW b, b = 1,
         NEW start \in Starts, NEW length \in Lengths,
         Held(Viewing(kind, b, start, length)), UNCHANGED <<heap, data, len>>,
         locked'
  PROVE  IInv'
<1> DEFINE from == Or(start, 0)
           n == Or(length, Len(heap[1]) - from)
           view == [kind |-> kind, buf |-> b, start |-> from, len |-> n]
<1>1. Len(heap[1]) \in Nat /\ spans \in Seq(SpanType)
  BY DEF IInv, Buffer
<1>2. from \in Int
  BY ArgumentsAssumption DEF Or
<1>3. n \in Int
  <2> HIDE DEF from
  <2>1. Len(heap[1]) - from \in Int
    BY <1>1, <1>2
  <2>2. length \in Int \/ length = None
    BY ArgumentsAssumption
  <2> QED BY <2>1, <2>2 DEF Or
<1>4. CASE Viewing(kind, b, start, length) = Thrown
  <2>1. UNCHANGED <<heap, data, len, spans>>
    BY <1>4 DEF Held
  <2> QED BY <2>1 DEF IInv, Buffer
<1>5. CASE Viewing(kind, b, start, length) # Thrown
  <2>1. /\ ~(from < 0 \/ n < 0 \/ from + n > Len(heap[1]))
        /\ Viewing(kind, b, start, length) = view
    BY <1>5 DEF Viewing
  <2>2. spans' = Append(spans, view)
    BY <1>5, <2>1 DEF Held
  <2> HIDE DEF from, n
  <2>3. view \in SpanType /\ view.start + view.len <= Len(heap[1])
    BY <1>1, <1>2, <1>3, <2>1 DEF SpanType
  <2> HIDE DEF view
  <2>4. /\ spans' \in Seq(SpanType) /\ Len(spans') = Len(spans) + 1
        /\ spans'[Len(spans) + 1] = view
        /\ \A k \in 1..Len(spans) : spans'[k] = spans[k]
    BY <1>1, <2>2, <2>3
  <2>5. \A k \in DOMAIN spans' : spans'[k].start + spans'[k].len <= Len(heap[1])
    <3> SUFFICES ASSUME NEW k \in DOMAIN spans'
                 PROVE  spans'[k].start + spans'[k].len <= Len(heap[1])
      OBVIOUS
    <3>1. k \in 1..Len(spans) \/ k = Len(spans) + 1
      BY <1>1, <2>4
    <3> QED BY <1>1, <2>3, <2>4, <3>1 DEF IInv
  <2> QED BY <2>4, <2>5 DEF IInv, Buffer
<1> QED BY <1>4, <1>5

LEMMA ThroughKeeps ==
  ASSUME IInv, NEW k \in DOMAIN spans, NEW w, Through(spans[k], w)
  PROVE  IInv'
<1> DEFINE s == spans[k]
           b == Written(heap[1], s.start, w)
<1>1. data = 1 /\ heap = <<heap[1]>> /\ Buffer(heap[1]) /\ len \in Nat /\ len <= Len(heap[1])
  BY DEF IInv
<1>2. s.buf = 1
  BY SpanAt
<1>3. /\ heap' = [heap EXCEPT ![s.buf] = Written(heap[s.buf], s.start, w)]
      /\ UNCHANGED <<data, len, locked, spans>>
  BY DEF Through
<1>4. b = [i \in DOMAIN heap[1] |-> b[i]]
  BY DEF Written
<1>5. heap' = <<b>>
  BY <1>1, <1>2, <1>3
<1> HIDE DEF b
<1>6. Buffer(b) /\ Len(b) = Len(heap[1])
  BY <1>1, <1>4, EditedBuffer
<1> QED BY <1>1, <1>3, <1>5, <1>6, Rebuilt

LEMMA NextKeeps == IInv /\ [Next]_vars => IInv'
<1> SUFFICES ASSUME IInv, [Next]_vars
             PROVE  IInv'
  OBVIOUS
<1>0. data = 1 /\ \A k \in DOMAIN spans : spans[k].buf = 1 /\ locked
  BY SpanAt DEF IInv
<1>1. ASSUME NEW i \in -1..MaxEls, NEW v \in Vals, setEl(i, v)
      PROVE  IInv'
  BY <1>1, SetElKeeps
<1>2. ASSUME NEW v \in Vals, NEW start \in Starts, NEW length \in Lengths, fill(v, start, length)
      PROVE  IInv'
  BY <1>2, FillKeeps
<1>3. ASSUME NEW array \in Given, NEW offset \in -1..MaxEls, set(array, offset)
      PROVE  IInv'
  BY <1>3, SetKeeps
<1>4. CASE reverse \/ sort
  BY <1>4, ReorderKeeps
<1>5. ASSUME NEW n \in 0..MaxEls, capacity(n)
      PROVE  IInv'
  BY <1>5, CapacityKeeps
<1>6. ASSUME NEW start \in Starts, NEW length \in Lengths,
             span(start, length) \/ readonlySpan(start, length)
      PROVE  IInv'
  <2>1. PICK k \in {"fixed", "readonly"} :
          Held(Viewing(k, data, start, length)) /\ locked' = TRUE /\ UNCHANGED <<heap, data, len>>
    BY <1>6 DEF span, readonlySpan, Spanning, FixedTyped, ReadonlyTyped
  <2>2. locked'
    BY <2>1
  <2> QED BY <1>0, <2>1, <2>2, HeldKeeps
<1>7. ASSUME NEW start \in Starts, NEW length \in Lengths, NEW k \in DOMAIN spans,
             \/ fixedSpan(spans[k], start, length)
             \/ fixedReadonlySpan(spans[k], start, length)
             \/ readonlyReadonlySpan(spans[k], start, length)
      PROVE  IInv'
  <2>1. PICK c \in {"fixed", "readonly"} :
          Held(Viewing(c, spans[k].buf, start, length)) /\ UNCHANGED <<heap, data, len, locked>>
    BY <1>7 DEF fixedSpan, fixedReadonlySpan, readonlyReadonlySpan, OfSpan,
                FixedTyped, ReadonlyTyped
  <2>2. locked' /\ spans[k].buf = 1
    BY <1>0, <2>1
  <2> QED BY <2>1, <2>2, HeldKeeps
<1>8. ASSUME NEW k \in DOMAIN spans, NEW offset \in 0..MaxEls, setFromSpan(spans[k], offset)
      PROVE  IInv'
  BY <1>8, SetFromSpanKeeps
<1>9. ASSUME NEW k \in DOMAIN spans, NEW i, NEW v, spanSetEl(spans[k], i, v)
      PROVE  IInv'
  BY <1>9, ThroughKeeps DEF spanSetEl
<1>10. ASSUME NEW k \in DOMAIN spans, NEW v, NEW start, NEW length,
              spanFill(spans[k], v, start, length)
       PROVE  IInv'
  BY <1>10, ThroughKeeps DEF spanFill
<1>11. ASSUME NEW k \in DOMAIN spans, NEW array, NEW offset, spanSet(spans[k], array, offset)
       PROVE  IInv'
  BY <1>11, ThroughKeeps, Unchanged DEF spanSet
<1>12. ASSUME NEW k \in DOMAIN spans, spanReverse(spans[k]) \/ spanSort(spans[k])
       PROVE  IInv'
  BY <1>12, ThroughKeeps DEF spanReverse, spanSort
<1>13. CASE UNCHANGED vars
  BY <1>13, Unchanged DEF vars
<1> QED BY <1>1, <1>2, <1>3, <1>4, <1>5, <1>6, <1>7, <1>8, <1>9, <1>10, <1>11, <1>12, <1>13
     DEF Next

LEMMA InitHolds == Init => IInv
<1> SUFFICES ASSUME Init
             PROVE  IInv
  OBVIOUS
<1>1. PICK length \in 0..MaxEls, capacity_ \in {None} \cup 0..MaxEls :
        /\ Room(length, capacity_) \in 0..MaxEls
        /\ heap = <<Zeros(Room(length, capacity_))>>
        /\ len = length
  BY DEF Init
<1> DEFINE r == Room(length, capacity_)
<1>2. r \in Nat /\ length \in Nat
  BY <1>1, SizesAssumption
<1>3. length <= r
  <2> DEFINE cap == Or(capacity_, 0)
             els == goodSize(length * B) \div B
  <2>1. r # Thrown
    BY <1>2, ArgumentsAssumption
  <2>2. r = IF length = 0 THEN 0
            ELSE IF cap > 0 THEN (IF cap < length THEN Thrown ELSE cap)
            ELSE (IF els < length THEN Thrown ELSE els)
    BY DEF Room
  <2> HIDE DEF r, cap, els
  <2>3. length = 0 \/ ~(r < length)
    BY <2>1, <2>2
  <2> QED BY <1>2, <2>3
<1> HIDE DEF r
<1>4. Buffer(Zeros(r)) /\ Len(Zeros(r)) = r
  BY <1>2, ZerosBuffer
<1>5. heap = <<Zeros(r)>> /\ heap[1] = Zeros(r) /\ data = 1 /\ spans = <<>> /\ len = length
  BY <1>1 DEF Init, r
<1> QED BY <1>2, <1>3, <1>4, <1>5 DEF IInv

LEMMA Inductive == Spec => []IInv
BY InitHolds, NextKeeps, PTL DEF Spec

-----------------------------------------------------------------------------
(* The theorems. *)

\* However the array is written after a span was made, and whatever spans are made of
\* that span, all are views of the array's one buffer and end inside it.
THEOREM SpansAlwaysShare == Spec => []SpansShareMemory
<1>1. IInv => SpansShareMemory
  BY SpanAt DEF IInv, SpansShareMemory
<1> QED BY <1>1, Inductive, PTL

\* A call that throws has changed no element, no length and no span: locks and sizes
\* are tested before anything is written.
THEOREM ThrowsCleanly == Spec => ThrownChangesNothing
<1>1. [Next]_vars => [out' = Thrown => UNCHANGED <<heap, data, len, spans>>]_vars
  <2> SUFFICES ASSUME Next, out' = Thrown
               PROVE  UNCHANGED <<heap, data, len, spans>>
    OBVIOUS
  <2>0. out' # "ok"
    BY ArgumentsAssumption
  <2>1. ASSUME NEW i \in -1..MaxEls, NEW v \in Vals, setEl(i, v)
        PROVE  UNCHANGED <<heap, data, len, spans>>
    BY <2>0, <2>1 DEF setEl, Changed
  <2>2. ASSUME NEW v \in Vals, NEW start \in Starts, NEW length \in Lengths,
               fill(v, start, length)
        PROVE  UNCHANGED <<heap, data, len, spans>>
    BY <2>0, <2>2 DEF fill, Changed
  <2>3. ASSUME NEW array \in Given, NEW offset \in -1..MaxEls, set(array, offset)
        PROVE  UNCHANGED <<heap, data, len, spans>>
    BY <2>0, <2>3 DEF set, Changed
  <2>4. CASE reverse \/ sort
    BY <2>0, <2>4 DEF reverse, sort, Changed
  <2>5. ASSUME NEW n \in 0..MaxEls, capacity(n)
        PROVE  UNCHANGED <<heap, data, len, spans>>
    BY <2>0, <2>5 DEF capacity, Changed
  <2>6. ASSUME NEW start \in Starts, NEW length \in Lengths,
               span(start, length) \/ readonlySpan(start, length)
        PROVE  UNCHANGED <<heap, data, len, spans>>
    BY <2>0, <2>6 DEF span, readonlySpan, Spanning, Held
  <2>7. ASSUME NEW start \in Starts, NEW length \in Lengths, NEW k \in DOMAIN spans,
               \/ fixedSpan(spans[k], start, length)
               \/ fixedReadonlySpan(spans[k], start, length)
               \/ readonlyReadonlySpan(spans[k], start, length)
        PROVE  UNCHANGED <<heap, data, len, spans>>
    BY <2>0, <2>7 DEF fixedSpan, fixedReadonlySpan, readonlyReadonlySpan, OfSpan, Held
  <2>8. ASSUME NEW k \in DOMAIN spans, NEW offset \in 0..MaxEls, setFromSpan(spans[k], offset)
        PROVE  UNCHANGED <<heap, data, len, spans>>
    BY <2>0, <2>8 DEF setFromSpan, Changed
  <2>9. ASSUME NEW k \in DOMAIN spans, NEW w, Through(spans[k], w)
        PROVE  FALSE
    BY <2>0, <2>9 DEF Through
  <2>10. ASSUME NEW k \in DOMAIN spans, NEW array, NEW offset, spanSet(spans[k], array, offset)
         PROVE  UNCHANGED <<heap, data, len, spans>>
    BY <2>9, <2>10 DEF spanSet
  <2> QED BY <2>1, <2>2, <2>3, <2>4, <2>5, <2>6, <2>7, <2>8, <2>9, <2>10
       DEF Next, spanSetEl, spanFill, spanReverse, spanSort
<1> QED BY <1>1, PTL DEF Spec, ThrownChangesNothing

-----------------------------------------------------------------------------
(* Induction over the numbers, by sets: the least element of a set exists. *)

LEMMA NatLeast ==
  ASSUME NEW T \in SUBSET Nat, T # {}
  PROVE  \E x \in T : \A y \in T : x <= y
<1> DEFINE R == {ss \in Nat \X Nat : ss[1] < ss[2]}
<1>1. IsWellFoundedOn(R, Nat)
  BY NatLessThanWellFounded, Zenon DEF OpToRel
<1>2. \A a, b \in Nat : <<a, b>> \in R <=> a < b
  OBVIOUS
<1> HIDE DEF R
<1>3. \E x \in T : \A y \in T : ~ (<<y, x>> \in R)
  BY <1>1, WFMin, Zenon
<1>4. PICK x \in T : \A y \in T : ~ (<<y, x>> \in R)
  BY <1>3
<1>5. \A y \in T : ~(y < x)
  <2>1. \A y \in T : y \in Nat /\ x \in Nat
    OBVIOUS
  <2> QED BY <1>2, <1>4, <2>1, Zenon
<1> QED BY <1>5

LEMMA NatInduct ==
  ASSUME NEW S, 0 \in S, \A n \in Nat : n \in S => n + 1 \in S
  PROVE  Nat \subseteq S
<1> SUFFICES ASSUME ~(Nat \subseteq S)
             PROVE  FALSE
  OBVIOUS
<1> DEFINE T == Nat \ S
<1>1. PICK x \in T : \A y \in T : x <= y
  <2>1. T \in SUBSET Nat /\ T # {}
    OBVIOUS
  <2> HIDE DEF T
  <2> QED BY <2>1, NatLeast
<1>2. x # 0
  OBVIOUS
<1>3. x - 1 \in Nat /\ x - 1 \in S
  BY <1>1, <1>2
<1> QED BY <1>3

-----------------------------------------------------------------------------
(* The array as endless memory: what lies past the length is zero, until a
   span is taken; each operation is one of the contract, or changes nothing. *)

\* Buffers that the bounds and the elements allow, and those with nothing past n
Holds(b) == Buffer(b) /\ Len(b) <= MaxEls /\ \A i \in 1..Len(b) : b[i] \in Vals
Clean(b, n) == \A i \in 1..Len(b) : i > n => b[i] = 0

\* As long as nothing is shared, nothing was written past the length.
RInv == /\ Holds(heap[1])
        /\ locked \in BOOLEAN
        /\ ~locked => Clean(heap[1], len)

LEMMA StoredEqual ==
  ASSUME NEW b, NEW c, Buffer(b), Buffer(c),
         \A i \in 1..MaxEls : /\ i <= Len(b) /\ i <= Len(c) => b[i] = c[i]
                              /\ i <= Len(b) /\ ~(i <= Len(c)) => b[i] = 0
                              /\ ~(i <= Len(b)) /\ i <= Len(c) => c[i] = 0
  PROVE  Stored(b) = Stored(c)
BY DEF Stored

\* The first n elements, and zeros up to a length
LEMMA Extended ==
  ASSUME NEW b, Holds(b), NEW n \in Nat, n <= Len(b), NEW size \in Nat, n <= size, size <= MaxEls
  PROVE  LET c == SubSeq(b, 1, n) \o Zeros(size - n)
         IN  /\ Holds(c) /\ Len(c) = size
             /\ \A i \in 1..size : c[i] = IF i <= n THEN b[i] ELSE 0
<1> DEFINE c == SubSeq(b, 1, n) \o Zeros(size - n)
<1>1. b \in Seq(Vals) /\ Len(b) \in Nat
  <2>1. b \in [1..Len(b) -> Vals] /\ Len(b) \in Nat
    BY DEF Holds, Buffer
  <2> QED BY <2>1
<1>2. SubSeq(b, 1, n) \in Seq(Vals) /\ Len(SubSeq(b, 1, n)) = n
      /\ \A i \in 1..n : SubSeq(b, 1, n)[i] = b[i]
  BY <1>1
<1>3. Zeros(size - n) \in Seq(Vals) /\ Len(Zeros(size - n)) = size - n
      /\ \A i \in 1..(size - n) : Zeros(size - n)[i] = 0
  <2>1. Zeros(size - n) \in [1..(size - n) -> Vals] /\ size - n \in Nat
    BY SizesAssumption DEF Zeros
  <2> QED BY <2>1 DEF Zeros
<1>4. c \in Seq(Vals) /\ Len(c) = size
  BY <1>2, <1>3
<1>5. ASSUME NEW i \in 1..size
      PROVE  c[i] = IF i <= n THEN b[i] ELSE 0
  <2>1. CASE i <= n
    BY <1>2, <1>3, <2>1
  <2>2. CASE ~(i <= n)
    <3>1. c[i] = Zeros(size - n)[i - n] /\ i - n \in 1..(size - n)
      BY <1>2, <1>3, <2>2
    <3> QED BY <1>3, <2>2, <3>1
  <2> QED BY <2>1, <2>2
<1> HIDE DEF c
<1>6. Holds(c)
  BY <1>4, SeqBuffer, SizesAssumption DEF Holds
<1> QED BY <1>4, <1>5, <1>6 DEF c

Longer(r) == IF len < r THEN r ELSE len

\* What assertSpace() gives: the same memory, and room for what is required
LEMMA SpaceMakes ==
  ASSUME IInv, RInv, NEW r \in Nat, r <= MaxEls, assertSpace(r) # Thrown
  PROVE  \E b : /\ assertSpace(r) = [heap |-> <<b>>, data |-> 1, len |-> Longer(r)]
                /\ Holds(b) /\ Longer(r) <= Len(b) /\ Stored(b) = Stored(heap[1])
                /\ ~locked => Clean(b, Longer(r))
                /\ locked => b = heap[1]
<1>1. /\ data = 1 /\ Buffer(heap[1]) /\ len \in Nat /\ len <= Len(heap[1]) /\ Len(heap[1]) \in Nat
      /\ heap = <<heap[1]>>
  BY DEF IInv, Buffer
<1>2. CASE len > r
  <2>1. assertSpace(r) = [heap |-> <<heap[1]>>, data |-> 1, len |-> Longer(r)]
    BY <1>1, <1>2 DEF assertSpace, Array, Longer
  <2>2. Longer(r) <= Len(heap[1]) /\ (~locked => Clean(heap[1], Longer(r)))
    BY <1>1, <1>2 DEF Longer, RInv
  <2> QED BY <2>1, <2>2 DEF RInv
<1>3. CASE ~(len > r) /\ Len(heap[1]) <= r
  <2>1. len <= r /\ Longer(r) = r
    BY <1>1, <1>3 DEF Longer
  <2> DEFINE b == SubSeq(heap[1], 1, len) \o Zeros(r - len)
  <2>2. assertSpace(r) = _resize(r, r)
    BY <1>1, <1>3 DEF assertSpace
  <2>3. ~locked
    BY <2>2 DEF _resize
  <2>4. assertSpace(r) = [heap |-> <<b>>, data |-> 1, len |-> r]
    <3>1. spans = <<>>
      BY <2>3 DEF IInv
    <3>2. ~(r < Len(heap[1]))
      BY <1>1, <1>3
    <3>3. _resize(r, r) = Replaced(View(heap[1]) \o Zeros(r - len), r)
      BY <1>1, <2>3, <3>2 DEF _resize
    <3> QED BY <2>2, <3>1, <3>3 DEF Replaced, View
  <2>5. Holds(b) /\ Len(b) = r /\ \A i \in 1..r : b[i] = IF i <= len THEN heap[1][i] ELSE 0
    BY <1>1, <2>1, Extended DEF RInv
  <2> HIDE DEF b
  <2>6. Clean(heap[1], len)
    BY <2>3 DEF RInv
  <2>7. Stored(b) = Stored(heap[1])
    <3>1. Buffer(b) /\ MaxEls \in Nat
      BY <2>5, SizesAssumption DEF Holds
    <3>2. ASSUME NEW i \in 1..MaxEls
          PROVE  /\ i <= Len(b) /\ i <= Len(heap[1]) => b[i] = heap[1][i]
                 /\ i <= Len(b) /\ ~(i <= Len(heap[1])) => b[i] = 0
                 /\ ~(i <= Len(b)) /\ i <= Len(heap[1]) => heap[1][i] = 0
      <4>1. i \in Int /\ i >= 1
        BY <3>1
      <4>2. i <= Len(heap[1]) /\ i > len => heap[1][i] = 0
        BY <1>1, <2>6, <4>1 DEF Clean
      <4>3. i <= Len(b) => b[i] = IF i <= len THEN heap[1][i] ELSE 0
        BY <2>5, <4>1
      <4> QED BY <1>1, <1>3, <2>5, <4>1, <4>2, <4>3
    <3> QED BY <1>1, <3>1, <3>2, StoredEqual
  <2>8. Clean(b, r)
    BY <2>5 DEF Clean
  <2>9. Longer(r) <= Len(b)
    BY <2>1, <2>5
  <2> WITNESS b
  <2> QED BY <2>1, <2>3, <2>4, <2>5, <2>7, <2>8, <2>9
<1>4. CASE ~(len > r) /\ ~(Len(heap[1]) <= r)
  <2>1. len <= r /\ Longer(r) = r /\ r <= Len(heap[1])
    BY <1>1, <1>4 DEF Longer
  <2>2. assertSpace(r) = [Array EXCEPT !.len = r]
    BY <1>1, <1>4 DEF assertSpace
  <2>3. assertSpace(r) = [heap |-> <<heap[1]>>, data |-> 1, len |-> r]
    BY <1>1, <2>2 DEF Array
  <2>4. ~locked => Clean(heap[1], r)
    BY <1>1, <2>1 DEF RInv, Clean
  <2> QED BY <2>1, <2>3, <2>4 DEF RInv
<1> QED BY <1>1, <1>2, <1>3, <1>4

LEMMA Wrote ==
  ASSUME NEW b, Holds(b), NEW at \in Nat, NEW w \in Seq(Vals), at + Len(w) <= Len(b)
  PROVE  LET c == Written(b, at, w)
         IN  /\ Holds(c) /\ Len(c) = Len(b)
             /\ Stored(c) = [i \in 1..MaxEls |-> IF i \in (at + 1)..(at + Len(w)) THEN w[i - at]
                                                 ELSE Stored(b)[i]]
             /\ \A n \in Nat : Clean(b, n) /\ at + Len(w) <= n => Clean(c, n)
<1> DEFINE c == Written(b, at, w)
<1>1. Buffer(b) /\ Len(b) \in Nat /\ DOMAIN b = 1..Len(b) /\ MaxEls \in Nat /\ Len(b) <= MaxEls
  BY SizesAssumption DEF Holds, Buffer
<1>2. /\ c = [i \in 1..Len(b) |-> c[i]]
      /\ \A i \in 1..Len(b) : c[i] = IF i \in (at + 1)..(at + Len(w)) THEN w[i - at] ELSE b[i]
  BY <1>1 DEF Written
<1> HIDE DEF c
<1>3. Buffer(c) /\ Len(c) = Len(b)
  BY <1>1, <1>2, FunBuffer
<1>4. \A i \in (at + 1)..(at + Len(w)) : w[i - at] \in Vals /\ i \in 1..Len(b)
  <2> SUFFICES ASSUME NEW i \in (at + 1)..(at + Len(w))
               PROVE  w[i - at] \in Vals /\ i \in 1..Len(b)
    OBVIOUS
  <2>1. Len(w) \in Nat /\ i - at \in 1..Len(w) /\ i \in 1..Len(b)
    BY <1>1
  <2> QED BY <2>1
<1>5. Holds(c)
  BY <1>1, <1>2, <1>3, <1>4 DEF Holds
<1>6. Stored(c) = [i \in 1..MaxEls |-> IF i \in (at + 1)..(at + Len(w)) THEN w[i - at]
                                       ELSE Stored(b)[i]]
  <2>1. ASSUME NEW i \in 1..MaxEls
        PROVE  (IF i <= Len(c) THEN c[i] ELSE 0)
                 = IF i \in (at + 1)..(at + Len(w)) THEN w[i - at]
                   ELSE IF i <= Len(b) THEN b[i] ELSE 0
    BY <1>1, <1>2, <1>3, <1>4
  <2> QED BY <2>1 DEF Stored
<1>7. ASSUME NEW n \in Nat, Clean(b, n), at + Len(w) <= n
      PROVE  Clean(c, n)
  <2>1. ASSUME NEW i \in 1..Len(c), i > n
        PROVE  c[i] = 0
    <3>1. Len(w) \in Nat /\ i \in 1..Len(b) /\ ~(i \in (at + 1)..(at + Len(w)))
      BY <1>1, <1>3, <1>7, <2>1
    <3> QED BY <1>2, <1>7, <2>1, <3>1 DEF Clean
  <2> QED BY <2>1 DEF Clean
<1> QED BY <1>3, <1>5, <1>6, <1>7 DEF c
LEMMA SetsMemory ==
  ASSUME IInv, RInv, NEW at \in Nat, NEW w \in Seq(Vals), at + Len(w) <= MaxEls,
         NEW a, a = assertSpace(at + Len(w)), a # Thrown,
         NEW buf, buf = Written(a.heap[a.data], at, w),
         heap' = [a.heap EXCEPT ![a.data] = buf], data' = a.data, len' = a.len,
         UNCHANGED <<locked, spans>>
  PROVE  RInv' /\ G!GSet(w, at)
<1>1. at + Len(w) \in Nat /\ len \in Nat /\ data = 1
  BY DEF IInv
<1> DEFINE r == at + Len(w)
<1>2. PICK b : /\ a = [heap |-> <<b>>, data |-> 1, len |-> Longer(r)]
               /\ Holds(b) /\ Longer(r) <= Len(b) /\ Stored(b) = Stored(heap[1])
               /\ ~locked => Clean(b, Longer(r))
  BY <1>1, SpaceMakes
<1>3. r <= Longer(r) /\ Longer(r) \in Nat /\ Longer(r) = IF len < r THEN r ELSE len
  BY <1>1 DEF Longer
<1>4. r <= Len(b)
  BY <1>1, <1>2, <1>3 DEF Holds, Buffer
<1> DEFINE c == Written(b, at, w)
<1>5. a.heap = <<b>> /\ a.data = 1 /\ a.len = Longer(r) /\ a.heap[a.data] = b
  BY <1>2
<1>6. heap' = <<c>> /\ heap'[1] = c /\ data' = 1 /\ len' = Longer(r)
  BY <1>5
<1>7. /\ Holds(c)
      /\ Stored(c) = [i \in 1..MaxEls |-> IF i \in (at + 1)..(at + Len(w)) THEN w[i - at]
                                          ELSE Stored(b)[i]]
      /\ \A n \in Nat : Clean(b, n) /\ at + Len(w) <= n => Clean(c, n)
  BY <1>2, <1>4, Wrote
<1> HIDE DEF c
<1>8. RInv'
  <2>1. Holds(c) /\ (~locked => Clean(c, Longer(r)))
    BY <1>2, <1>3, <1>7
  <2>2. locked' = locked
    OBVIOUS
  <2> QED BY <1>6, <2>1, <2>2 DEF RInv, Holds, Clean, Buffer
<1>9. G!GSet(w, at)
  <2>1. Stored(heap'[data']) = Stored(c)
    BY <1>6
  <2>2. Stored(heap[data]) = Stored(b)
    BY <1>1, <1>2
  <2>3. len' = IF len < at + Len(w) THEN at + Len(w) ELSE len
    BY <1>3, <1>6
  <2> QED BY <1>7, <2>1, <2>2, <2>3 DEF G!GSet, Stored
<1> QED BY <1>8, <1>9

\* Nothing that the memory shows has changed.
Same == G!gvars' = G!gvars
Rest == UNCHANGED <<heap, data, len, locked>>

LEMMA RestIsSame == ASSUME Rest, RInv PROVE RInv' /\ Same
<1>1. RInv'
  BY DEF Rest, RInv, Holds, Clean, Buffer
<1>2. Same
  BY DEF Rest, Same, G!gvars, Stored
<1> QED BY <1>1, <1>2

\* The memory after a call that asked for no more than there is and wrote nothing
LEMMA SpaceOnly ==
  ASSUME IInv, RInv, NEW r \in Int, r <= len, NEW a, a = assertSpace(r), a # Thrown,
         heap' = [a.heap EXCEPT ![a.data] = a.heap[a.data]], data' = a.data, len' = a.len,
         UNCHANGED <<locked, spans>>
  PROVE  RInv' /\ Same
<1>1. len \in Nat /\ data = 1 /\ heap = <<heap[1]>> /\ len <= Len(heap[1])
      /\ Len(heap[1]) \in Nat /\ Len(heap[1]) <= MaxEls
  BY DEF IInv, RInv, Holds, Buffer
<1>2. CASE len > r
  <2>1. a = [heap |-> heap, data |-> 1, len |-> len]
    BY <1>1, <1>2 DEF assertSpace, Array
  <2>2. Rest
    BY <1>1, <2>1 DEF Rest
  <2> QED BY <2>2, RestIsSame
<1>3. CASE ~(len > r)
  <2>1. r = len /\ r \in Nat /\ r <= MaxEls
    BY <1>1, <1>3, SizesAssumption
  <2>2. PICK b : /\ a = [heap |-> <<b>>, data |-> 1, len |-> Longer(r)]
                 /\ Holds(b) /\ Stored(b) = Stored(heap[1])
                 /\ ~locked => Clean(b, Longer(r))
    BY <2>1, SpaceMakes
  <2>3. Longer(r) = len
    BY <2>1 DEF Longer
  <2>4. a.heap = <<b>> /\ a.data = 1 /\ a.len = len /\ a.heap[a.data] = b
    BY <2>2, <2>3
  <2>5. heap' = <<b>> /\ heap'[1] = b /\ data' = 1 /\ len' = len
    BY <2>4
  <2>6. RInv'
    BY <2>2, <2>3, <2>5 DEF RInv, Holds, Clean, Buffer
  <2>7. Stored(heap'[data']) = Stored(heap[data])
    BY <1>1, <2>2, <2>5
  <2>8. Same
    BY <2>5, <2>7 DEF Same, G!gvars, Stored
  <2> QED BY <2>6, <2>8
<1> QED BY <1>1, <1>2, <1>3

LEMMA SetElRefines ==
  ASSUME IInv, RInv, NEW i \in -1..MaxEls, NEW v \in Vals, setEl(i, v)
  PROVE  RInv' /\ ((G!GSet(<<v>>, i) /\ i \in 0..(MaxEls - 1) /\ UNCHANGED locked) \/ Same)
<1> DEFINE a == assertSpace(i + 1)
           x == a.heap[a.data]
<1>0. i < MaxEls /\ MaxEls \in Nat /\ len \in Nat
  BY SizesAssumption DEF setEl, IInv
<1>1. CASE a = Thrown
  <2>1. Rest
    BY <1>1 DEF setEl, Changed, Rest
  <2> QED BY <2>1, RestIsSame
<1>2. CASE a # Thrown /\ i < 0
  <2>1. /\ heap' = [a.heap EXCEPT ![a.data] = x] /\ data' = a.data /\ len' = a.len
        /\ UNCHANGED <<locked, spans>>
    BY <1>2 DEF setEl, Changed
  <2>2. i + 1 \in Int /\ i + 1 <= len
    BY <1>0, <1>2
  <2> HIDE DEF a
  <2> QED BY <1>2, <2>1, <2>2, SpaceOnly DEF a
<1>3. CASE a # Thrown /\ ~(i < 0)
  <2>1. /\ heap' = [a.heap EXCEPT ![a.data] = [x EXCEPT ![i + 1] = v]]
        /\ data' = a.data /\ len' = a.len /\ UNCHANGED <<locked, spans>>
    BY <1>3 DEF setEl, Changed
  <2>2. <<v>> \in Seq(Vals) /\ Len(<<v>>) = 1 /\ <<v>>[1] = v /\ i \in Nat
    BY <1>3
  <2>3. OneArray(a)
    <3>1. i + 1 \in Int
      OBVIOUS
    <3> QED BY <1>3, <3>1, SpaceIsOne
  <2>4. x = [j \in DOMAIN x |-> x[j]] /\ \A j \in DOMAIN x : j \in Int
    BY <2>3 DEF OneArray, Buffer
  <2>5. a = assertSpace(i + Len(<<v>>)) /\ i + Len(<<v>>) <= MaxEls
    BY <1>0, <2>2
  <2> HIDE DEF a, x
  <2>6. [x EXCEPT ![i + 1] = v] = Written(x, i, <<v>>)
    <3>1. ASSUME NEW j \in DOMAIN x
          PROVE  [x EXCEPT ![i + 1] = v][j]
                   = IF j \in (i + 1)..(i + Len(<<v>>)) THEN <<v>>[j - i] ELSE x[j]
      <4>1. j \in Int
        BY <2>4
      <4>2. CASE j = i + 1
        <5>1. j - i = 1 /\ j \in (i + 1)..(i + 1)
          BY <2>2, <4>2
        <5> QED BY <2>2, <4>2, <5>1
      <4>3. CASE j # i + 1
        <5>1. j \notin (i + 1)..(i + 1)
          BY <2>2, <4>1, <4>3
        <5> QED BY <2>2, <4>3, <5>1
      <4> QED BY <4>2, <4>3
    <3>2. [x EXCEPT ![i + 1] = v] = [j \in DOMAIN x |-> [x EXCEPT ![i + 1] = v][j]]
      BY <2>4
    <3> QED BY <3>1, <3>2 DEF Written
  <2>7. RInv' /\ G!GSet(<<v>>, i)
    BY <1>3, <2>1, <2>2, <2>5, <2>6, SetsMemory DEF x
  <2> QED BY <1>0, <2>1, <2>2, <2>7
<1> QED BY <1>1, <1>2, <1>3

LEMMA FillRefines ==
  ASSUME IInv, RInv, NEW v \in Vals, NEW start \in Starts, NEW length \in Lengths,
         fill(v, start, length)
  PROVE  /\ RInv'
         /\ \/ \E at, n \in 0..MaxEls : at + n <= MaxEls /\ G!GFill(v, at, n) /\ UNCHANGED locked
            \/ Same
<1> DEFINE from == startFix(start, len)
           n == Or(length, len - from)
           a == assertSpace(from + n)
           x == a.heap[a.data]
<1>0. len \in Nat /\ MaxEls \in Nat /\ from \in Int /\ n \in Int
  <2>1. len \in Nat /\ MaxEls \in Nat
    BY SizesAssumption DEF IInv
  <2>2. from \in Int
    BY <2>1, ArgumentsAssumption DEF startFix
  <2> HIDE DEF from
  <2> QED BY <2>1, <2>2, ArgumentsAssumption DEF Or
<1>1. CASE from < 0 \/ from >= len
  <2>1. Rest
    BY <1>1 DEF fill, Rest
  <2> QED BY <2>1, RestIsSame
<1>2. CASE ~(from < 0 \/ from >= len) /\ a = Thrown
  <2>1. Rest
    BY <1>2 DEF fill, Changed, Rest
  <2> QED BY <2>1, RestIsSame
<1>3. CASE ~(from < 0 \/ from >= len) /\ a # Thrown
  <2>1. from + n <= MaxEls
    BY DEF fill
  <2>2. /\ heap' = [a.heap EXCEPT ![a.data] = IF n <= 0 THEN x ELSE Written(x, from, Repeated(v, n))]
        /\ data' = a.data /\ len' = a.len /\ UNCHANGED <<locked, spans>>
    BY <1>3 DEF fill, Changed
  <2>3. ~(from < 0) /\ ~(from >= len) /\ a # Thrown
    BY <1>3
  <2> HIDE DEF from, n
  <2>4. CASE n <= 0
    <3>1. from + n \in Int /\ from + n <= len
      BY <1>0, <2>3, <2>4
    <3>2. heap' = [a.heap EXCEPT ![a.data] = a.heap[a.data]]
      BY <2>2, <2>4
    <3> HIDE DEF a
    <3> QED BY <2>2, <2>3, <3>1, <3>2, SpaceOnly DEF a
  <2>5. CASE ~(n <= 0)
    <3> DEFINE w == Repeated(v, n)
    <3>1. n \in Nat /\ from \in Nat /\ n \in 0..MaxEls /\ from \in 0..MaxEls /\ from < len
      BY <1>0, <2>1, <2>3, <2>5
    <3>2. w \in Seq(Vals) /\ Len(w) = n
      <4>1. w \in [1..n -> Vals]
        BY DEF Repeated
      <4> HIDE DEF w
      <4> QED BY <3>1, <4>1
    <3>3. heap' = [a.heap EXCEPT ![a.data] = Written(x, from, w)]
      BY <2>2, <2>5
    <3>4. a = assertSpace(from + Len(w)) /\ from + Len(w) <= MaxEls
      BY <2>1, <3>2
    <3>5. w = [i \in 1..n |-> v]
      BY DEF Repeated
    <3> HIDE DEF w, a
    <3>6. RInv' /\ G!GSet(w, from)
      BY <2>2, <2>3, <3>1, <3>2, <3>3, <3>4, SetsMemory
    <3>7. G!GFill(v, from, n)
      BY <3>1, <3>5, <3>6 DEF G!GFill
    <3> QED BY <2>1, <2>2, <3>1, <3>6, <3>7
  <2> QED BY <2>4, <2>5
<1> QED BY <1>1, <1>2, <1>3

LEMMA SetRefines ==
  ASSUME IInv, RInv, NEW array \in Given, NEW offset \in -1..MaxEls, set(array, offset)
  PROVE  /\ RInv'
         /\ \/ /\ offset \in 0..MaxEls /\ offset + Len(array) <= MaxEls
               /\ G!GSet(array, offset) /\ UNCHANGED locked
            \/ Same
<1> DEFINE a == assertSpace(offset + Len(array))
           x == a.heap[a.data]
<1>0. array \in Seq(Vals) /\ offset + Len(array) <= MaxEls /\ MaxEls \in Nat
  BY SizesAssumption, ArgumentsAssumption DEF set
<1>1. CASE offset < 0
  <2>1. Rest
    BY <1>1 DEF set, Rest
  <2> QED BY <2>1, RestIsSame
<1>2. CASE ~(offset < 0) /\ a = Thrown
  <2>1. Rest
    BY <1>2 DEF set, Changed, Rest
  <2> QED BY <2>1, RestIsSame
<1>3. CASE ~(offset < 0) /\ a # Thrown
  <2>1. /\ heap' = [a.heap EXCEPT ![a.data] = Written(x, offset, array)]
        /\ data' = a.data /\ len' = a.len /\ UNCHANGED <<locked, spans>>
    BY <1>3 DEF set, Changed
  <2>2. offset \in Nat /\ offset \in 0..MaxEls
    BY <1>0, <1>3
  <2>3. a # Thrown
    BY <1>3
  <2> HIDE DEF a
  <2>4. RInv' /\ G!GSet(array, offset)
    BY <1>0, <2>1, <2>2, <2>3, SetsMemory DEF a
  <2> QED BY <1>0, <2>1, <2>2, <2>4
<1> QED BY <1>1, <1>2, <1>3

LEMMA CapacityRefines ==
  ASSUME IInv, RInv, NEW n \in 0..MaxEls, capacity(n)
  PROVE  RInv' /\ ((~locked /\ UNCHANGED locked /\ G!GCapacity(n)) \/ Same)
<1> DEFINE size == IF len < n THEN len ELSE n
           a == IF n = Len(heap[data]) THEN Array ELSE _resize(n, size)
           x == a.heap[a.data]
<1>1. /\ data = 1 /\ len \in Nat /\ len <= Len(heap[1]) /\ Len(heap[1]) \in Nat
      /\ heap = <<heap[1]>> /\ Buffer(heap[1]) /\ n \in Nat /\ n <= MaxEls /\ MaxEls \in Nat
      /\ Holds(heap[1])
  BY SizesAssumption DEF IInv, Buffer, RInv
<1>2. \/ a = Thrown /\ UNCHANGED <<heap, data, len, locked, spans>>
      \/ /\ a # Thrown
         /\ heap' = [a.heap EXCEPT ![a.data] = x] /\ data' = a.data /\ len' = a.len
         /\ UNCHANGED <<locked, spans>>
  BY DEF capacity, Changed
<1>3. CASE a = Thrown
  <2>1. Rest
    BY <1>2, <1>3 DEF Rest
  <2> QED BY <2>1, RestIsSame
<1>4. CASE a # Thrown /\ n = Len(heap[data])
  <2>1. a = [heap |-> heap, data |-> 1, len |-> len]
    BY <1>1, <1>4 DEF Array
  <2> HIDE DEF a
  <2>2. Rest
    BY <1>1, <1>2, <1>4, <2>1 DEF Rest
  <2> QED BY <2>2, RestIsSame
<1>5. CASE a # Thrown /\ n # Len(heap[data])
  <2>1. a = _resize(n, size) /\ ~locked
    BY <1>5 DEF _resize
  <2>2. spans = <<>>
    BY <2>1 DEF IInv
  <2>3. size \in Nat /\ size <= n /\ size <= len /\ size = IF len < n THEN len ELSE n
    BY <1>1
  <2>4. Clean(heap[1], len)
    BY <2>1 DEF RInv
  <2> DEFINE same(b) == \A i \in 1..n : b[i] = IF i <= Len(heap[1]) THEN heap[1][i] ELSE 0
  <2>5. \E b : /\ a = [heap |-> <<b>>, data |-> 1, len |-> size]
               /\ Holds(b) /\ Len(b) = n /\ same(b)
    <3>1. CASE n < Len(heap[1])
      <4> DEFINE b == SubSeq(heap[1], 1, n)
      <4>1. a = [heap |-> <<b>>, data |-> 1, len |-> size]
        BY <1>1, <2>1, <2>2, <3>1 DEF _resize, Replaced
      <4>2. heap[1] \in Seq(Vals)
        <5>1. heap[1] \in [1..Len(heap[1]) -> Vals]
          BY <1>1 DEF Holds, Buffer
        <5> QED BY <1>1, <5>1
      <4>3. b \in Seq(Vals) /\ Len(b) = n /\ same(b)
        BY <1>1, <3>1, <4>2
      <4> HIDE DEF a, b
      <4>4. Holds(b)
        BY <1>1, <4>3, SeqBuffer DEF Holds
      <4> QED BY <4>1, <4>3, <4>4
    <3>2. CASE ~(n < Len(heap[1]))
      <4> DEFINE b == SubSeq(heap[1], 1, len) \o Zeros(n - len)
      <4>1. a = [heap |-> <<b>>, data |-> 1, len |-> size]
        BY <1>1, <2>1, <2>2, <3>2 DEF _resize, Replaced, View
      <4>2. Holds(b) /\ Len(b) = n /\ \A i \in 1..n : b[i] = IF i <= len THEN heap[1][i] ELSE 0
        BY <1>1, <3>2, Extended
      <4> HIDE DEF a, b
      <4>3. same(b)
        <5>1. ASSUME NEW i \in 1..n
              PROVE  b[i] = IF i <= Len(heap[1]) THEN heap[1][i] ELSE 0
          <6>1. i <= Len(heap[1]) /\ i > len => heap[1][i] = 0
            BY <1>1, <2>4 DEF Clean
          <6> QED BY <1>1, <4>2, <6>1
        <5> QED BY <5>1
      <4> QED BY <4>1, <4>2, <4>3
    <3> QED BY <3>1, <3>2
  <2>6. PICK b : /\ a = [heap |-> <<b>>, data |-> 1, len |-> size]
                 /\ Holds(b) /\ Len(b) = n /\ same(b)
    BY <2>5
  <2>7. a.heap = <<b>> /\ a.data = 1 /\ a.len = size /\ a.heap[a.data] = b
    BY <2>6
  <2>8. UNCHANGED locked /\ heap' = [a.heap EXCEPT ![a.data] = x] /\ data' = a.data /\ len' = a.len
    BY <1>2, <1>5
  <2> HIDE DEF a
  <2>9. heap' = <<b>> /\ heap'[1] = b /\ data' = 1 /\ len' = size
    BY <2>7, <2>8
  <2> HIDE DEF size
  <2>10. Clean(b, size)
    <3>1. ASSUME NEW i \in 1..n, i > size
          PROVE  b[i] = 0
      <4>1. i > len
        BY <1>1, <2>3, <3>1
      <4>2. i <= Len(heap[1]) => heap[1][i] = 0
        BY <1>1, <2>4, <4>1 DEF Clean
      <4> QED BY <2>6, <4>2
    <3> QED BY <2>6, <3>1 DEF Clean
  <2>11. RInv'
    BY <2>6, <2>8, <2>9, <2>10 DEF RInv, Holds, Clean, Buffer
  <2>12. Stored(b) = [i \in 1..MaxEls |-> IF i <= n THEN Stored(heap[1])[i] ELSE 0]
    BY <1>1, <2>6 DEF Stored
  <2>13. G!GCapacity(n)
    <3>1. Stored(heap'[data']) = Stored(b) /\ Stored(heap[data]) = Stored(heap[1])
      BY <1>1, <2>9
    <3> QED BY <2>3, <2>9, <2>12, <3>1 DEF G!GCapacity, Stored
  <2> QED BY <2>1, <2>8, <2>11, <2>13
<1> QED BY <1>3, <1>4, <1>5

-----------------------------------------------------------------------------
(* Sorting: an ascending rearrangement exists, by insertion, and what lies
   in the buffer is the one the contract names. *)

LEMMA SortExists ==
  \A n \in Nat : \A s \in [1..n -> Int] : \E p \in G!Rearrangements(n) : G!Ascending(s, p)
<1> DEFINE Sorts(n, s) == \E p \in [1..n -> 1..n] :
                            /\ \A k \in 1..n : \E i \in 1..n : p[i] = k
                            /\ \A i, j \in 1..n : i < j => s[p[i]] <= s[p[j]]
           S == {n \in Nat : \A s \in [1..n -> Int] : Sorts(n, s)}
<1>1. 0 \in S
  <2>1. ASSUME NEW s \in [1..0 -> Int]
        PROVE  Sorts(0, s)
    <3> DEFINE p == [i \in 1..0 |-> i]
    <3>1. p \in [1..0 -> 1..0] /\ \A k \in 1..0 : FALSE
      OBVIOUS
    <3> QED BY <3>1
  <2> QED BY <2>1
<1>2. ASSUME NEW n \in Nat, n \in S
      PROVE  n + 1 \in S
  <2> SUFFICES ASSUME NEW s \in [1..(n + 1) -> Int]
               PROVE  Sorts(n + 1, s)
    <3> HIDE DEF Sorts
    <3> QED OBVIOUS
  <2> DEFINE r == [i \in 1..n |-> s[i]]
             x == s[n + 1]
  <2>1. r \in [1..n -> Int] /\ x \in Int
    OBVIOUS
  <2>2. PICK p \in [1..n -> 1..n] :
               /\ \A k \in 1..n : \E i \in 1..n : p[i] = k
               /\ \A i, j \in 1..n : i < j => r[p[i]] <= r[p[j]]
    BY <1>2, <2>1
  <2> DEFINE v == [i \in 1..n |-> s[p[i]]]
  <2>3. /\ v \in [1..n -> Int]
        /\ \A i, j \in 1..n : i < j => v[i] <= v[j]
        /\ \A i \in 1..n : v[i] = s[p[i]] /\ p[i] \in 1..n
    <3>1. ASSUME NEW i \in 1..n
          PROVE  v[i] = s[p[i]] /\ p[i] \in 1..n /\ v[i] = r[p[i]] /\ v[i] \in Int
      <4>1. p[i] \in 1..n /\ p[i] \in 1..(n + 1)
        OBVIOUS
      <4> QED BY <4>1
    <3>2. v \in [1..n -> Int]
      BY <3>1
    <3> HIDE DEF v, r
    <3> QED BY <2>2, <3>1, <3>2
  <2>x. x \in Int
    BY <2>1
  <2> HIDE DEF v, r, x
  <2> DEFINE K == {i \in 1..n : v[i] > x} \union {n + 1}
  <2>4. PICK k \in K : \A i \in K : k <= i
    <3>1. K \in SUBSET Nat /\ K # {}
      OBVIOUS
    <3> HIDE DEF K
    <3> QED BY <3>1, NatLeast
  <2>5. /\ k \in 1..(n + 1)
        /\ \A i \in 1..n : i < k => v[i] <= x
        /\ \A i \in 1..n : k <= i => x <= v[i]
    <3>1. k \in 1..(n + 1) /\ (k # n + 1 => k \in 1..n /\ v[k] > x)
      BY <2>4
    <3>2. ASSUME NEW i \in 1..n, i < k
          PROVE  v[i] <= x
      <4>1. i \notin K
        BY <2>4, <3>1, <3>2
      <4> QED BY <2>x, <2>3, <4>1
    <3>3. ASSUME NEW i \in 1..n, k <= i
          PROVE  x <= v[i]
      <4>1. k \in 1..n /\ v[k] > x
        BY <3>1, <3>3
      <4>2. v[k] <= v[i] \/ k = i
        BY <2>3, <3>3, <4>1
      <4>3. v[k] \in Int /\ v[i] \in Int
        BY <2>3, <4>1
      <4>4. CASE k = i
        BY <2>x, <4>1, <4>3, <4>4
      <4>5. CASE v[k] <= v[i]
        <5> DEFINE vk == v[k]
                   vi == v[i]
        <5>1. vk \in Int /\ vi \in Int /\ vk > x /\ vk <= vi
          BY <4>1, <4>3, <4>5
        <5> HIDE DEF vk, vi
        <5>2. x <= vi
          BY <2>x, <5>1
        <5> QED BY <5>2 DEF vi
      <4> QED BY <4>2, <4>4, <4>5
    <3> QED BY <3>1, <3>2, <3>3
  <2> HIDE DEF K
  <2> DEFINE q == [i \in 1..(n + 1) |-> IF i < k THEN p[i] ELSE IF i = k THEN n + 1 ELSE p[i - 1]]
  <2>6. ASSUME NEW i \in 1..(n + 1)
        PROVE  /\ q[i] = IF i < k THEN p[i] ELSE IF i = k THEN n + 1 ELSE p[i - 1]
               /\ q[i] \in 1..(n + 1)
               /\ s[q[i]] = IF i < k THEN v[i] ELSE IF i = k THEN x ELSE v[i - 1]
    <3>1. q[i] = IF i < k THEN p[i] ELSE IF i = k THEN n + 1 ELSE p[i - 1]
      OBVIOUS
    <3> HIDE DEF q
    <3>2. CASE i < k
      <4>1. i \in 1..n
        BY <2>5, <3>2
      <4>2. s[q[i]] = v[i] /\ q[i] \in 1..n
        BY <2>3, <3>1, <3>2, <4>1
      <4> QED BY <3>1, <3>2, <4>2
    <3>3. CASE i = k
      BY <2>5, <3>1, <3>3 DEF x
    <3>4. CASE i > k
      <4>1. i - 1 \in 1..n /\ ~(i < k) /\ i # k
        BY <2>5, <3>4
      <4>2. s[q[i]] = v[i - 1] /\ q[i] \in 1..n
        BY <2>3, <3>1, <4>1
      <4> QED BY <3>1, <4>1, <4>2
    <3> QED BY <2>5, <3>2, <3>3, <3>4
  <2>7. q \in [1..(n + 1) -> 1..(n + 1)]
    <3>1. q = [i \in 1..(n + 1) |-> q[i]]
      OBVIOUS
    <3> HIDE DEF q
    <3> QED BY <2>6, <3>1
  <2> HIDE DEF q
  <2>8. ASSUME NEW m \in 1..(n + 1)
        PROVE  \E i \in 1..(n + 1) : q[i] = m
    <3>1. CASE m = n + 1
      BY <2>5, <2>6, <3>1
    <3>2. CASE m \in 1..n
      <4>1. PICK i \in 1..n : p[i] = m
        BY <2>2, <3>2
      <4>2. CASE i < k
        <5>1. i \in 1..(n + 1)
          OBVIOUS
        <5> QED BY <2>6, <4>1, <4>2, <5>1
      <4>3. CASE ~(i < k)
        <5>1. i + 1 \in 1..(n + 1) /\ ~(i + 1 < k) /\ i + 1 # k /\ (i + 1) - 1 = i
          BY <2>5, <4>3
        <5> QED BY <2>6, <4>1, <5>1
      <4> QED BY <4>2, <4>3
    <3> QED BY <3>1, <3>2
  <2>9. ASSUME NEW i \in 1..(n + 1), NEW j \in 1..(n + 1), i < j
        PROVE  s[q[i]] <= s[q[j]]
    <3>1. k \in Int
      BY <2>5
    <3>2. CASE j < k
      <4>1. i \in 1..n /\ j \in 1..n /\ i < k
        BY <2>5, <2>9, <3>2
      <4> QED BY <2>3, <2>6, <2>9, <3>2, <4>1
    <3>3. CASE i < k /\ j = k
      <4>1. i \in 1..n /\ ~(j < k)
        BY <2>5, <3>3
      <4>2. v[i] <= x
        BY <2>5, <3>3, <4>1
      <4> QED BY <2>6, <3>3, <4>1, <4>2
    <3>4. CASE i < k /\ j > k
      <4>1. i \in 1..n /\ j - 1 \in 1..n /\ i < j - 1 /\ ~(j < k) /\ j # k
        BY <2>5, <3>4
      <4>2. v[i] <= v[j - 1]
        BY <2>3, <4>1
      <4> QED BY <2>6, <3>4, <4>1, <4>2
    <3>5. CASE i = k
      <4>1. j - 1 \in 1..n /\ k <= j - 1 /\ ~(j < k) /\ j # k /\ ~(i < k)
        BY <2>5, <2>9, <3>5
      <4>2. x <= v[j - 1]
        BY <2>5, <4>1
      <4> QED BY <2>6, <3>5, <4>1, <4>2
    <3>6. CASE i > k
      <4>1. /\ i - 1 \in 1..n /\ j - 1 \in 1..n /\ i - 1 < j - 1
            /\ ~(j < k) /\ j # k /\ ~(i < k) /\ i # k
        BY <2>5, <2>9, <3>6
      <4>2. v[i - 1] <= v[j - 1]
        BY <2>3, <4>1
      <4> QED BY <2>6, <4>1, <4>2
    <3>7. i < k \/ i = k \/ i > k
      BY <3>1
    <3>8. j < k \/ j = k \/ j > k
      BY <3>1
    <3> QED BY <3>2, <3>3, <3>4, <3>5, <3>6, <3>7, <3>8
  <2> QED BY <2>7, <2>8, <2>9
<1> HIDE DEF Sorts
<1>3. Nat \subseteq S
  <2> HIDE DEF S
  <2> QED BY <1>1, <1>2, NatInduct
<1>4. ASSUME NEW n \in Nat, NEW s \in [1..n -> Int]
      PROVE  \E p \in G!Rearrangements(n) : G!Ascending(s, p)
  <2>1. Sorts(n, s)
    BY <1>3
  <2>2. DOMAIN s = 1..n
    OBVIOUS
  <2> QED BY <2>1, <2>2 DEF Sorts, G!Rearrangements, G!Ascending
<1> QED BY <1>4

LEMMA SortedOf ==
  ASSUME NEW s \in Seq(Vals)
  PROVE  G!Sorted(s) \in Seq(Vals) /\ Len(G!Sorted(s)) = Len(s)
<1> DEFINE n == Len(s)
           p == CHOOSE q \in G!Rearrangements(n) : G!Ascending(s, q)
<1>1. n \in Nat /\ s \in [1..n -> Int] /\ s \in [1..n -> Vals]
  <2>1. n \in Nat /\ s \in [1..n -> Vals] /\ Vals \subseteq Int
    BY SizesAssumption
  <2> HIDE DEF n
  <2> QED BY <2>1
<1>2. p \in G!Rearrangements(n)
  <2>1. \E q \in G!Rearrangements(n) : G!Ascending(s, q)
    BY <1>1, SortExists
  <2> QED BY <2>1
<1>3. G!Sorted(s) = [i \in 1..n |-> s[p[i]]]
  BY DEF G!Sorted
<1> HIDE DEF p, n
<1>4. p \in [1..n -> 1..n]
  BY <1>2 DEF G!Rearrangements
<1>5. G!Sorted(s) \in [1..n -> Vals]
  BY <1>1, <1>3, <1>4
<1> QED BY <1>1, <1>5 DEF n

LEMMA HeldSeq == ASSUME NEW b, Holds(b) PROVE b \in Seq(Vals) /\ Len(b) \in Nat
<1>1. b \in [1..Len(b) -> Vals] /\ Len(b) \in Nat
  BY DEF Holds, Buffer
<1> QED BY <1>1

\* Wrote, from the first element
LEMMA WroteAll ==
  ASSUME NEW b, Holds(b), NEW o \in Seq(Vals), Len(o) <= Len(b)
  PROVE  /\ Holds(Written(b, 0, o))
         /\ Stored(Written(b, 0, o)) =
               [i \in 1..MaxEls |-> IF i \in 1..Len(o) THEN o[i] ELSE Stored(b)[i]]
         /\ \A n \in Nat : Clean(b, n) /\ Len(o) <= n => Clean(Written(b, 0, o), n)
<1>1. PICK at \in Nat : at = 0
  OBVIOUS
<1>2. Len(o) \in Nat /\ at + Len(o) = Len(o) /\ at + 1 = 1 /\ MaxEls \in Nat
  BY <1>1, SizesAssumption
<1> DEFINE d == Written(b, at, o)
<1>3. /\ Holds(d)
      /\ Stored(d) = [i \in 1..MaxEls |-> IF i \in (at + 1)..(at + Len(o)) THEN o[i - at]
                                          ELSE Stored(b)[i]]
      /\ \A n \in Nat : Clean(b, n) /\ at + Len(o) <= n => Clean(d, n)
  <2>1. at + Len(o) <= Len(b)
    BY <1>2
  <2> HIDE DEF d
  <2>2. LET c == Written(b, at, o)
        IN  /\ Holds(c) /\ Len(c) = Len(b)
            /\ Stored(c) = [i \in 1..MaxEls |-> IF i \in (at + 1)..(at + Len(o)) THEN o[i - at]
                                                ELSE Stored(b)[i]]
            /\ \A n \in Nat : Clean(b, n) /\ at + Len(o) <= n => Clean(c, n)
    BY <2>1, Wrote, Zenon
  <2> QED BY <2>2, Zenon DEF d
<1>4. \A i \in 1..MaxEls : i - at = i
  BY <1>1, <1>2
<1>5. d = Written(b, 0, o)
  BY <1>1
<1> HIDE DEF d
<1> QED BY <1>2, <1>3, <1>4, <1>5

LEMMA Reordered ==
  ASSUME IInv, RInv, NEW o \in Seq(Vals), Len(o) = len,
         heap' = [Array.heap EXCEPT ![Array.data] = Written(Array.heap[Array.data], 0, o)],
         data' = Array.data, len' = Array.len, UNCHANGED <<locked, spans>>
  PROVE  /\ RInv' /\ UNCHANGED len
         /\ Stored(heap[data])' = o \o SubSeq(Stored(heap[data]), len + 1, MaxEls)
<1> DEFINE b == heap[1]
           c == Written(b, 0, o)
<1>1. /\ data = 1 /\ heap = <<b>> /\ Holds(b) /\ len \in Nat /\ len <= Len(b) /\ Len(b) \in Nat
      /\ Len(b) <= MaxEls /\ MaxEls \in Nat /\ (~locked => Clean(b, len))
  BY HeldSeq, SizesAssumption DEF IInv, RInv, Holds
<1>2. Array.heap = <<b>> /\ Array.data = 1 /\ Array.len = len /\ Array.heap[Array.data] = b
  BY <1>1 DEF Array
<1> HIDE DEF b
<1>3. heap' = <<c>> /\ heap'[1] = c /\ data' = 1 /\ len' = len
  BY <1>2
<1>4. /\ Holds(c)
      /\ Stored(c) = [i \in 1..MaxEls |-> IF i \in 1..len THEN o[i] ELSE Stored(b)[i]]
      /\ \A n \in Nat : Clean(b, n) /\ len <= n => Clean(c, n)
  BY <1>1, WroteAll
<1> HIDE DEF c
<1>5. RInv'
  <2>1. ~locked => Clean(c, len)
    BY <1>1, <1>4
  <2> QED BY <1>3, <1>4, <2>1 DEF RInv, Holds, Clean, Buffer
<1>6. Stored(c) = o \o SubSeq(Stored(b), len + 1, MaxEls)
  <2> DEFINE m == Stored(b)
             tail == SubSeq(m, len + 1, MaxEls)
             z == o \o tail
  <2>1. m \in Seq(Vals) /\ Len(m) = MaxEls
    <3>1. m \in [1..MaxEls -> Vals]
      BY <1>1, SizesAssumption DEF Stored, Holds
    <3> HIDE DEF m
    <3> QED BY <1>1, <3>1
  <2> HIDE DEF m
  <2>2. tail \in Seq(Vals) /\ Len(tail) = MaxEls - len
        /\ \A i \in 1..(MaxEls - len) : tail[i] = m[len + i]
    BY <1>1, <2>1
  <2> HIDE DEF tail
  <2>3. z \in Seq(Vals) /\ Len(z) = MaxEls
    BY <1>1, <2>2
  <2>4. ASSUME NEW i \in 1..MaxEls
        PROVE  z[i] = IF i \in 1..len THEN o[i] ELSE m[i]
    <3>1. CASE i <= len
      BY <1>1, <2>2, <3>1
    <3>2. CASE ~(i <= len)
      <4>1. z[i] = tail[i - len] /\ i - len \in 1..(MaxEls - len)
        BY <1>1, <2>2, <3>2
      <4>2. len + (i - len) = i /\ ~(i \in 1..len)
        BY <1>1, <3>2
      <4> QED BY <2>2, <4>1, <4>2
    <3> QED BY <3>1, <3>2
  <2>5. z = [i \in 1..MaxEls |-> z[i]]
    <3> HIDE DEF z
    <3> QED BY <2>3
  <2> HIDE DEF z
  <2>6. Stored(c) = z
    BY <1>4, <2>4, <2>5 DEF m
  <2> QED BY <2>6 DEF z, tail, m
<1>7. Stored(heap'[data']) = Stored(c) /\ Stored(heap[data]) = Stored(b)
  BY <1>1, <1>3 DEF b
<1>8. Stored(heap[data])' = Stored(heap'[data'])
  BY DEF Stored
<1> QED BY <1>3, <1>5, <1>6, <1>7, <1>8

LEMMA ReorderRefines ==
  ASSUME IInv, RInv, reverse \/ sort
  PROVE  RInv' /\ ((UNCHANGED locked /\ (G!GReverse \/ G!GSort)) \/ Same)
<1> DEFINE v == View(heap[1])
<1>1. /\ data = 1 /\ Holds(heap[1]) /\ len \in Nat /\ len <= Len(heap[1]) /\ Len(heap[1]) \in Nat
      /\ heap[1] \in Seq(Vals) /\ MaxEls \in Nat /\ Len(heap[1]) <= MaxEls
  BY HeldSeq, SizesAssumption DEF IInv, RInv, Holds
<1>2. Array.heap[Array.data] = heap[1]
  BY <1>1 DEF Array
<1>0. CASE Array = Thrown
  <2>1. Rest
    BY <1>0 DEF reverse, sort, Changed, Rest
  <2> QED BY <2>1, RestIsSame
<1>3. v \in Seq(Vals) /\ Len(v) = len /\ v = SubSeq(Stored(heap[data]), 1, len)
  <2>1. v \in Seq(Vals) /\ Len(v) = len /\ \A i \in 1..len : v[i] = heap[1][i]
    BY <1>1 DEF View
  <2> DEFINE m == Stored(heap[1])
             u == SubSeq(m, 1, len)
  <2>2. m \in Seq(Vals) /\ Len(m) = MaxEls /\ \A i \in 1..len : m[i] = heap[1][i]
    <3>1. m \in [1..MaxEls -> Vals] /\ \A i \in 1..len : m[i] = heap[1][i]
      BY <1>1, SizesAssumption DEF Stored, Holds
    <3> HIDE DEF m
    <3> QED BY <1>1, <3>1
  <2> HIDE DEF m, v
  <2>3. u \in Seq(Vals) /\ Len(u) = len /\ \A i \in 1..len : u[i] = heap[1][i]
    BY <1>1, <2>2
  <2> HIDE DEF u
  <2>4. u = v
    <3>1. u = [i \in 1..len |-> u[i]] /\ v = [i \in 1..len |-> v[i]]
      BY <2>1, <2>3
    <3>2. \A i \in 1..len : u[i] = v[i]
      BY <2>1, <2>3
    <3> QED BY <3>1, <3>2
  <2> QED BY <1>1, <2>1, <2>4 DEF u, m
<1>4. CASE Array # Thrown /\ reverse
  <2>1. /\ heap' = [Array.heap EXCEPT ![Array.data] = Written(Array.heap[Array.data], 0, Reverse(v))]
        /\ data' = Array.data /\ len' = Array.len /\ UNCHANGED <<locked, spans>>
    BY <1>2, <1>4 DEF reverse, Changed
  <2>2. Reverse(v) \in Seq(Vals) /\ Len(Reverse(v)) = len
    <3> HIDE DEF v
    <3>1. Reverse(v) \in [1..len -> Vals]
      BY <1>1, <1>3 DEF Reverse
    <3> QED BY <1>1, <3>1
  <2> HIDE DEF v
  <2>3. /\ RInv' /\ UNCHANGED len
        /\ Stored(heap[data])' = Reverse(v) \o SubSeq(Stored(heap[data]), len + 1, MaxEls)
    BY <2>1, <2>2, Reordered
  <2>4. G!GReverse
    BY <1>3, <2>3 DEF G!GReverse, G!GReorder, G!Reverse, Reverse
  <2> QED BY <2>1, <2>3, <2>4
<1>5. CASE Array # Thrown /\ sort
  <2>1. /\ heap' = [Array.heap EXCEPT ![Array.data] = Written(Array.heap[Array.data], 0, G!Sorted(v))]
        /\ data' = Array.data /\ len' = Array.len /\ UNCHANGED <<locked, spans>>
    BY <1>2, <1>5 DEF sort, Changed
  <2> HIDE DEF v
  <2>2. G!Sorted(v) \in Seq(Vals) /\ Len(G!Sorted(v)) = len
    BY <1>3, SortedOf
  <2>3. /\ RInv' /\ UNCHANGED len
        /\ Stored(heap[data])' = G!Sorted(v) \o SubSeq(Stored(heap[data]), len + 1, MaxEls)
    BY <2>1, <2>2, Reordered
  <2>4. G!GSort
    BY <1>3, <2>3 DEF G!GSort, G!GReorder
  <2> QED BY <2>1, <2>3, <2>4
<1> QED BY <1>0, <1>4, <1>5

-----------------------------------------------------------------------------
(* Spans: what is written through one is a change of the shared memory. *)

\* What the holder of a span may do, seen from the array
LEMMA PokeRefines ==
  ASSUME IInv, RInv, locked, NEW c, Holds(c), NEW n \in Nat, len <= n, n <= MaxEls,
         heap' = <<c>>, data' = 1, len' = n, UNCHANGED locked
  PROVE  RInv' /\ G!GPoke
<1>1. len \in Nat /\ MaxEls \in Nat /\ heap'[1] = c
  BY SizesAssumption DEF IInv
<1>2. RInv'
  BY <1>1 DEF RInv, Holds, Clean, Buffer
<1>3. Stored(c) \in [1..MaxEls -> Vals]
  BY SizesAssumption DEF Stored, Holds
<1>4. Stored(heap[data])' = Stored(c)
  BY <1>1 DEF Stored
<1>5. G!GPoke
  BY <1>1, <1>3, <1>4 DEF G!GPoke
<1> QED BY <1>2, <1>5

LEMMA ThroughRefines ==
  ASSUME IInv, RInv, NEW k \in DOMAIN spans, NEW w \in Seq(Vals), Len(w) = spans[k].len,
         Through(spans[k], w)
  PROVE  RInv' /\ UNCHANGED locked /\ G!GPoke
<1> DEFINE s == spans[k]
           c == Written(heap[1], s.start, w)
<1>1. /\ data = 1 /\ heap = <<heap[1]>> /\ len \in Nat /\ len <= MaxEls /\ Holds(heap[1])
      /\ Len(heap[1]) \in Nat
  BY HeldSeq, SizesAssumption DEF IInv, RInv, Holds
<1>2. locked /\ s.buf = 1 /\ s.start \in Nat /\ s.start + Len(w) <= Len(heap[1])
  BY SpanAt
<1>3. /\ heap' = [heap EXCEPT ![s.buf] = Written(heap[s.buf], s.start, w)]
      /\ UNCHANGED <<data, len, locked, spans>>
  BY DEF Through
<1>4. heap' = <<c>> /\ data' = 1 /\ len' = len
  BY <1>1, <1>2, <1>3
<1> HIDE DEF s
<1>5. Holds(c)
  BY <1>1, <1>2, Wrote
<1> HIDE DEF c
<1>6. len <= len
  BY <1>1
<1> QED BY <1>1, <1>2, <1>3, <1>4, <1>5, <1>6, PokeRefines

LEMMA WrittenSeq ==
  ASSUME NEW e \in Seq(Vals), NEW at \in Int, NEW w \in Seq(Vals)
  PROVE  Written(e, at, w) \in Seq(Vals) /\ Len(Written(e, at, w)) = Len(e)
<1> DEFINE c == Written(e, at, w)
<1>1. Len(e) \in Nat /\ Len(w) \in Nat /\ DOMAIN e = 1..Len(e)
  OBVIOUS
<1>2. /\ c = [i \in 1..Len(e) |-> c[i]]
      /\ \A i \in 1..Len(e) : c[i] = IF i \in (at + 1)..(at + Len(w)) THEN w[i - at] ELSE e[i]
  BY <1>1 DEF Written
<1>3. ASSUME NEW i \in 1..Len(e)
      PROVE  c[i] \in Vals
  <2> HIDE DEF c
  <2>1. CASE i \in (at + 1)..(at + Len(w))
    <3>1. i - at \in 1..Len(w)
      BY <1>1, <2>1
    <3> QED BY <1>2, <2>1, <3>1
  <2>2. CASE ~(i \in (at + 1)..(at + Len(w)))
    BY <1>2, <2>2
  <2> QED BY <2>1, <2>2
<1> HIDE DEF c
<1>4. c \in [1..Len(e) -> Vals]
  BY <1>2, <1>3
<1>5. c \in Seq(Vals) /\ Len(c) = Len(e)
  BY <1>1, <1>4
<1> QED BY <1>5 DEF c

LEMMA ElementsOf ==
  ASSUME IInv, RInv, NEW k \in DOMAIN spans
  PROVE  Elements(spans[k]) \in Seq(Vals) /\ Len(Elements(spans[k])) = spans[k].len
<1> DEFINE s == spans[k]
<1>1. s.buf = 1 /\ s.start \in Nat /\ s.len \in Nat /\ s.start + s.len <= Len(heap[1])
  BY SpanAt
<1>2. heap[1] \in Seq(Vals) /\ Len(heap[1]) \in Nat
  BY HeldSeq DEF RInv
<1> HIDE DEF s
<1>3. SubSeq(heap[1], s.start + 1, s.start + s.len) \in Seq(Vals)
      /\ Len(SubSeq(heap[1], s.start + 1, s.start + s.len)) = s.len
  BY <1>1, <1>2
<1>4. Elements(s) = SubSeq(heap[1], s.start + 1, s.start + s.len)
  BY <1>1 DEF Elements
<1> QED BY <1>3, <1>4 DEF s

LEMMA RepeatedSeq ==
  ASSUME NEW v \in Vals, NEW n \in Nat
  PROVE  Repeated(v, n) \in Seq(Vals)
<1>1. Repeated(v, n) \in [1..n -> Vals]
  BY DEF Repeated
<1> QED BY <1>1

\* What is written through a span is of the elements' kind and of the span's length.
LEMMA SpanWriteRefines ==
  ASSUME IInv, RInv, NEW k \in DOMAIN spans,
         \/ \E i \in 0..MaxEls, v \in Vals : spanSetEl(spans[k], i, v)
         \/ \E v \in Vals, start \in Starts, length \in Lengths :
              spanFill(spans[k], v, start, length)
         \/ \E array \in Given, offset \in -1..MaxEls : spanSet(spans[k], array, offset)
         \/ spanReverse(spans[k])
         \/ spanSort(spans[k])
  PROVE  RInv' /\ ((UNCHANGED locked /\ G!GPoke) \/ Same)
<1> DEFINE s == spans[k]
           e == Elements(s)
<1>1. e \in Seq(Vals) /\ Len(e) = s.len /\ s.len \in Nat
  BY ElementsOf, SpanAt
<1> DEFINE Right(w) == w \in Seq(Vals) /\ Len(w) = s.len
<1>2. ASSUME NEW w, Right(w), Through(s, w)
      PROVE  RInv' /\ ((UNCHANGED locked /\ G!GPoke) \/ Same)
  BY <1>2, ThroughRefines
<1>3. ASSUME NEW i \in 0..MaxEls, NEW v \in Vals, spanSetEl(s, i, v)
      PROVE  \E w : Right(w) /\ Through(s, w)
  <2>1. Through(s, [e EXCEPT ![i + 1] = v])
    BY <1>3 DEF spanSetEl
  <2> HIDE DEF s, e
  <2>2. Right([e EXCEPT ![i + 1] = v])
    <3> DEFINE x == [e EXCEPT ![i + 1] = v]
    <3>1. e \in [1..Len(e) -> Vals]
      BY <1>1
    <3>2. x \in [1..Len(e) -> Vals]
      BY <3>1
    <3> HIDE DEF x
    <3>3. x \in Seq(Vals) /\ Len(x) = Len(e)
      BY <1>1, <3>2
    <3> QED BY <1>1, <3>3 DEF x
  <2> QED BY <2>1, <2>2
<1>4. ASSUME NEW v \in Vals, NEW start \in Starts, NEW length \in Lengths,
             spanFill(s, v, start, length)
      PROVE  \E w : Right(w) /\ Through(s, w)
  <2> DEFINE from == startFix(start, s.len)
             l == Or(length, s.len)
             n == IF from < 0 THEN 0 ELSE Clipped(from, l, s.len)
             w == Written(e, from, Repeated(v, n))
  <2>1. Through(s, w)
    BY <1>4 DEF spanFill
  <2> HIDE DEF s, e
  <2>2. from \in Int
    BY <1>1, ArgumentsAssumption DEF startFix
  <2>3. l \in Int
    BY <1>1, ArgumentsAssumption DEF Or
  <2> HIDE DEF from, l
  <2>4. n \in Nat
    BY <1>1, <2>2, <2>3 DEF Clipped
  <2> HIDE DEF n
  <2>5. Right(w)
    BY <1>1, <2>2, <2>4, RepeatedSeq, WrittenSeq
  <2> QED BY <2>1, <2>5
<1>5. ASSUME NEW array \in Given, NEW offset \in -1..MaxEls, spanSet(s, array, offset)
      PROVE  (\E w : Right(w) /\ Through(s, w)) \/ Rest
  <2>1. CASE offset < 0 \/ offset + Len(array) > s.len
    BY <1>5, <2>1 DEF spanSet, Rest
  <2>2. CASE ~(offset < 0 \/ offset + Len(array) > s.len)
    <3> DEFINE w == Written(e, offset, array)
    <3>1. Through(s, w)
      BY <1>5, <2>2 DEF spanSet
    <3> HIDE DEF s, e
    <3>2. Right(w)
      BY <1>1, WrittenSeq, ArgumentsAssumption
    <3> QED BY <3>1, <3>2
  <2> QED BY <2>1, <2>2
<1>6. ASSUME spanReverse(s) \/ spanSort(s)
      PROVE  \E w : Right(w) /\ Through(s, w)
  <2>1. Through(s, Reverse(e)) \/ Through(s, G!Sorted(e))
    BY <1>6 DEF spanReverse, spanSort
  <2> HIDE DEF s, e
  <2>2. Right(Reverse(e))
    <3> DEFINE r == Reverse(e)
    <3>1. r \in [1..Len(e) -> Vals]
      BY <1>1 DEF Reverse
    <3> HIDE DEF r
    <3>2. r \in Seq(Vals) /\ Len(r) = Len(e)
      BY <1>1, <3>1
    <3> QED BY <1>1, <3>2 DEF r
  <2>3. Right(G!Sorted(e))
    BY <1>1, SortedOf
  <2> QED BY <2>1, <2>2, <2>3
<1>7. (\E w : Right(w) /\ Through(s, w)) \/ Rest
  BY <1>3, <1>4, <1>5, <1>6
<1> QED BY <1>2, <1>7, RestIsSame

\* Elements read one by one while those before them are being written are still elements.
LEMMA CopiedHolds ==
  ASSUME NEW b, Holds(b), NEW s, s.len \in Nat, s.start \in Nat, s.start + s.len <= Len(b),
         NEW offset \in Nat
  PROVE  Holds(Copied(b, s, offset)) /\ Len(Copied(b, s, offset)) = Len(b)
<1> DEFINE n == s.len
           N == 1..Len(b)
           Put(l, k) == [l EXCEPT ![offset + k] = l[s.start + k]]
           Def(f, m) == f = [k \in 0..m |-> IF k = 0 THEN b ELSE Put(f[k - 1], k)]
           upTo == CHOOSE f : Def(f, n)
<1>1. b \in [N -> Vals] /\ Len(b) \in Nat
  BY DEF Holds, Buffer
<1>2. ASSUME NEW l \in [N -> Vals], NEW k \in 1..n
      PROVE  Put(l, k) \in [N -> Vals]
  <2>1. s.start + k \in N
    BY <1>1
  <2> QED BY <2>1
<1>3. \E f : Def(f, n)
  <2> DEFINE S == {m \in Nat : \E f : Def(f, m)}
  <2>1. 0 \in S
    <3> DEFINE g == [k \in 0..0 |-> b]
    <3>1. Def(g, 0)
      OBVIOUS
    <3> QED BY <3>1
  <2>2. ASSUME NEW m \in Nat, m \in S
        PROVE  m + 1 \in S
    <3>1. PICK f : Def(f, m)
      BY <2>2
    <3> DEFINE g == [k \in 0..(m + 1) |-> IF k = m + 1 THEN Put(f[m], m + 1) ELSE f[k]]
    <3>2. ASSUME NEW k \in 0..(m + 1)
          PROVE  g[k] = IF k = 0 THEN b ELSE Put(g[k - 1], k)
      <4>1. CASE k = m + 1
        <5>1. k - 1 = m /\ m \in 0..(m + 1) /\ m # m + 1 /\ k # 0
          BY <4>1
        <5>2. g[k] = Put(f[m], m + 1) /\ g[m] = f[m]
          BY <4>1, <5>1
        <5> HIDE DEF g, Put
        <5> QED BY <4>1, <5>1, <5>2
      <4>2. CASE k # m + 1
        <5>1. k \in 0..m /\ g[k] = f[k]
          BY <4>2
        <5>2. f[k] = IF k = 0 THEN b ELSE Put(f[k - 1], k)
          <6> HIDE DEF Put, g
          <6> QED BY <3>1, <5>1
        <5>3. k # 0 => g[k - 1] = f[k - 1]
          BY <5>1
        <5> HIDE DEF g, Put
        <5> QED BY <5>1, <5>2, <5>3
      <4> QED BY <4>1, <4>2
    <3>3. Def(g, m + 1)
      <4>1. g = [k \in 0..(m + 1) |-> g[k]]
        OBVIOUS
      <4> HIDE DEF g, Put
      <4> QED BY <3>2, <4>1
    <3> HIDE DEF g, Def
    <3> QED BY <3>3
  <2>3. Nat \subseteq S
    <3> HIDE DEF S
    <3> QED BY <2>1, <2>2, NatInduct
  <2> HIDE DEF Def
  <2> QED BY <2>3
<1>4. Def(upTo, n)
  <2> HIDE DEF Def
  <2> QED BY <1>3
<1>5. Copied(b, s, offset) = [i \in DOMAIN b |-> upTo[n][i]]
  BY DEF Copied
<1> HIDE DEF upTo, Put
<1>6. \A k \in 0..n : upTo[k] \in [N -> Vals]
  <2> DEFINE T == {m \in Nat : m <= n => upTo[m] \in [N -> Vals]}
  <2>0. \A k \in 0..n : upTo[k] = IF k = 0 THEN b ELSE Put(upTo[k - 1], k)
    BY <1>4
  <2>1. 0 \in T
    BY <1>1, <2>0
  <2>2. ASSUME NEW m \in Nat, m \in T
        PROVE  m + 1 \in T
    <3> SUFFICES ASSUME m + 1 <= n
                 PROVE  upTo[m + 1] \in [N -> Vals]
      OBVIOUS
    <3>1. m + 1 \in 0..n /\ m + 1 # 0 /\ (m + 1) - 1 = m /\ m <= n /\ m + 1 \in 1..n
      OBVIOUS
    <3>2. upTo[m] \in [N -> Vals]
      BY <2>2, <3>1
    <3>3. upTo[m + 1] = Put(upTo[m], m + 1)
      BY <2>0, <3>1
    <3> QED BY <1>2, <3>1, <3>2, <3>3
  <2>3. Nat \subseteq T
    <3> HIDE DEF T
    <3> QED BY <2>1, <2>2, NatInduct
  <2> QED BY <2>3
<1> DEFINE c == Copied(b, s, offset)
<1>7. c = [i \in N |-> upTo[n][i]] /\ upTo[n] \in [N -> Vals]
  <2>1. DOMAIN b = N
    BY <1>1
  <2> QED BY <1>5, <1>6, <2>1
<1> HIDE DEF c
<1>8. c \in [N -> Vals]
  BY <1>7
<1>9. c \in Seq(Vals) /\ Len(c) = Len(b)
  BY <1>1, <1>8
<1>10. Holds(c)
  BY <1>1, <1>9, SeqBuffer DEF Holds
<1> QED BY <1>9, <1>10 DEF c

LEMMA SetFromSpanRefines ==
  ASSUME IInv, RInv, NEW k \in DOMAIN spans, NEW offset \in 0..MaxEls,
         setFromSpan(spans[k], offset)
  PROVE  RInv' /\ ((UNCHANGED locked /\ G!GPoke) \/ Same)
<1> DEFINE s == spans[k]
           r == offset + s.len
           a == assertSpace(r)
           x == a.heap[a.data]
<1>1. /\ s.len \in Nat /\ s.start \in Nat /\ s.start + s.len <= Len(heap[1]) /\ locked
      /\ len \in Nat /\ offset \in Nat /\ MaxEls \in Nat /\ r \in Nat /\ r <= MaxEls
  BY SpanAt, SizesAssumption DEF IInv, setFromSpan
<1>2. CASE a = Thrown
  <2>1. Rest
    BY <1>2 DEF setFromSpan, Changed, Rest
  <2> QED BY <2>1, RestIsSame
<1>3. CASE a # Thrown
  <2>1. /\ heap' = [a.heap EXCEPT ![a.data] = Copied(x, s, offset)]
        /\ data' = a.data /\ len' = a.len /\ UNCHANGED <<locked, spans>>
    BY <1>3 DEF setFromSpan, Changed
  <2>2. PICK b : /\ a = [heap |-> <<b>>, data |-> 1, len |-> Longer(r)]
                 /\ Holds(b) /\ Longer(r) <= Len(b) /\ b = heap[1]
    <3> HIDE DEF r
    <3> QED BY <1>1, <1>3, SpaceMakes
  <2>3. a.heap = <<b>> /\ a.data = 1 /\ a.len = Longer(r) /\ x = b
    BY <2>2
  <2> HIDE DEF a, x, s
  <2> DEFINE c == Copied(b, s, offset)
  <2>4. heap' = <<c>> /\ data' = 1 /\ len' = Longer(r) /\ UNCHANGED locked
    BY <2>1, <2>3
  <2>5. Holds(c)
    BY <1>1, <2>2, CopiedHolds
  <2>6. Longer(r) \in Nat /\ len <= Longer(r) /\ Longer(r) <= MaxEls
    <3> HIDE DEF r
    <3>1. Longer(r) = (IF len < r THEN r ELSE len) /\ len <= Len(b) /\ Len(b) <= MaxEls
      BY <2>2 DEF Longer, IInv, Holds
    <3>2. Len(b) \in Nat
      BY <2>2, HeldSeq
    <3> QED BY <1>1, <3>1, <3>2
  <2> HIDE DEF c, r
  <2> QED BY <1>1, <2>4, <2>5, <2>6, PokeRefines
<1> QED BY <1>2, <1>3

LEMMA NextRefines == IInv /\ RInv /\ [Next]_vars => RInv' /\ [G!GNext]_G!gvars
<1> SUFFICES ASSUME IInv, RInv, [Next]_vars
             PROVE  RInv' /\ [G!GNext]_G!gvars
  OBVIOUS
<1> DEFINE Step == [G!GNext]_G!gvars
           Goal == RInv' /\ Step
<1>0. Same => Step
  BY DEF Same
<1>1. ASSUME NEW i \in -1..MaxEls, NEW v \in Vals, setEl(i, v)
      PROVE  Goal
  <2>1. RInv' /\ ((G!GSet(<<v>>, i) /\ i \in 0..(MaxEls - 1) /\ UNCHANGED locked) \/ Same)
    BY <1>1, SetElRefines
  <2> QED BY <1>0, <2>1 DEF G!GNext
<1>2. ASSUME NEW v \in Vals, NEW start \in Starts, NEW length \in Lengths, fill(v, start, length)
      PROVE  Goal
  <2>1. /\ RInv'
        /\ \/ \E at, n \in 0..MaxEls : at + n <= MaxEls /\ G!GFill(v, at, n) /\ UNCHANGED locked
           \/ Same
    BY <1>2, FillRefines
  <2> QED BY <1>0, <2>1 DEF G!GNext
<1>3. ASSUME NEW array \in Given, NEW offset \in -1..MaxEls, set(array, offset)
      PROVE  Goal
  <2>1. /\ RInv'
        /\ \/ /\ offset \in 0..MaxEls /\ offset + Len(array) <= MaxEls
              /\ G!GSet(array, offset) /\ UNCHANGED locked
           \/ Same
    BY <1>3, SetRefines
  <2> QED BY <1>0, <2>1 DEF G!GNext
<1>4. ASSUME reverse \/ sort
      PROVE  Goal
  <2>1. RInv' /\ ((UNCHANGED locked /\ (G!GReverse \/ G!GSort)) \/ Same)
    BY <1>4, ReorderRefines
  <2> QED BY <1>0, <2>1 DEF G!GNext
<1>5. ASSUME NEW n \in 0..MaxEls, capacity(n)
      PROVE  Goal
  <2>1. RInv' /\ ((~locked /\ UNCHANGED locked /\ G!GCapacity(n)) \/ Same)
    BY <1>5, CapacityRefines
  <2> QED BY <1>0, <2>1 DEF G!GNext
<1>6. ASSUME NEW start \in Starts, NEW length \in Lengths,
             span(start, length) \/ readonlySpan(start, length)
      PROVE  Goal
  <2>1. locked' = TRUE /\ UNCHANGED <<heap, data, len>>
    BY <1>6 DEF span, readonlySpan, Spanning
  <2>2. RInv'
    BY <2>1 DEF RInv, Holds, Clean, Buffer
  <2>3. G!GShare
    BY <2>1 DEF G!GShare, Stored
  <2> QED BY <2>2, <2>3 DEF G!GNext
<1>7. ASSUME NEW start \in Starts, NEW length \in Lengths, NEW k \in DOMAIN spans,
             \/ fixedSpan(spans[k], start, length)
             \/ fixedReadonlySpan(spans[k], start, length)
             \/ readonlyReadonlySpan(spans[k], start, length)
      PROVE  Goal
  <2>1. Rest
    BY <1>7 DEF fixedSpan, fixedReadonlySpan, readonlyReadonlySpan, OfSpan, Rest
  <2> QED BY <1>0, <2>1, RestIsSame
<1>8. ASSUME NEW k \in DOMAIN spans, NEW offset \in 0..MaxEls, setFromSpan(spans[k], offset)
      PROVE  Goal
  <2>1. RInv' /\ ((UNCHANGED locked /\ G!GPoke) \/ Same)
    BY <1>8, SetFromSpanRefines
  <2> QED BY <1>0, <2>1 DEF G!GNext
<1>9. ASSUME NEW k \in DOMAIN spans,
             RInv' /\ ((UNCHANGED locked /\ G!GPoke) \/ Same)
      PROVE  Goal
  BY <1>0, <1>9 DEF G!GNext
<1>11. ASSUME NEW k \in DOMAIN spans, NEW i \in 0..MaxEls, NEW v \in Vals,
              spanSetEl(spans[k], i, v)
       PROVE  Goal
  BY <1>9, <1>11, SpanWriteRefines
<1>12. ASSUME NEW k \in DOMAIN spans, NEW v \in Vals, NEW start \in Starts,
              NEW length \in Lengths, spanFill(spans[k], v, start, length)
       PROVE  Goal
  BY <1>9, <1>12, SpanWriteRefines
<1>13. ASSUME NEW k \in DOMAIN spans, NEW array \in Given, NEW offset \in -1..MaxEls,
              spanSet(spans[k], array, offset)
       PROVE  Goal
  BY <1>9, <1>13, SpanWriteRefines
<1>14. ASSUME NEW k \in DOMAIN spans, spanReverse(spans[k]) \/ spanSort(spans[k])
       PROVE  Goal
  BY <1>9, <1>14, SpanWriteRefines
<1>10. ASSUME UNCHANGED vars
       PROVE  Goal
  <2>1. Rest
    BY <1>10 DEF vars, Rest
  <2> QED BY <1>0, <2>1, RestIsSame
<1> HIDE DEF Goal
<1>15. ASSUME NEW k \in DOMAIN spans,
              \/ \E offset \in 0..MaxEls : setFromSpan(spans[k], offset)
              \/ /\ spans[k].kind = "fixed"
                 /\ \/ \E i \in 0..MaxEls, v \in Vals : spanSetEl(spans[k], i, v)
                    \/ \E v \in Vals, start \in Starts, length \in Lengths :
                         spanFill(spans[k], v, start, length)
                    \/ \E array \in Given, offset \in -1..MaxEls :
                         spanSet(spans[k], array, offset)
                    \/ spanReverse(spans[k])
                    \/ spanSort(spans[k])
       PROVE  Goal
  BY <1>8, <1>11, <1>12, <1>13, <1>14, <1>15, Zenon
<1>16. ASSUME NEW start \in Starts, NEW length \in Lengths,
              \/ span(start, length)
              \/ readonlySpan(start, length)
              \/ \E k \in DOMAIN spans : \/ fixedSpan(spans[k], start, length)
                                        \/ fixedReadonlySpan(spans[k], start, length)
                                        \/ readonlyReadonlySpan(spans[k], start, length)
       PROVE  Goal
  BY <1>6, <1>7, <1>16, Zenon
<1>17. ASSUME Next
       PROVE  Goal
  BY <1>1, <1>2, <1>3, <1>4, <1>5, <1>15, <1>16, <1>17 DEF Next
<1>18. Goal
  BY <1>10, <1>17
<1> QED BY <1>18 DEF Goal

LEMMA InitRefines == Init => RInv /\ G!GInit
<1> SUFFICES ASSUME Init
             PROVE  RInv /\ G!GInit
  OBVIOUS
<1>1. PICK length \in 0..MaxEls, capacity_ \in {None} \cup 0..MaxEls :
        /\ Room(length, capacity_) \in 0..MaxEls
        /\ heap = <<Zeros(Room(length, capacity_))>>
        /\ len = length
  BY DEF Init
<1> DEFINE r == Room(length, capacity_)
<1>2. r \in Nat /\ r <= MaxEls /\ length \in 0..MaxEls
  BY <1>1, SizesAssumption
<1>3. heap = <<Zeros(r)>> /\ heap[1] = Zeros(r) /\ data = 1 /\ locked = FALSE /\ len = length
  BY <1>1 DEF Init
<1> HIDE DEF r
<1>4. Buffer(Zeros(r)) /\ Len(Zeros(r)) = r /\ \A i \in 1..r : Zeros(r)[i] = 0
  BY <1>2, ZerosBuffer DEF Zeros
<1>5. RInv
  BY <1>2, <1>3, <1>4, SizesAssumption DEF RInv, Holds, Clean
<1>6. Stored(Zeros(r)) = [i \in 1..MaxEls |-> 0]
  <2>1. \A i \in 1..MaxEls : (IF i <= Len(Zeros(r)) THEN Zeros(r)[i] ELSE 0) = 0
    BY <1>2, <1>4, SizesAssumption
  <2> QED BY <2>1 DEF Stored
<1>7. G!GInit
  BY <1>2, <1>3, <1>6 DEF G!GInit
<1> QED BY <1>5, <1>7

(***************************************************************************)
(* The array and everything its spans do is what IReadWriteArray.ts        *)
(* promises: each call of ScalingTyped, FixedTyped and ReadonlyTyped is    *)
(* the operation of the same name on a memory without end, or throws and   *)
(* changes nothing, wherever the buffer was replaced in between.           *)
(***************************************************************************)
THEOREM ImplementsMemory == Spec => ImplementsGrowable
<1>1. Init => IInv /\ RInv /\ G!GInit
  BY InitHolds, InitRefines
<1>2. IInv /\ RInv /\ [Next]_vars => (IInv /\ RInv)' /\ [G!GNext]_G!gvars
  BY NextKeeps, NextRefines
<1> QED BY <1>1, <1>2, PTL DEF Spec, ImplementsGrowable, G!GSpec
=============================================================================
