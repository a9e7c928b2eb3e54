--------------------------- MODULE GrowableArray ---------------------------
(***************************************************************************)
(* What a ScalingTyped array promises (IReadWriteArray): memory without    *)
(* end, zero until it is written, and a length that grows to what is       *)
(* written and is cut only by a smaller capacity.  Where the elements are  *)
(* kept, and how often they were copied to larger buffers, does not show.  *)
(* Once memory is shared with a span its holder may write what it likes,   *)
(* and set() may copy from it: from then on any element may change.        *)
(***************************************************************************)
EXTENDS Integers, Sequences, SequencesExt

CONSTANTS Vals,     \* values of an element, 0 among them
          MaxEls,   \* bound: elements that are looked at
          Given     \* the arrays passed to set()

VARIABLES store, length, shared
gvars == <<store, length, shared>>

GInit == /\ store = [i \in 1..MaxEls |-> 0]
         /\ length \in 0..MaxEls
         /\ shared = FALSE

GSet(w, at) ==
    /\ store' = [i \in 1..MaxEls |-> IF i \in (at + 1)..(at + Len(w)) THEN w[i - at] ELSE store[i]]
    /\ length' = (IF length < at + Len(w) THEN at + Len(w) ELSE length)

GFill(v, at, n) == at < length /\ GSet([i \in 1..n |-> v], at)

GReorder(Ordered(_)) ==
    /\ store' = Ordered(SubSeq(store, 1, length)) \o SubSeq(store, length + 1, MaxEls)
    /\ UNCHANGED length
GReverse == GReorder(Reverse)
\* The elements in ascending order, by a rearrangement of their places.
Ascending(s, p) == \A i, j \in DOMAIN s : i < j => s[p[i]] <= s[p[j]]
Rearrangements(n) == {p \in [1..n -> 1..n] : \A k \in 1..n : \E i \in 1..n : p[i] = k}
Sorted(s) == LET p == CHOOSE q \in Rearrangements(Len(s)) : Ascending(s, q)
             IN  [i \in 1..Len(s) |-> s[p[i]]]
GSort == GReorder(Sorted)

\* capacity = n
GCapacity(n) ==
    /\ length' = (IF length < n THEN length ELSE n)
    /\ store' = [i \in 1..MaxEls |-> IF i <= n THEN store[i] ELSE 0]

GShare == shared' = TRUE /\ UNCHANGED <<store, length>>
GPoke == /\ shared
         /\ store' \in [1..MaxEls -> Vals]
         /\ length' \in length..MaxEls

GNext ==
    \/ GShare
    \/ /\ UNCHANGED shared
       /\ \/ \E at \in 0..(MaxEls - 1), v \in Vals : GSet(<<v>>, at)
          \/ \E at \in 0..MaxEls, w \in Given : at + Len(w) <= MaxEls /\ GSet(w, at)
          \/ \E at, n \in 0..MaxEls, v \in Vals : at + n <= MaxEls /\ GFill(v, at, n)
          \/ GReverse \/ GSort
          \/ ~shared /\ \E n \in 0..MaxEls : GCapacity(n)
          \/ GPoke

GSpec == GInit /\ [][GNext]_gvars
=============================================================================
