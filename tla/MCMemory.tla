------------------------------ MODULE MCMemory ------------------------------
(***************************************************************************)
(* Typed arrays whose buffer grows under the spans of it, and numbers      *)
(* mounted on one array of words.  A behaviour is of the one or the other. *)
(* Half limbs have two bits, numbers one, two and three limbs of four;     *)
(* elements have two bytes, buffers up to four elements, with two spans.   *)
(***************************************************************************)
EXTENDS TypedArrays, Numbers

VARIABLES of

LimbSamples == {0, 6, 15}
LimbsOf == [U32 |-> 1, U64 |-> 2, U128 |-> 3, U256 |-> 3, U512 |-> 3]
AmountsAround == {0, 1, 3, 4, 5, 8, 9, 12, 13}
IntsAround == {-200, -17, -8, -1, 0, 7, 20, 255}
DivisorsSmall == {1, 2, 3, 5}

StartsSmall == {None, -1, 1, 2}
LengthsSmall == {None, 0, 2}
GivenSmall == {<<>>, <<1, 0>>}

AllInit ==
  /\ of \in {"numbers", "arrays"}
  /\ NInit /\ (of = "arrays" => kind = "U32" /\ mem = [i \in 0..(Size - 1) |-> 0])
  /\ Init /\ (of = "numbers" => len = 0 /\ heap = << <<>> >>)
AllNext == /\ UNCHANGED of
           /\ \/ of = "numbers" /\ NNext /\ UNCHANGED vars
              \/ of = "arrays" /\ Next /\ UNCHANGED nVars
AllSpec == AllInit /\ [][AllNext]_<<of, nVars, vars>>
=============================================================================
