------------------------------ MODULE MCMdHash ------------------------------
(* MdHash on two objects and blocks of four bytes. *)
EXTENDS MdHash

\* No byte, less than a block, one short of a block, and more than a block; the
\* values include the padding's own bytes 0 and 128.
MCData == {<<>>, <<7>>, <<128, 0, 7>>, <<1, 2, 3, 4, 5, 6>>}
=============================================================================
