---------------------------- MODULE HashContract ----------------------------
(***************************************************************************)
(* What a streaming hash promises its caller: the IHash interface, with    *)
(* the doc comments it carries in src/src/crypto/interfaces/IHash.ts.  An  *)
(* object of the class is the message written to it since it was built or  *)
(* last reset, and nothing else: how the message was cut into write()      *)
(* calls, and what was done to any other object, does not show in a        *)
(* digest.  The classes under src/src/crypto implement it with a block     *)
(* buffer; their modules instantiate this one as their abstraction.        *)
(***************************************************************************)
EXTENDS Naturals, Sequences

CONSTANTS
  Ctx,        \* the hash objects a caller holds, all of one class
  Data,       \* the byte arrays a caller passes to write()
  MaxLen,     \* bound: the longest message a caller builds
  Digest(_)   \* the digest of a message: what the algorithm is a name for

VARIABLES
  msg,        \* msg[c]: everything written to c since it was last empty
  spent,      \* the objects whose sumIn() was called and not followed by reset()
  out         \* what the last call returned: {} for void, else one record

cvars == <<msg, spent, out>>

Returned(m) == {[msg |-> m, digest |-> Digest(m)]}

CInit ==
  /\ msg = [c \in Ctx |-> <<>>]
  /\ spent = {}
  /\ out = {}

CWrite(c, data) ==
  /\ c \notin spent
  /\ Len(msg[c]) + Len(data) <= MaxLen
  /\ msg' = [msg EXCEPT ![c] = @ \o data]
  /\ out' = {}
  /\ UNCHANGED spent

\* "Sum the hash with all content written so far (does not mutate state)"
CSum(c) ==
  /\ c \notin spent
  /\ out' = Returned(msg[c])
  /\ UNCHANGED <<msg, spent>>

\* "mutates internal state ... Use if you won't need the obj again"
CSumIn(c) ==
  /\ c \notin spent
  /\ out' = Returned(msg[c])
  /\ spent' = spent \union {c}
  /\ UNCHANGED msg

\* "Set hash to initial state. Any past writes will be forgotten"
CReset(c) ==
  /\ msg' = [msg EXCEPT ![c] = <<>>]
  /\ spent' = spent \ {c}
  /\ out' = {}

\* d := c.clone(), "Create a copy of the current context (uses different memory)"
CClone(c, d) ==
  /\ c # d
  /\ c \notin spent
  /\ msg' = [msg EXCEPT ![d] = msg[c]]
  /\ spent' = spent \ {d}
  /\ out' = {}

\* d := c.newEmpty(), "Create an empty IHash using the same algorithm"
CNewEmpty(c, d) ==
  /\ c # d
  /\ msg' = [msg EXCEPT ![d] = <<>>]
  /\ spent' = spent \ {d}
  /\ out' = {}

CNext ==
  \E c \in Ctx :
    \/ \E data \in Data : CWrite(c, data)
    \/ CSum(c)
    \/ CSumIn(c)
    \/ CReset(c)
    \/ \E d \in Ctx : CClone(c, d) \/ CNewEmpty(c, d)

CSpec == CInit /\ [][CNext]_cvars
=============================================================================
