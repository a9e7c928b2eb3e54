-------------------------------- MODULE Arx ---------------------------------
(***************************************************************************)
(* Speck and Simon of src/crypto/sym, on words of W bits: W is 32 in       *)
(* Speck64.ts and Simon64.ts, 64 in Speck128.ts and Simon128.ts.  A block  *)
(* is two words; m counts the words of the key.                            *)
(***************************************************************************)
EXTENDS Words

\* Speck: the first word of the key is the round key, the others take turns.
SpeckTurn(s, i) ==
    LET turn == 2 + (i % (Len(s) - 1))
        x == (Rotr(s[turn], 8) ++ s[1]) \oplus Num(i)
    IN  [s EXCEPT ![turn] = x, ![1] = Rotl(s[1], 3) \oplus x]
SpeckSchedule(k, rounds) ==
    LET S[i \in 0..(rounds - 1)] ==
            IF i = 0 THEN [left |-> k, rk |-> <<k[1]>>]
            ELSE LET s == S[i - 1]
                     t == SpeckTurn(s.left, i - 1)
                 IN  [left |-> t, rk |-> Append(s.rk, t[1])]
    IN  S[rounds - 1]

SpeckEncrypt(rk, b) ==
    LET F[r \in 0..Len(rk)] ==
            IF r = 0 THEN b
            ELSE LET d == F[r - 1]
                     x == (Rotr(d[2], 8) ++ d[1]) \oplus rk[r]
                 IN  <<Rotl(d[1], 3) \oplus x, x>>
    IN  F[Len(rk)]
SpeckDecrypt(rk, b) ==
    LET F[r \in 0..Len(rk)] ==
            IF r = Len(rk) THEN b
            ELSE LET d == F[r + 1]
                     x == Rotr(d[1] \oplus d[2], 3)
                 IN  <<x, Rotl((d[2] \oplus rk[r + 1]) -- x, 8)>>
    IN  F[0]

\* Simon: a round key is made of the one m before it and of the one before it,
\* of the constant c and of the next bit of z.
SimonNext(R, m, bit) ==
    LET i == Len(R) + 1
        mixed == R[i - m] \oplus (Rotr(R[i - 1], 3) \oplus Rotr(R[i - 1], 4))
    IN  (Not({0, 1}) \oplus (IF bit = 1 THEN {0} ELSE {}))
        \oplus (IF m = 4 THEN mixed \oplus (R[i - 3] \oplus Rotr(R[i - 3], 1)) ELSE mixed)
SimonSchedule(k, rounds, z) ==
    LET m == Len(k)
        R[i \in m..rounds] ==
            IF i = m THEN k
            ELSE LET s == R[i - 1] IN Append(s, SimonNext(s, m, z[i - m]))
    IN  [left |-> SubSeq(R[rounds], rounds - m + 1, rounds), rk |-> R[rounds]]

F(x) == (Rotl(x, 1) \cap Rotl(x, 8)) \oplus Rotl(x, 2)
Round(d, rk, r) == IF r % 2 = 1 THEN <<d[1] \oplus (F(d[2]) \oplus rk[r]), d[2]>>
                                ELSE <<d[1], d[2] \oplus (F(d[1]) \oplus rk[r])>>
\* An odd last round ends with the words in each other's place.
Crossed(b, rk) == IF Len(rk) % 2 = 1 THEN <<b[2], b[1]>> ELSE b

SimonEncrypt(rk, b) ==
    LET E[r \in 0..Len(rk)] ==
            IF r = 0 THEN b ELSE LET d == E[r - 1] IN Round(d, rk, r)
    IN  Crossed(E[Len(rk)], rk)
SimonDecrypt(rk, b) ==
    LET E[r \in 0..Len(rk)] ==
            IF r = Len(rk) THEN Crossed(b, rk)
            ELSE LET d == E[r + 1] IN Round(d, rk, r + 1)
    IN  E[0]
=============================================================================
