-------------------------------- MODULE Bytes --------------------------------
(***************************************************************************)
(* Bytes as the ciphers use them: exclusive or, and the field GF(2^8) that  *)
(* the tables of mhycrypt.c and mhy0.c hold the products of. A model may    *)
(* take fewer bits and another irreducible polynomial; then the number 256  *)
(* of the code is Q here.                                                   *)
(***************************************************************************)
EXTENDS Integers, Functions

CONSTANTS
  ByteBits, \* 8
  Poly      \* x^8 + x^4 + x^3 + x + 1 without its first term: 0x1b

ASSUME BitsAssumption == ByteBits \in Nat /\ ByteBits >= 4

\* The values after 0 .. n steps from first; step[i] is a function.
Iterates(n, first, step) ==
  LET after[i \in 0 .. n] == IF i = 0 THEN first ELSE step[i][after[i - 1]]
  IN  after

\* f itself; TLC evaluates it here, once, and not at each use of a value of it.
Strict(f) == CHOOSE g \in {f} : g = f

\* 2 ^ n
Pow2[n \in 0 .. ByteBits] == IF n = 0 THEN 1 ELSE 2 * Pow2[n - 1]

Q    == Pow2[ByteBits]
Byte == 0 .. Q - 1

ASSUME PolyAssumption == Poly \in Byte \ {0}

\* Of the n lowest bits.
LowXor[n \in 0 .. ByteBits] ==
  [a \in Byte |-> [b \in Byte |->
     IF n = 0 THEN 0
     ELSE 2 * LowXor[n - 1][a \div 2][b \div 2] + (IF a % 2 = b % 2 THEN 0 ELSE 1)]]

XorTbl == Strict(LowXor[ByteBits])

a (+) b == XorTbl[a][b]

-----------------------------------------------------------------------------
(* mul2Tbl ... mulEtbl: the products with a constant.                      *)

Mul2 == [x \in Byte |-> IF 2 * x < Q THEN 2 * x ELSE (2 * x - Q) (+) Poly]
Mul3 == [x \in Byte |-> Mul2[x] (+) x]
Mul9 == [x \in Byte |-> Mul2[Mul2[Mul2[x]]] (+) x]
MulB == [x \in Byte |-> Mul9[x] (+) Mul2[x]]
MulD == [x \in Byte |-> Mul9[x] (+) Mul2[Mul2[x]]]
MulE == [x \in Byte |-> Mul2[Mul2[Mul3[x]]] (+) Mul2[x]]

-----------------------------------------------------------------------------
(* gf256exp, gf256log: powers of 3 and their exponents. The tables have     *)
(* one entry more each, which is 1 at 255 and 0 for the logarithm of 0.     *)

GfExp[n \in 0 .. Q - 2] == IF n = 0 THEN 1 ELSE Mul3[GfExp[n - 1]]

\* As explicit tables.
Gf256Exp == [n \in 0 .. Q - 2 |-> GfExp[n]]
\* 3 generates the multiplicative group of the field.
ASSUME GeneratorAssumption == \A x \in Byte \ {0} : \E n \in 0 .. Q - 2 : Gf256Exp[n] = x

Gf256Log == [x \in Byte \ {0} |-> CHOOSE n \in 0 .. Q - 2 : Gf256Exp[n] = x]

gf256mul(a, b) ==
  IF a = 0 \/ b = 0 THEN 0 ELSE Gf256Exp[(Gf256Log[a] + Gf256Log[b]) % (Q - 1)]

\* assert(b != 0): the divisors are constants of the ciphers.
gf256div(a, b) ==
  IF a = 0 THEN 0 ELSE Gf256Exp[((Q - 1) + Gf256Log[a] - Gf256Log[b]) % (Q - 1)]
=============================================================================
