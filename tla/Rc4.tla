--------------------------------- MODULE Rc4 ---------------------------------
(***************************************************************************)
(* The modified rc4 of mhycrypt.c: the state starts from a table of its own *)
(* and a second key chooses for each byte whether the stream is xored,      *)
(* subtracted or added. Both keys are functions over 0 .. 7, data over      *)
(* 0 .. n - 1.                                                              *)
(***************************************************************************)
EXTENDS Bytes, FiniteSets

CONSTANT rc4_init_tbl

\* Not a permutation: values appear in it several times and others never do.
ASSUME InitTableAssumption == rc4_init_tbl \in [Byte -> Byte]

Swapped(s, i, j) == Strict([s EXCEPT ![i] = s[j], ![j] = s[i]])

KeyAt(key, i) == key[i % 8]

\* t of blb3: (i % keySz) & ~1 at even i.
KeyAtBlb3(key, i) == IF i % 2 = 0 THEN key[2 * ((i % 8) \div 2)] ELSE key[i % 8]

\* s after the key has been mixed in; t[i] = TAt(key, i).
Mixed(key, TAt(_, _)) ==
  LET step == [i \in 1 .. Q |->
                [was \in [s : [Byte -> Byte], j : Byte] |->
                   LET j == (was.j + was.s[i - 1] + TAt(key, i - 1)) % Q
                   IN  [s |-> Swapped(was.s, i - 1, j), j |-> j]]]
  IN  Iterates(Q, [s |-> rc4_init_tbl, j |-> 0], step)[Q].s

\* Byte x with byte y of the stream; which is opBytes[j % opBytesSz] % 3.
Applied(x, y, which) ==
  CASE which = 0 -> x (+) y
    [] which = 1 -> (x - y + Q) % Q
    [] which = 2 -> (x + y) % Q

Undone(x, y, which) ==
  CASE which = 0 -> x (+) y
    [] which = 1 -> (x + y) % Q
    [] which = 2 -> (x - y + Q) % Q

\* data after the stream; s is the mixed table.
Streamed(s0, data, opBytes, Op(_, _, _)) ==
  LET n == Cardinality(DOMAIN data)
      States == [s : [Byte -> Byte], j : Byte, k : Byte, data : [0 .. n - 1 -> Byte]]
      step == [i \in 1 .. n |->
                [was \in States |->
                   LET j == (was.j + 1) % Q
                       k == (was.k + was.s[j]) % Q
                       s == Swapped(was.s, j, k)
                       y == s[(s[k] + s[j]) % Q]
                   IN  [s |-> s, j |-> j, k |-> k,
                        data |-> [was.data EXCEPT ![i - 1] = Op(@, y, opBytes[j % 8] % 3)]]]]
  IN  Iterates(n, [s |-> s0, j |-> 0, k |-> 0, data |-> data], step)[n].data

rc4_mhy(key, data, opBytes)      == Streamed(Mixed(key, KeyAt), data, opBytes, Applied)
rc4_dec_mhy(key, data, opBytes)  == Streamed(Mixed(key, KeyAt), data, opBytes, Undone)
rc4_blb3(key, data, opBytes)     == Streamed(Mixed(key, KeyAtBlb3), data, opBytes, Applied)
rc4_dec_blb3(key, data, opBytes) == Streamed(Mixed(key, KeyAtBlb3), data, opBytes, Undone)
=============================================================================
