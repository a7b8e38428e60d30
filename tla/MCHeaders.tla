------------------------------ MODULE MCHeaders ------------------------------
(* Headers with archives as the games' own packers lay them out: every byte    *)
(* that has no known meaning differs from its neighbours and from zero.        *)
EXTENDS Headers

Noise(from, n, a) == [x \in 1 .. n |-> 1 + ((a * (from + x) + 3 * x * x) % 120)]
Over(bytes, writes) == Laid(<<BytesAt(0, bytes)>> \o writes)

MCHeaderSize == 300
MCCompressed == {<<70001, 513, 40, 41>>, <<66000, 66001, 66002, 90>>}
MCCabSizes == {131072, 200000}
MCRandomBytes == Noise(0, 40, 7)
MCRandomName == Noise(5, 36, 7)

\* Cab and block tables: one cab in one block; two cabs in two blocks, the second
\* of which holds parts of both.
One == [sizes |-> <<90000>>, flags |-> <<1>>,
        blks |-> <<[cmp |-> 70001, dec |-> 90000]>>]
Two == [sizes |-> <<140000, 40000>>, flags |-> <<0, 1>>,
        blks |-> <<[cmp |-> 70001, dec |-> 131072], [cmp |-> 513, dec |-> 48928]>>]

Off(t, c) == Before(t.sizes, c)

Meant(t, name(_), flag(_)) ==
  [cabs |-> [c \in DOMAIN t.sizes |->
               [meta |-> [name |-> name(c), flag |-> flag(c)],
                blk_off |-> Off(t, c), blk_sz |-> t.sizes[c]]],
   blks |-> t.blks]

-----------------------------------------------------------------------------
MhyName(c) == Noise(c, 30, 5) \o [x \in 1 .. 230 |-> 0]

MhyOriginal(t, outer_len, cmp_extra, head_len, magic, sz_at, fixed(_)) ==
  LET n == Len(t.sizes)  B == Len(t.blks)
      len == 275 * n + 13 * B + 12
      cab(c) == 6 + 275 * (c - 1)
      blk(b) == 12 + 275 * n + 13 * (b - 1)
      head == Noise(3, head_len, 11)
  IN  [archive |->
         [outer |-> Over(Noise(1, outer_len, 9),
                         <<BeAt(0, 4, magic), LeAt(4, 4, HeaderSize + cmp_extra),
                           shuffleUint(sz_at, len)>> \o fixed(8)),
          inner |-> Over(Noise(2, len, 13),
            <<shuffleInt(0, n), shuffleInt(6 + 275 * n, B),
              Laid([c \in 1 .. n |-> Laid(
                <<BytesAt(cab(c), MhyName(c)), BytesAt(cab(c) + 260, <<0, t.flags[c]>>),
                  shuffleInt(cab(c) + 262, Off(t, c)), shuffleUint(cab(c) + 268, t.sizes[c])>>)]),
              Laid([b \in 1 .. B |-> Laid(
                <<shuffleInt(blk(b), t.blks[b].cmp), shuffleUint(blk(b) + 6, t.blks[b].dec)>>)])>>),
          inner_len |-> len, len |-> HeaderSize + outer_len,
          blocks |-> [b \in 1 .. B |-> Over(head, fixed(0))]],
       meant |-> Meant(t, MhyName, LAMBDA c : t.flags[c])]

Mhy0(t) == MhyOriginal(t, 47, 39, 12, Mhy0Magic, 40, LAMBDA at : <<>>)
\* The words after the key are the same in every file.
Mhy1(t) == MhyOriginal(t, 63, 55, 28, Mhy1Magic, 56, LAMBDA at : <<BytesAt(at + 4, NewEc)>>)

-----------------------------------------------------------------------------
\* The longest name that has an end.
ShortName(c) == Noise(c, 30 + c, 5)
LongName(c)  == Noise(c, 255, 5)

Encr(t, name(_)) ==
  LET n == Len(t.sizes)  B == Len(t.blks)
      at(c) == 8 + 10 * B + Sum([k \in 1 .. c - 1 |-> 21 + Len(name(k))])
      flag(c) == <<4 * t.flags[c], 0, 0, 0>>
  IN  [archive |->
         [outer |-> Laid(<<BytesAt(0, EncrMagic),
                           BeAt(5, 8, 25 + HeaderSize + Sum([b \in 1 .. B |-> t.blks[b].cmp])),
                           BeAt(13, 4, HeaderSize), BeAt(17, 4, at(n + 1)), BeAt(21, 4, 66)>>),
          inner |-> Laid(<<BeAt(0, 4, B), BeAt(4 + 10 * B, 4, n),
            Laid([b \in 1 .. B |-> Laid(
              <<BeAt(4 + 10 * (b - 1), 4, t.blks[b].dec), BeAt(8 + 10 * (b - 1), 4, t.blks[b].cmp),
                BeAt(12 + 10 * (b - 1), 2, 66)>>)]),
            Laid([c \in 1 .. n |-> Laid(
              <<BeAt(at(c), 8, Off(t, c)), BeAt(at(c) + 8, 8, t.sizes[c]),
                BytesAt(at(c) + 16, <<0, 0, 0, 4 * t.flags[c]>>), BytesAt(at(c) + 20, name(c) \o <<0>>)>>)])>>),
          inner_len |-> at(n + 1), len |-> HeaderSize + 25, blocks |-> [b \in 1 .. B |-> <<>>]],
       meant |-> Meant(t, name, flag)]

\* The flag words come after the names, a bit for each cab.
Blb3(t, name(_)) ==
  LET n == Len(t.sizes)  B == Len(t.blks)
      bit(c) == IF c <= n THEN t.flags[c] * Bit[(c - 1) % 8] ELSE 0
      words == [k \in 1 .. 4 * ((n + 31) \div 32) |-> Sum([x \in 1 .. 8 |-> bit(8 * (k - 1) + x)])]
      cab(c) == 88 + 4 * B + 16 * (c - 1)
      name_at(c) == cab(n + 1) + Sum([k \in 1 .. c - 1 |-> 1 + Len(name(k))])
      len == name_at(n + 1) + Len(words)
      end(b) == Sum([k \in 1 .. b |-> t.blks[k].cmp])
  IN  [archive |->
         [outer |-> Laid(<<BeAt(0, 4, Blb3Magic), LeAt(4, 4, len - 28), LeAt(8, 4, 1234567),
                           BytesAt(12, Noise(4, 16, 3)), LeAt(28, 4, len + end(B)),
                           LeAt(32, 4, t.blks[B].dec), LeAt(36, 12, 0), LeAt(48, 4, 17 * 256 + 2),
                           LeAt(52, 4, B), LeAt(56, 4, n), LeAt(60, 8, 24), LeAt(68, 8, 4 * B + 20),
                           LeAt(76, 8, name_at(n + 1) - 76), LeAt(84 + 4 * B, 4, 0),
                           BytesAt(name_at(n + 1), words),
                           Laid([b \in 1 .. B |-> LeAt(84 + 4 * (b - 1), 4, end(b))]),
                           Laid([c \in 1 .. n |-> Laid(
                             <<LeAt(cab(c), 4, Off(t, c)), LeAt(cab(c) + 4, 4, t.sizes[c]),
                               LeAt(cab(c) + 8, 8, name_at(c) - (cab(c) + 8)),
                               BytesAt(name_at(c), name(c) \o <<0>>)>>)])>>),
          inner |-> <<>>, inner_len |-> 0, len |-> len, blocks |-> [b \in 1 .. B |-> <<>>]],
       meant |-> Meant(t, name, LAMBDA c : t.flags[c])]

\* The flag word is the block count, the cab count or neither.
Flagged == {[Two EXCEPT !.flags = f] : f \in {<<1, 1>>, <<0, 1>>}}
\* Three cabs in one block.
Three == {[sizes |-> <<7, 8, 9>>, flags |-> f, blks |-> <<[cmp |-> 40, dec |-> 24]>>] :
            f \in {<<1, 1, 0>>, <<1, 0, 1>>}}

MCOriginals ==
  [mhy0 |-> {Mhy0(t) : t \in {One, Two}}, mhy1 |-> {Mhy1(t) : t \in {One, Two}},
   encr |-> {Encr(One, LongName), Encr(Two, ShortName), Encr(Two, LongName)},
   blb3 |-> {Blb3(t, ShortName) : t \in {One} \cup Flagged \cup Three} \cup {Blb3(Two, LongName)}]
=============================================================================
