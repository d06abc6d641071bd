----------------------------- MODULE MCCr7Boot -----------------------------
(***************************************************************************)
(* Cr7Boot on a scaled memory map of 32 pages of 256 bytes:                *)
(*   flash   pages  2..13: key certificates 2 and 3, content certificates  *)
(*           4 and 5, CA5x image 6..7, RTOS image 8..10                    *)
(*   DRAM    pages 14..19                                                  *)
(*   SysRAM  pages 22..29: key certificate 23 or 24, content cert. 25      *)
(***************************************************************************)
EXTENDS Cr7Boot

Page(n) == n * 256

(* A certificate whose three offsets all carry the same fields, and one    *)
(* that carries other values at the offsets it does not use.               *)
Plain(words, to) == [info |-> 0, word |-> [k \in 0..2 |-> words],
                     dst |-> [k \in 0..2 |-> to]]
Mixed(n, words, to) ==
  [info |-> n, word |-> [k \in 0..2 |-> IF k = n THEN words ELSE 16],
   dst |-> [k \in 0..2 |-> IF k = n THEN to ELSE Page(14)]]

Pair(r, c) == [i \in Image |-> IF i = "RTOS" THEN r ELSE c]

GoodRtos == {Plain(65, Page(14)), Plain(192, Page(17)), Mixed(1, 17, Page(16))}
OddRtos ==
  {Plain(0, Page(14)),            \* empty
   Plain(193, Page(14)),          \* over the limit
   Plain(2048 + 65, Page(18)),    \* size * 4 wraps to a legal size
   Plain(65, Page(13)),           \* below DRAM
   Plain(192, Page(18)),          \* beyond the end of DRAM
   Plain(65, Page(14) + 4),       \* not aligned
   Mixed(3, 16, Page(14))}        \* invalid in the new format
GoodCa5x == {Plain(65, Page(26)), Mixed(2, 128, Page(28))}
OddCa5x ==
  {Plain(0, Page(26)), Plain(129, Page(26)), Plain(65, Page(29)),
   Plain(65, Page(24)),           \* over the certificate buffers
   Plain(16, Page(21))}
WrapRtos == Plain(192, Page(30))

OneOf(S) == CHOOSE c \in S : TRUE

BootCerts ==
  {Pair(r, c) : r \in GoodRtos, c \in GoodCa5x}
    \cup {Pair(OneOf(GoodRtos), c) : c \in OddCa5x}
    \cup {Pair(r, OneOf(GoodCa5x)) : r \in OddRtos}
WrapCerts == {Pair(WrapRtos, OneOf(GoodCa5x))}
=============================================================================
