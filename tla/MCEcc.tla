-------------------------------- MODULE MCEcc --------------------------------
(***************************************************************************)
(* Areas of 256 and 512 bytes in place of megabytes (DSIZE_CALC) and       *)
(* of 4 KB and more (SSIZE_CALC), all of them powers of two; two areas     *)
(* with two extra areas each in place of eight.                            *)
(***************************************************************************)
EXTENDS EccInit

SomeBoards == {[product |-> "H3", cut |-> 20], [product |-> "M3", cut |-> 20],
               [product |-> "M3N", cut |-> 10],
               [product |-> "V3M", cut |-> 20]}

(* DRAM areas at 0 and 1024, a system RAM area at 2304 that holds the      *)
(* source at 2368, another one behind it.                                  *)
AreaAt(a, s, ram) ==
  [addr : {a}, size : {s}, sram : {ram}, enable : {TRUE}, fill : BOOLEAN]
Off(a, s, ram) ==
  [addr |-> a, size |-> s, sram |-> ram, enable |-> FALSE, fill |-> TRUE]
SingleTables ==
  {[build |-> "single", areas |-> <<a, b, c, d>>] :
     a \in AreaAt(0, 512, FALSE),
     b \in AreaAt(1024, 256, FALSE) \cup {Off(1024, 256, FALSE)},
     c \in {Off(2304, 512, TRUE),
            [addr |-> 2304, size |-> 512, sram |-> TRUE, enable |-> TRUE,
             fill |-> TRUE]},
     d \in AreaAt(2816, 256, TRUE)}

DualTables(s) ==
  [build : {"dual"}, split : s, areaEcc : SUBSET {0, 1},
   extraEcc : SUBSET {0, 1}, areaFill : {{0, 1}, {1}},
   extraFill : {{0}}]
Disabled == [build |-> "disable"]
OneSplit == {Disabled} \cup SingleTables \cup DualTables({{}, {0}, {1}})
TwoSplits == DualTables({{0, 1}})
=============================================================================
