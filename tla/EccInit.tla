------------------------------ MODULE EccInit -------------------------------
(***************************************************************************)
(* ecc_init of the TCM loader: single-channel ECC (single_ecc.c) or        *)
(* dual-channel ECC (dram_dual_ecc.c), chosen when the loader is built.    *)
(* Both switch ECC on for areas of memory that a table in the source names *)
(* and fill them with zero, so that no unit is read without a code.        *)
(***************************************************************************)
EXTENDS FillDma, Sequences

CONSTANTS
  Boards,           \* the contents of the product register to try
  Tables,           \* the builds to try: RCAR_ECC_ENABLE and its tables
  fill_data,        \* address of the zeros that the channels copy
  AREA_NUM,         \* dual: number of areas, and of extra areas in one
  ExtraBytes,       \* dual: size of an extra area
  ECC_BASE2         \* dual: address of the second pair of channels

ASSUME EccOK ==
  /\ AREA_NUM \in Nat \ {0} /\ {fill_data, ExtraBytes, ECC_BASE2} \subseteq Nat

(* Areas lie on 64-byte borders and have lengths that exec_fillDMA shares  *)
(* out exactly (DSIZE_CALC, SSIZE_CALC, ADSPLCR0_AREA_1GB and so on).      *)
AreaEntry == [addr : Nat, size : Nat, sram : BOOLEAN, enable : BOOLEAN,
              fill : BOOLEAN]
ASSUME TablesOK ==
  /\ \A t \in Tables :
       /\ t.build \in {"disable", "single", "dual"}
       /\ t.build = "single" =>
            t.areas \in Seq(AreaEntry) /\ \A k \in DOMAIN t.areas :
              t.areas[k].addr % Unit = 0 /\ SharedExactly(t.areas[k].size)
       /\ t.build = "dual" =>
            \A s \in {t.split, t.areaEcc, t.areaFill, t.extraEcc, t.extraFill} :
              s \subseteq 0 .. AREA_NUM - 1
  /\ ECC_BASE2 % Unit = 0
  /\ SharedExactly(ExtraBytes) /\ SharedExactly(AREA_NUM * ExtraBytes)

VARIABLES
  pc, prr, tab,
  n,             \* how far the loops over the areas have come
  edc,           \* the error detection circuit reports
  split          \* dual: the area split into extra areas, as written

vars == <<mem, ecc, fill, dst, left, cae, sec, loop, result,
          pc, prr, tab, n, edc, split>>

Init ==
  /\ FillInit
  /\ pc = "start" /\ prr \in Boards /\ tab \in Tables
  /\ n = 0 /\ edc = FALSE
  /\ split = {}

Span(a, len) == {u \in Memory : a <= u * Unit /\ u * Unit < a + len}

-----------------------------------------------------------------------------
(* ecc_init: which parts have which kind of ECC.                           *)
Supported ==
  \/ tab.build = "single"
       /\ \/ prr.product = "H3" /\ prr.cut >= 20
          \/ prr.product = "M3" /\ prr.cut >= 30
          \/ prr.product \in {"M3N", "E3"}
  \/ tab.build = "dual" /\ prr.product \in {"H3", "M3"}

(* Dual ECC turns error detection on before anything else.                 *)
Start ==
  /\ pc = "start"
  /\ pc' = IF tab.build = "disable" THEN "ret"
           ELSE IF ~Supported THEN "dead"
           ELSE IF tab.build = "single" THEN "area" ELSE "set"
  /\ edc' = (pc' = "set")
  /\ UNCHANGED fillVars /\ UNCHANGED <<prr, tab, n, split>>

-----------------------------------------------------------------------------
(* single_ecc_init: for each enabled area, first the registers, then the   *)
(* fill if asked for; error detection last.  tab.areas is the sequence of  *)
(* the areas, those of DRAM before those of system RAM.                    *)
Area == tab.areas[n + 1]
MoreAreas == pc = "area" /\ tab.build = "single" /\ n < Len(tab.areas)

SingleSkip ==
  /\ MoreAreas /\ ~Area.enable
  /\ n' = n + 1
  /\ UNCHANGED fillVars /\ UNCHANGED <<pc, prr, tab, edc, split>>

Covered == ecc \cup Span(Area.addr, Area.size)
SingleArea ==
  /\ MoreAreas /\ Area.enable
  /\ ecc' = Covered
  /\ IF Area.fill THEN pc' = "fill" /\ UNCHANGED n
                  ELSE n' = n + 1 /\ UNCHANGED pc
  /\ UNCHANGED <<mem, fill, dst, left, cae, sec, loop, result>>
  /\ UNCHANGED <<prr, tab, edc, split>>

(* exec_fill_sram: by the processor where the channels' source is inside.  *)
SourceInside ==
  /\ Area.sram
  /\ Area.addr <= fill_data /\ fill_data < Area.addr + Area.size

SingleFill ==
  /\ pc = "fill" /\ ~SourceInside
  /\ exec_fillDMA(Area.addr, Area.size)
  /\ pc' = "wait"
  /\ UNCHANGED <<prr, tab, n, edc, split>>

SingleFillCpu ==
  /\ pc = "fill" /\ SourceInside
  /\ mem' = [u \in Memory |-> IF u \in Span(Area.addr, Area.size)
                              THEN Zeroed(u) ELSE mem[u]]
  /\ pc' = "area" /\ n' = n + 1
  /\ UNCHANGED <<ecc, fill, dst, left, cae, sec, loop, result>>
  /\ UNCHANGED <<prr, tab, edc, split>>

SingleEnd ==
  /\ pc = "area" /\ tab.build = "single" /\ n = Len(tab.areas)
  /\ edc' = TRUE /\ pc' = "ret"
  /\ UNCHANGED fillVars /\ UNCHANGED <<prr, tab, n, split>>

-----------------------------------------------------------------------------
(* dram_dual_ecc_init.  tab holds the tables as sets of area numbers.      *)
Areas == 0 .. AREA_NUM - 1
AreaBytes == AREA_NUM * ExtraBytes
Bases == IF prr.product = "H3" THEN {0, ECC_BASE2} ELSE {0}

(* dual_ecc_setting_4ch, _2ch and _linear: only the lowest split area is   *)
(* kept.  How the channels share an area is left out.                      *)
EffectiveSplit == {i \in tab.split : \A j \in tab.split : i <= j}

(* What the registers then mean for an area, and for an extra area of the  *)
(* split one.                                                              *)
AreaSpan(i) == UNION {Span(b + AreaBytes * i, AreaBytes) : b \in Bases}
ExtraSpan(i, j) ==
  UNION {Span(b + AreaBytes * i + ExtraBytes * j, ExtraBytes) : b \in Bases}
EccOf(s, areas, extras) ==
  UNION ({AreaSpan(i) : i \in areas \ s} \cup
         {ExtraSpan(i, j) : i \in s, j \in extras})

DualSet ==
  /\ pc = "set"
  /\ split' = EffectiveSplit
  /\ IF tab.areaEcc \cap tab.extraEcc # {}
     THEN pc' = "dead" /\ UNCHANGED ecc
     ELSE pc' = "area" /\ ecc' = EccOf(split', tab.areaEcc, tab.extraEcc)
  /\ UNCHANGED <<mem, fill, dst, left, cae, sec, loop, result>>
  /\ UNCHANGED <<prr, tab, n, edc>>

(* The loops over areas, extra areas and the two pairs of channels: round  *)
(* n is about area I, as a whole if J is 0 and else its extra area J - 1,  *)
(* at the first or the second address.                                     *)
Rounds == 2 * AREA_NUM * (AREA_NUM + 1)
I == n \div (2 * (AREA_NUM + 1))
J == (n \div 2) % (AREA_NUM + 1)
MutFirstPair == 0
Base == IF n % 2 = 0 THEN 0 ELSE ECC_BASE2
PlainArea == {I} \cap (tab.areaEcc \ tab.split)
Filled ==
  /\ Base \in Bases
  /\ IF J = 0 THEN PlainArea # {} /\ I \in tab.areaFill
     ELSE I \in tab.split /\ J - 1 \in tab.extraEcc \cap tab.extraFill

DualFill ==
  /\ pc = "area" /\ tab.build = "dual" /\ n < Rounds /\ Filled
  /\ IF J = 0 THEN exec_fillDMA(Base + AreaBytes * I, AreaBytes)
     ELSE exec_fillDMA(Base + AreaBytes * I + ExtraBytes * (J-1), ExtraBytes)
  /\ pc' = "wait"
  /\ UNCHANGED <<prr, tab, n, edc, split>>

DualSkip ==
  /\ pc = "area" /\ tab.build = "dual"
  /\ n < Rounds /\ ~Filled
  /\ n' = n + 1
  /\ UNCHANGED fillVars /\ UNCHANGED <<pc, prr, tab, edc, split>>

DualEnd ==
  /\ pc = "area" /\ tab.build = "dual" /\ n = Rounds
  /\ pc' = "ret"
  /\ UNCHANGED fillVars /\ UNCHANGED <<prr, tab, n, edc, split>>

-----------------------------------------------------------------------------
(* exec_fillDMA returns, or ends in panic.                                 *)
FillReturns ==
  /\ pc = "wait" /\ fill = "done"
  /\ fill' = "idle" /\ pc' = "area" /\ n' = n + 1
  /\ UNCHANGED <<mem, ecc, dst, left, cae, sec, loop, result>>
  /\ UNCHANGED <<prr, tab, edc, split>>

FillPanics ==
  /\ pc = "wait" /\ fill = "panic" /\ pc' = "dead"
  /\ UNCHANGED fillVars /\ UNCHANGED <<prr, tab, n, edc, split>>

Single == SingleSkip \/ SingleArea \/ SingleFill \/ SingleFillCpu \/ SingleEnd
Dual == DualSet \/ DualFill \/ DualSkip \/ DualEnd
Polling == Poll /\ UNCHANGED <<pc, prr, tab, n, edc, split>>
Cpu == Start \/ Single \/ Dual \/ FillReturns \/ FillPanics \/ Polling
Channel(c) ==
  (ChannelMoves(c) \/ ChannelFails(c)) /\ UNCHANGED <<pc, prr, tab, n, edc, split>>

Next == Cpu \/ \E c \in Ch : Channel(c)
Spec == Init /\ [][Next]_vars

(* The processor runs, and every channel gets on with its transfer.        *)
FairSpec == Spec /\ WF_vars(Cpu) /\ \A c \in Ch : WF_vars(Channel(c))

-----------------------------------------------------------------------------
(* The units that the tables ask to fill: those of a filled area, or of a  *)
(* filled extra area of the lowest split area.                             *)
Wanted ==
  IF tab.build = "single"
  THEN UNION {Span(tab.areas[k].addr, tab.areas[k].size) :
                k \in {k \in DOMAIN tab.areas : tab.areas[k].enable /\ tab.areas[k].fill}}
  ELSE IF tab.build = "dual"
  THEN EccOf({i \in tab.split : \A j \in tab.split : i <= j},
             tab.areaEcc \cap tab.areaFill, tab.extraEcc \cap tab.extraFill)
  ELSE {}

(* When ecc_init returns, every unit of every area that is to be filled    *)
(* has its code: no part of it was left out, and none was written before   *)
(* ECC covered it ("fill DRAM Fusa Area with 0 to generate ECC code",      *)
(* single_ecc.c:170; "fill Fusa Area with 0", dram_dual_ecc.c:104).        *)
FusaCoded ==
  pc = "ret" => \A u \in Wanted : mem[u] = "coded"

(* Nothing else is overwritten, whatever the channels do and even after an *)
(* address error on one of them (exec_fillDMA).                            *)
OnlyFusaZeroed == \A u \in Memory \ Wanted : mem[u] = "old"

(* Between two fills no channel is at work, and none is left marked as     *)
(* secure: a fill returns only when all its channels are done              *)
(* (end_fillDMA).                                                          *)
FillsInTurn ==
  fill \in {"idle", "done"} => sec = {} /\ \A c \in Ch : left[c] = 0

(* ecc_init ends: every poll loop comes to an end, with or without address *)
(* errors.                                                                 *)
EccEnds == <>(pc \in {"ret", "dead"})
=============================================================================
