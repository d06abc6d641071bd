------------------------------ MODULE Cr7Core ------------------------------
(***************************************************************************)
(* The Cortex-R7 core as the loader uses it: one program counter, one      *)
(* return address (the calls modelled step by step, execDMA and            *)
(* swdt_release, do not nest) and the IRQ mask of the CPSR.                *)
(* The interrupt handler never returns, so taking an interrupt simply      *)
(* moves the program counter.                                              *)
(***************************************************************************)
VARIABLES pc, ret, irq

coreVars == <<pc, ret, irq>>

Goto(l) == pc' = l
(* panic(): do_panic is an endless wfe loop.                               *)
panic == pc' = "panic"
Step(from, to) == pc = from /\ Goto(to) /\ UNCHANGED <<ret, irq>>
=============================================================================
