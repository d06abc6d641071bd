------------------------------- MODULE MCPsci -------------------------------
(***************************************************************************)
(* Three CPUs in two clusters: the boot CPU a0 with a1 in one, b0 in the   *)
(* other.  The calls are spread over them so that every pair of operations *)
(* meets on one target, in one cluster and across clusters.                *)
(***************************************************************************)
EXTENDS Psci

MCCluster == [a0 |-> "A", a1 |-> "A", b0 |-> "B"]
May(on, off, info, susp) == [on |-> on, off |-> off, info |-> info, susp |-> susp]
(* Safety: on, off, info and suspends to all levels.                       *)
MCCalls == [a0 |-> May(TRUE, FALSE, TRUE, {2}),
            a1 |-> May(TRUE, TRUE, FALSE, {0, 1}),
            b0 |-> May(FALSE, TRUE, FALSE, {1})]
(* Liveness: two callers of CPU_ON, a CPU that goes off, one that suspends. *)
LiveCalls == [a0 |-> May(TRUE, FALSE, FALSE, {2}),
              a1 |-> May(TRUE, FALSE, FALSE, {}),
              b0 |-> May(FALSE, TRUE, FALSE, {})]
=============================================================================
