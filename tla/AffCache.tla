------------------------------ MODULE AffCache ------------------------------
(***************************************************************************)
(* The affinity state of every Cortex-A5x CPU (aff_info_state in its       *)
(* psci_svc_cpu_data), as it lies in memory and in the caches of the       *)
(* clusters.  A CPU with its data cache on loads and stores through the    *)
(* cache of its cluster; one with its cache off reads and writes memory.   *)
(* Clusters that the interconnect keeps coherent see each other's lines    *)
(* and each other's maintenance; a cluster outside sees only its own.      *)
(***************************************************************************)
CONSTANTS Cpus, Clusters

VARIABLES
  aff,     \* the state in memory, per CPU
  line,    \* the copy in each cluster's cache, or None
  dirty,   \* the <<cluster, CPU>> whose copy is newer than memory
  cci      \* the clusters the interconnect snoops

caches == <<aff, line, dirty>>

AffStates == {"OFF", "PENDING", "ON"}
None == "none"

Reach(k) == IF k \in cci THEN cci ELSE {k}

(* The value a CPU of cluster k loads for CPU t.                           *)
Value(k, t) ==
  IF line[k][t] # None THEN line[k][t]
  ELSE IF \E j \in Reach(k) : <<j, t>> \in dirty
       THEN line[CHOOSE j \in Reach(k) : <<j, t>> \in dirty][t]
       ELSE aff[t]

Cleared(R, t) == [k \in Clusters |->
                    IF k \in R THEN [line[k] EXCEPT ![t] = None] ELSE line[k]]

(* psci_get_aff_info_state_by_idx with the cache on: the line stays.       *)
Load(k, t) ==
  /\ line' = [line EXCEPT ![k][t] = Value(k, t)]
  /\ UNCHANGED <<aff, dirty>>

(* psci_set_aff_info_state_by_idx with the cache on.                       *)
Store(k, t, v) ==
  /\ line' = [Cleared(Reach(k), t) EXCEPT ![k][t] = v]
  /\ dirty' = (dirty \ (Reach(k) \X {t})) \cup {<<k, t>>}
  /\ UNCHANGED aff

(* psci_set_aff_info_state with the cache off.                             *)
StoreUncached(t, v) ==
  /\ aff' = [aff EXCEPT ![t] = v]
  /\ UNCHANGED <<line, dirty>>

(* flush_cpu_data: clean and invalidate.                                   *)
Flush(k, t) ==
  /\ aff' = [aff EXCEPT ![t] =
               IF \E j \in Reach(k) : <<j, t>> \in dirty
               THEN line[CHOOSE j \in Reach(k) : <<j, t>> \in dirty][t]
               ELSE @]
  /\ line' = Cleared(Reach(k), t)
  /\ dirty' = dirty \ (Reach(k) \X {t})

(* The store of ON in psci_set_pwr_domains_to_run and the flush after it.  *)
StoreFlush(k, t, v) ==
  /\ aff' = [aff EXCEPT ![t] = v]
  /\ line' = Cleared(Reach(k), t)
  /\ dirty' = dirty \ (Reach(k) \X {t})

(* The cache of cluster k is cleaned and emptied before it loses power.    *)
FlushCluster(k) ==
  /\ aff' = [t \in Cpus |-> IF <<k, t>> \in dirty THEN line[k][t] ELSE aff[t]]
  /\ line' = [line EXCEPT ![k] = [t \in Cpus |-> None]]
  /\ dirty' = dirty \ ({k} \X Cpus)

(* psci_inv_cpu_data: invalidate, a newer copy is lost.                    *)
Invalidate(k, t) ==
  /\ line' = Cleared(Reach(k), t)
  /\ dirty' = dirty \ (Reach(k) \X {t})
  /\ UNCHANGED aff
=============================================================================
