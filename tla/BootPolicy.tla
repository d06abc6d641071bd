----------------------------- MODULE BootPolicy -----------------------------
(***************************************************************************)
(* What the boot promises, without addresses, devices or interrupts: an    *)
(* image is started only when it has been placed in memory, stays there    *)
(* unchanged from then on, and, in secure boot, only when it has been      *)
(* verified after it was placed.  A boot that stops never starts anything  *)
(* any more, and the RTOS is started last.                                 *)
(***************************************************************************)
CONSTANT Images
VARIABLES policy, placed, checked, started, stopped

policyVars == <<policy, placed, checked, started, stopped>>

PolicyInit ==
  /\ policy = "undecided"
  /\ placed = {} /\ checked = {} /\ started = {} /\ stopped = FALSE

Decide(p) ==
  /\ policy \in {"undecided", "normal"} /\ ~stopped /\ placed = {}
  /\ policy' = p
  /\ UNCHANGED <<placed, checked, started, stopped>>

(* A transfer that was under way may still complete after a stop.          *)
Place(i) ==
  /\ policy # "undecided" /\ i \notin placed /\ started = {}
  /\ placed' = placed \cup {i}
  /\ UNCHANGED <<policy, checked, started, stopped>>

Check(i) ==
  /\ policy = "secure" /\ i \in placed /\ ~stopped /\ started = {}
  /\ checked' = checked \cup {i}
  /\ UNCHANGED <<policy, placed, started, stopped>>

Start(i) ==
  /\ ~stopped /\ "RTOS" \notin started
  /\ i \in placed /\ i \notin started
  /\ policy = "normal" \/ (policy = "secure" /\ i \in checked)
  /\ started' = started \cup {i}
  /\ UNCHANGED <<policy, placed, checked, stopped>>

Stop ==
  /\ ~stopped /\ "RTOS" \notin started
  /\ stopped' = TRUE
  /\ UNCHANGED <<policy, placed, checked, started>>

PolicyNext ==
  \/ \E p \in {"normal", "secure"} : Decide(p)
  \/ \E i \in Images : Place(i) \/ Check(i) \/ Start(i)
  \/ Stop

PolicySpec == PolicyInit /\ [][PolicyNext]_policyVars
=============================================================================
