-------------------------------- MODULE Psci --------------------------------
(***************************************************************************)
(* Power management of the Cortex-A5x CPUs in BL31: CPU_ON, CPU_OFF,       *)
(* CPU_SUSPEND and AFFINITY_INFO of the PSCI library (lib/psci) with the   *)
(* R-Car platform's hooks (plat_pm.c, pwrc.c) and its warm boot path.  One *)
(* process per CPU; a step is what it does between two accesses to state   *)
(* that other CPUs use.  Power levels: 0 the CPU, 1 its cluster, 2 the     *)
(* system.                                                                 *)
(***************************************************************************)
EXTENDS Integers, FiniteSets, Sequences, AffCache

CONSTANTS Cluster,        \* of each CPU
          System,         \* the node above the clusters
          BootCpu,        \* rcar_boot_mpidr
          Calls,          \* of each CPU: the calls the OS makes there
          BeyondWipe      \* follow the system after a held lock was wiped

Nodes == Clusters \cup {System}
CallKinds == [on : BOOLEAN, off : BOOLEAN, info : BOOLEAN, susp : SUBSET (0..2)]
ASSUME TopologyOK == /\ Cluster \in [Cpus -> Clusters] /\ System \notin Clusters
                     /\ None \notin Cpus
                     /\ BootCpu \in Cpus /\ Calls \in [Cpus -> CallKinds]

VARIABLES
  pc,        \* where each CPU is
  op,        \* what it is doing: "none", "off", "susp" or "up"
  lvl, at,   \* the highest level of the operation, and the lock it is at
  goal,      \* the highest level that goes off (state_info)
  tgt, seen, \* target of its CPU_ON, and the target's state when it looked
  queue,     \* of each node: the CPUs that hold or wait for its lock
  cpuLock,   \* of each CPU: who holds cpu_lock, or None
  req,       \* of levels 1 and 2: the CPUs that ask for OFF
  down,      \* the nodes whose local_state is OFF
  suspLvl,   \* target_pwrlvl of each CPU; 3 is PSCI_INVALID_PWR_LVL
  ctx,       \* the CPUs whose entry context is that of the present request
  mailbox,   \* the CPUs whose mailbox holds the warm boot entry
  wake,      \* the CPUs with a wake-up request in WUPCR
  unmasked,  \* the CPUs an interrupt may wake (WUPMSK)
  broken     \* history: the locks were wiped while one was in use

locals == <<op, lvl, at, goal, tgt, seen>>
shared == <<queue, cpuLock, req, down>>
power == <<suspLvl, ctx, mailbox, wake, unmasked>>
vars == <<pc, locals, shared, power, caches, cci, broken>>

Node(c, l) == IF l = 1 THEN Cluster[c] ELSE System
Under(n) == {c \in Cpus : n \in {Cluster[c], System}}
(* rcar_pwrc_get_cluster: the part has CPUs of both kinds.  Only then the  *)
(* platform uses the interconnect; a lone cluster is always coherent.      *)
A53A57 == \E j, k \in Clusters : j # k
Others(c) == {d \in Cpus : Cluster[d] = Cluster[c] /\ d # c}

(* After bl31 and psci_setup: the boot CPU runs, the others are off.       *)
Init ==
  /\ pc = [c \in Cpus |-> IF c = BootCpu THEN "run" ELSE "wfi"]
  /\ op = [c \in Cpus |-> IF c = BootCpu THEN "none" ELSE "off"]
  /\ lvl = [c \in Cpus |-> 0] /\ at = [c \in Cpus |-> 0]
  /\ goal = [c \in Cpus |-> 0]
  /\ tgt = [c \in Cpus |-> c] /\ seen = [c \in Cpus |-> "ON"]
  /\ queue = [n \in Nodes |-> << >>]
  /\ cpuLock = [c \in Cpus |-> None]
  /\ req = [l \in 1..2 |-> Cpus \ {BootCpu}]
  /\ down = Clusters \ {Cluster[BootCpu]}
  /\ suspLvl = [c \in Cpus |-> 3]
  /\ ctx = {} /\ mailbox = {} /\ wake = {} /\ unmasked = {}
  /\ aff = [c \in Cpus |-> IF c = BootCpu THEN "ON" ELSE "OFF"]
  /\ line = [k \in Clusters |-> [c \in Cpus |-> None]]
  /\ dirty = {} /\ cci = {Cluster[BootCpu]}
  /\ broken = FALSE

Goto(c, from, to) == pc[c] = from /\ pc' = [pc EXCEPT ![c] = to]

-----------------------------------------------------------------------------
(* AFFINITY_INFO: flush, then load.                                        *)
AffinityInfo(c, t) ==
  /\ Goto(c, "run", "info")
  /\ tgt' = [tgt EXCEPT ![c] = t]
  /\ Flush(Cluster[c], t)
  /\ UNCHANGED <<op, lvl, at, goal, seen, shared, power, cci, broken>>

InfoLoad(c) ==
  /\ Goto(c, "info", "run")
  /\ tgt' = [tgt EXCEPT ![c] = c]
  /\ Load(Cluster[c], tgt[c])
  /\ UNCHANGED <<op, lvl, at, goal, seen, shared, power, cci, broken>>

-----------------------------------------------------------------------------
(* CPU_ON: psci_cpu_on_start on the calling CPU.                           *)
CpuOn(c, t) ==
  /\ Goto(c, "run", "on_lock")
  /\ tgt' = [tgt EXCEPT ![c] = t]
  /\ UNCHANGED <<op, lvl, at, goal, seen, shared, power, caches, cci, broken>>

MutNoLock(t) == TRUE
LockFree(t) == cpuLock[t] = None
OnLock(c) ==
  /\ Goto(c, "on_lock", "on_look")
  /\ LockFree(tgt[c])
  /\ cpuLock' = [cpuLock EXCEPT ![tgt[c]] = c]
  /\ UNCHANGED <<locals, queue, req, down, power, caches, cci, broken>>

MutLookUnflushed(c) ==
  /\ Goto(c, "on_look", "on_check")
  /\ seen' = [seen EXCEPT ![c] = aff[tgt[c]]]
  /\ UNCHANGED <<op, lvl, at, goal, tgt, shared, power, caches, cci, broken>>
OnLook(c) ==
  /\ Goto(c, "on_look", "on_check")
  /\ Flush(Cluster[c], tgt[c])
  /\ seen' = [seen EXCEPT ![c] = aff'[tgt[c]]]
  /\ UNCHANGED <<op, lvl, at, goal, tgt, shared, power, cci, broken>>

(* cpu_on_validate_state: a target that is not OFF is refused.             *)
OnRefuse(c) ==
  /\ Goto(c, "on_check", "run")
  /\ Value(Cluster[c], tgt[c]) # "OFF"
  /\ Load(Cluster[c], tgt[c])
  /\ cpuLock' = [cpuLock EXCEPT ![tgt[c]] = None]
  /\ tgt' = [tgt EXCEPT ![c] = c]
  /\ seen' = [seen EXCEPT ![c] = "ON"]
  /\ UNCHANGED <<op, lvl, at, goal, queue, req, down, power, cci, broken>>

OnAccept(c) ==
  /\ Goto(c, "on_check", "on_set")
  /\ Value(Cluster[c], tgt[c]) = "OFF"
  /\ Load(Cluster[c], tgt[c])
  /\ seen' = [seen EXCEPT ![c] = "ON"]
  /\ UNCHANGED <<op, lvl, at, goal, tgt, shared, power, cci, broken>>

(* ON_PENDING is stored and flushed, and once more if the target's         *)
(* invalidation threw the first store away.                                *)
OnSet(c) ==
  /\ \/ Goto(c, "on_set", "on_clean")
     \/ Goto(c, "on_reset", "on_reclean")
  /\ Store(Cluster[c], tgt[c], "PENDING")
  /\ UNCHANGED <<locals, shared, power, cci, broken>>

OnClean(c) ==
  /\ \/ Goto(c, "on_clean", "on_verify")
     \/ Goto(c, "on_reclean", "on_power")
  /\ Flush(Cluster[c], tgt[c])
  /\ UNCHANGED <<locals, shared, power, cci, broken>>

MutVerifyOnce(c) ==
  /\ Goto(c, "on_verify", "on_power")
  /\ Load(Cluster[c], tgt[c])
  /\ UNCHANGED <<locals, shared, power, cci, broken>>
OnVerify(c) ==
  /\ Goto(c, "on_verify",
          IF Value(Cluster[c], tgt[c]) = "PENDING" THEN "on_power" ELSE "on_reset")
  /\ Load(Cluster[c], tgt[c])
  /\ UNCHANGED <<locals, shared, power, cci, broken>>

MutOnlyWithScu(c) ==
  /\ Goto(c, "on_power", "on_ctx")
  /\ mailbox' = mailbox \cup {tgt[c]}
  /\ wake' = IF Cluster[tgt[c]] \in down THEN wake \cup {tgt[c]} ELSE wake
  /\ UNCHANGED <<locals, shared, suspLvl, ctx, unmasked, caches, cci, broken>>
(* rcar_pwr_domain_on: the mailbox, then rcar_pwrc_cpuon.                  *)
OnPower(c) ==
  /\ Goto(c, "on_power", "on_ctx")
  /\ mailbox' = mailbox \cup {tgt[c]}
  /\ wake' = wake \cup {tgt[c]}
  /\ UNCHANGED <<locals, shared, suspLvl, ctx, unmasked, caches, cci, broken>>

(* cm_init_context_by_index, then the spin lock is given back.             *)
OnContext(c) ==
  /\ Goto(c, "on_ctx", "run")
  /\ ctx' = ctx \cup {tgt[c]}
  /\ cpuLock' = [cpuLock EXCEPT ![tgt[c]] = None]
  /\ tgt' = [tgt EXCEPT ![c] = c]
  /\ UNCHANGED <<op, lvl, at, goal, seen, queue, req, down, suspLvl, mailbox,
                 wake, unmasked, caches, cci, broken>>

-----------------------------------------------------------------------------
(* The locks of the power domains, taken from level 1 up and given back    *)
(* from the top.  A bakery lock serves its CPUs in the order of their      *)
(* tickets; a ticket that was wiped no longer counts.                      *)
LocksTaken(o) == IF o = "up" THEN "finish" ELSE "locked"
LocksFreed(o) == IF o = "off" THEN "off_flush" ELSE IF o = "susp" THEN "wfi" ELSE "run"

AcquireLocks(c, from, l, o) ==
  /\ Goto(c, from, IF l = 0 THEN LocksTaken(o) ELSE "locking")
  /\ op' = [op EXCEPT ![c] = o]
  /\ lvl' = [lvl EXCEPT ![c] = l]
  /\ at' = [at EXCEPT ![c] = IF l = 0 THEN 0 ELSE 1]
  /\ queue' = IF l = 0 THEN queue
              ELSE [queue EXCEPT ![Node(c, 1)] = Append(@, c)]
  /\ UNCHANGED <<goal, tgt, seen, cpuLock, req, down>>

LockGet(c) ==
  LET n == Node(c, at[c]) IN
  /\ pc[c] = "locking"
  /\ (\E i \in DOMAIN queue[n] : queue[n][i] = c) => Head(queue[n]) = c
  /\ IF at[c] < lvl[c]
     THEN /\ at' = [at EXCEPT ![c] = @ + 1]
          /\ queue' = [queue EXCEPT ![Node(c, at[c] + 1)] = Append(@, c)]
          /\ UNCHANGED pc
     ELSE /\ Goto(c, "locking", LocksTaken(op[c]))
          /\ UNCHANGED <<at, queue>>
  /\ UNCHANGED <<op, lvl, goal, tgt, seen, cpuLock, req, down, power, caches,
                 cci, broken>>

ReleaseLocks(c, from, o) ==
  /\ Goto(c, from, IF lvl[c] = 0 THEN LocksFreed(o) ELSE "unlock")
  /\ op' = [op EXCEPT ![c] = o]
  /\ at' = [at EXCEPT ![c] = lvl[c]]
  /\ lvl' = [lvl EXCEPT ![c] = 0]
  /\ goal' = [goal EXCEPT ![c] = 0]
  /\ UNCHANGED <<tgt, seen>>

LockRelease(c) ==
  /\ Goto(c, "unlock", IF at[c] = 1 THEN LocksFreed(op[c]) ELSE "unlock")
  /\ queue' = [queue EXCEPT ![Node(c, at[c])] =
                 IF @ # << >> /\ Head(@) = c THEN Tail(@) ELSE @]
  /\ at' = [at EXCEPT ![c] = @ - 1]
  /\ UNCHANGED <<op, lvl, goal, tgt, seen, cpuLock, req, down, power, caches,
                 cci, broken>>

-----------------------------------------------------------------------------
(* CPU_OFF, which the boot CPU is denied, and CPU_SUSPEND to power down.   *)
CpuOff(c) ==
  /\ c # BootCpu
  /\ AcquireLocks(c, "run", 2, "off")
  /\ UNCHANGED <<power, caches, cci, broken>>

CpuSuspend(c, l) ==
  /\ AcquireLocks(c, "run", l, "susp")
  /\ UNCHANGED <<power, caches, cci, broken>>

(* The Secure Payload denies CPU_OFF, or an interrupt is pending.          *)
Abandon(c) ==
  /\ ReleaseLocks(c, "locked", "none")
  /\ UNCHANGED <<shared, power, caches, cci, broken>>

(* psci_do_state_coordination: OFF is asked for up to lvl; a node goes off *)
(* when every CPU under it asks for it and the node below goes off too.    *)
Requests(c) == [l \in 1..2 |-> IF l <= lvl[c] THEN req[l] \cup {c} ELSE req[l]]
MutOwnRequest(c, l) == \A j \in 1..l : c \in Requests(c)[j]
GoesOff(c, l) == \A j \in 1..l : Under(Node(c, j)) \subseteq Requests(c)[j]

Coordinate(c) ==
  LET offs == {l \in 1..lvl[c] : GoesOff(c, l)} IN
  /\ Goto(c, "locked", "down")
  /\ req' = Requests(c)
  /\ down' = (down \ {Node(c, l) : l \in 1..lvl[c]}) \cup {Node(c, l) : l \in offs}
  /\ goal' = [goal EXCEPT ![c] = Cardinality(offs)]
  /\ UNCHANGED <<op, lvl, at, tgt, seen, queue, cpuLock, power, caches, cci, broken>>

(* psci_suspend_to_pwrdown_start and psci_do_pwrdown_sequence: from here   *)
(* on the CPU's cache is off.                                              *)
PowerDown(c) ==
  /\ Goto(c, "down", "plat")
  /\ suspLvl' = [suspLvl EXCEPT ![c] = IF op[c] = "susp" THEN lvl[c] ELSE @]
  /\ ctx' = IF op[c] = "susp" THEN ctx \cup {c} ELSE ctx
  /\ IF goal[c] > 0 THEN FlushCluster(Cluster[c]) ELSE UNCHANGED caches
  /\ UNCHANGED <<locals, shared, mailbox, wake, unmasked, cci, broken>>

(* rcar_pwrc_enable_interrupt_wakeup and rcar_pwrc_disable_interrupt_wakeup *)
(* write the whole mask register of the cluster.                           *)
EnableWakeup(c) == (unmasked \ Others(c)) \cup {c}
MutMaskOwn(c) == unmasked \ {c}
DisableWakeup(c) == (unmasked \cup Others(c)) \ {c}

(* rcar_pwr_domain_off, rcar_pwr_domain_suspend; then the locks go back.   *)
PlatformDown(c) ==
  /\ ReleaseLocks(c, "plat", op[c])
  /\ mailbox' = IF op[c] = "susp" THEN mailbox \cup {c} ELSE mailbox
  /\ unmasked' = IF op[c] = "susp" THEN EnableWakeup(c) ELSE unmasked
  /\ cci' = IF A53A57 /\ goal[c] > 0 THEN cci \ {Cluster[c]} ELSE cci
  /\ UNCHANGED <<shared, suspLvl, ctx, wake, caches, broken>>

(* The end of psci_do_cpu_off, with the cache off.                         *)
OffFlush(c) ==
  /\ Goto(c, "off_flush", "off_write")
  /\ Flush(Cluster[c], c)
  /\ UNCHANGED <<locals, shared, power, cci, broken>>

OffWrite(c) ==
  /\ Goto(c, "off_write", "off_inv")
  /\ StoreUncached(c, "OFF")
  /\ UNCHANGED <<locals, shared, power, cci, broken>>

OffInvalidate(c) ==
  /\ Goto(c, "off_inv", "wfi")
  /\ Invalidate(Cluster[c], c)
  /\ UNCHANGED <<locals, shared, power, cci, broken>>

-----------------------------------------------------------------------------
(* The power controller starts a CPU in wfi: CPU_ON asked for it, or an    *)
(* interrupt came for a suspended CPU.  The OS leaves no interrupt with a  *)
(* CPU it turns off.                                                       *)
Woken(c) == c \in wake
PowerUp(c) ==
  /\ Goto(c, "wfi", "reset")
  /\ Woken(c) \/ (op[c] = "susp" /\ c \in unmasked)
  /\ wake' = wake \ {c}
  /\ UNCHANGED <<locals, shared, suspLvl, ctx, mailbox, unmasked, caches, cci, broken>>

(* plat_get_my_entrypoint; psci_warmboot_entrypoint first wipes the locks. *)
Reset(c) ==
  /\ Goto(c, "reset", IF c \in mailbox THEN "check" ELSE "panic")
  /\ queue' = [n \in Nodes |-> << >>]
  /\ broken' = (broken \/ \E n \in Nodes : queue[n] # << >>)
  /\ UNCHANGED <<locals, cpuLock, req, down, power, caches, cci>>

MutToCluster(c) == IF suspLvl[c] = 3 THEN 1 ELSE suspLvl[c]
PowerOnLvl(c) == IF suspLvl[c] = 3 THEN 2 ELSE suspLvl[c]
Check(c) ==
  /\ IF aff[c] = "OFF"
     THEN Goto(c, "check", "panic") /\ UNCHANGED <<locals, shared>>
     ELSE AcquireLocks(c, "check", PowerOnLvl(c), "up")
  /\ UNCHANGED <<power, caches, cci, broken>>

(* rcar_pwr_domain_on_finish; then the cache is on.                        *)
Finish(c) ==
  /\ Goto(c, "finish", IF aff[c] = "PENDING" THEN "sync" ELSE "resume")
  /\ cci' = IF A53A57 /\ lvl[c] > 0 /\ Cluster[c] \in down
            THEN cci \cup {Cluster[c]} ELSE cci
  /\ unmasked' = DisableWakeup(c)
  /\ mailbox' = mailbox \ {c}
  /\ UNCHANGED <<locals, shared, suspLvl, ctx, wake, caches, broken>>

(* psci_cpu_on_finish waits for the caller of CPU_ON to let go of the lock. *)
MutNoSync(c) ==
  /\ Goto(c, "sync", "torun")
  /\ UNCHANGED <<locals, shared, power, caches, cci, broken>>
Sync(c) ==
  /\ Goto(c, "sync", "torun")
  /\ LockFree(c)
  /\ UNCHANGED <<locals, shared, power, caches, cci, broken>>

(* psci_cpu_suspend_finish.                                                *)
Resume(c) ==
  /\ Goto(c, "resume", "torun")
  /\ suspLvl' = [suspLvl EXCEPT ![c] = 3]
  /\ UNCHANGED <<locals, shared, ctx, mailbox, wake, unmasked, caches, cci, broken>>

(* cm_prepare_el3_exit and psci_set_pwr_domains_to_run.                    *)
ToRun(c) ==
  /\ ctx' = ctx \ {c}
  /\ down' = down \ {Node(c, l) : l \in 1..lvl[c]}
  /\ req' = [l \in 1..2 |-> IF l <= lvl[c] THEN req[l] \ {c} ELSE req[l]]
  /\ StoreFlush(Cluster[c], c, "ON")
  /\ ReleaseLocks(c, "torun", "none")
  /\ UNCHANGED <<queue, cpuLock, suspLvl, mailbox, wake, unmasked, cci, broken>>

-----------------------------------------------------------------------------
(* What the OS may call, and what a CPU does once it is in EL3.            *)
Call(c) ==
  \/ Calls[c].off /\ CpuOff(c)
  \/ Calls[c].on /\ \E t \in Cpus \ {c} : CpuOn(c, t)
  \/ Calls[c].info /\ \E t \in Cpus \ {c} : AffinityInfo(c, t)
  \/ \E l \in Calls[c].susp : CpuSuspend(c, l)

Step(c) ==
  \/ InfoLoad(c)
  \/ OnLock(c) \/ OnLook(c) \/ OnRefuse(c) \/ OnAccept(c) \/ OnSet(c)
  \/ OnClean(c) \/ OnVerify(c) \/ OnPower(c) \/ OnContext(c)
  \/ LockGet(c) \/ LockRelease(c) \/ Abandon(c) \/ Coordinate(c)
  \/ PowerDown(c) \/ PlatformDown(c)
  \/ OffFlush(c) \/ OffWrite(c) \/ OffInvalidate(c)
  \/ Reset(c) \/ Check(c) \/ Finish(c) \/ Sync(c) \/ Resume(c) \/ ToRun(c)

(* Once a wipe has hit a lock in use nothing is promised any more; unless  *)
(* BeyondWipe says so the system is not followed any further.              *)
Followed == broken => BeyondWipe
Lost == ~Followed /\ UNCHANGED vars

Next ==
  \/ Lost
  \/ Followed /\ \E c \in Cpus : Call(c) \/ Step(c) \/ PowerUp(c)

Spec == Init /\ [][Next]_vars

(* EL3 code runs on, a requested wake-up is carried out, and a CPU that    *)
(* keeps trying gets the spin lock.  Nothing makes the OS call, and no     *)
(* interrupt has to come.                                                  *)
FairSpec ==
  /\ Spec
  /\ \A c \in Cpus :
       /\ WF_vars(Followed /\ (Step(c) \/ (Woken(c) /\ PowerUp(c))))
       /\ SF_vars(Followed /\ OnLock(c))
       /\ SF_vars(Followed /\ Sync(c))

-----------------------------------------------------------------------------
(* The data cache of a CPU is on.                                          *)
CacheOn(c) ==
  \/ pc[c] \in {"run", "info", "on_lock", "on_look", "on_check", "on_set",
                "on_clean", "on_verify", "on_reset", "on_reclean", "on_power",
                "on_ctx", "locked", "down", "sync", "resume", "torun"}
  \/ pc[c] = "locking" /\ op[c] # "up"
  \/ pc[c] = "unlock" /\ op[c] = "none"

(* A CPU never works through its data cache while its cluster is outside   *)
(* coherency: the last CPU down takes the cluster out (plat_cci_disable),  *)
(* the first one up brings it back before its cache is on.                 *)
Coherent == \A c \in Cpus : CacheOn(c) /\ ~broken => Cluster[c] \in cci

(* The same with no regard to the wipe of the locks: psci_common.c says    *)
(* that once all locks are taken "the system topology is snapshot and      *)
(* state management can be done safely".                                   *)
SnapshotSafe == \A c \in Cpus : CacheOn(c) => Cluster[c] \in cci

(* A CPU the OS runs on has none of its power domains marked OFF and no    *)
(* request for OFF standing, whatever levels the others suspended to.      *)
DomainsRun ==
  \A c \in Cpus, l \in 1..2 :
    pc[c] = "run" /\ ~broken => Node(c, l) \notin down /\ c \notin req[l]

(* A CPU leaves EL3 with the context of the call that started it, although *)
(* CPU_ON powers it up before cm_init_context_by_index.                    *)
EntersWithContext == \A c \in Cpus : pc[c] = "torun" /\ ~broken => c \in ctx

(* No CPU panics in the warm boot path: its mailbox is set and the state   *)
(* ON_PENDING has reached memory, although the CPU's own invalidation may  *)
(* have thrown it away.                                                    *)
NoPanic == \A c \in Cpus : pc[c] # "panic"

(* CPU_ON never takes a CPU for ON that was OFF when it looked, although   *)
(* a stale line may have outlived the target's way out of coherency.       *)
AnswersFresh ==
  \A c \in Cpus : pc[c] = "on_check" /\ seen[c] = "OFF" =>
                    Value(Cluster[c], tgt[c]) = "OFF"

(* The affinity state of a CPU goes round OFF, ON_PENDING, ON: no CPU_ON   *)
(* falls on a CPU that another one has just brought up.                    *)
AffinityCycle ==
  [][\A c \in Cpus : aff'[c] # aff[c] =>
       <<aff[c], aff'[c]>> \in {<<"OFF", "PENDING">>, <<"PENDING", "ON">>,
                                <<"ON", "OFF">>}]_vars

(* When every CPU is in wfi, one of them can be woken: the mask register   *)
(* is written whole, so the last one to suspend masks the others, and has  *)
(* to unmask them when it wakes.                                           *)
Rousable ==
  (\A c \in Cpus : pc[c] = "wfi") =>
    \E c \in Cpus : Woken(c) \/ (op[c] = "susp" /\ c \in unmasked)

(* A CPU that CPU_ON has asked for reaches the OS.                         *)
ComesUp == \A c \in Cpus : aff[c] = "PENDING" ~> (pc[c] = "run" \/ broken)
=============================================================================
