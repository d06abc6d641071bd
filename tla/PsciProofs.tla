----------------------------- MODULE PsciProofs -----------------------------
(***************************************************************************)
(* What the PSCI library promises, for every set of CPUs and clusters and  *)
(* every choice of calls.  The inductive invariant has three layers: the   *)
(* life of one CPU (LifeInv, ReqInv, MaskInv), the locks (SpinInv for      *)
(* cpu_lock, LockInv for the power domains) with the coherency they guard  *)
(* (CciInv), and the copies of the affinity states in memory and caches    *)
(* with what a caller of CPU_ON knows of its target (AffInv, LineInv,      *)
(* OnInv, CtxInv).  All but LockInv survive the wipe of the locks itself,  *)
(* so that the state right after it is covered too.                        *)
(***************************************************************************)
EXTENDS Psci, FiniteSetTheorems, TLAPS

(* Where a CPU runs the OS, or one of its calls that leaves it running.    *)
Idle == {"run", "info", "on_lock", "on_look", "on_check", "on_set", "on_clean",
         "on_verify", "on_reset", "on_reclean", "on_power", "on_ctx"}
Pcs == Idle \cup {"locking", "locked", "down", "plat", "unlock", "off_flush",
                  "off_write", "off_inv", "wfi", "reset", "check", "finish",
                  "sync", "resume", "torun"}

(* The type invariant, in parts.  A CPU never is at "panic".               *)
TypeLocals ==
  /\ pc \in [Cpus -> Pcs] /\ op \in [Cpus -> {"none", "off", "susp", "up"}]
  /\ lvl \in [Cpus -> 0..2] /\ at \in [Cpus -> 0..2] /\ suspLvl \in [Cpus -> 0..3]
TypeCalls ==
  /\ tgt \in [Cpus -> Cpus] /\ seen \in [Cpus -> AffStates]
  /\ cpuLock \in [Cpus -> Cpus \cup {None}]
TypeShared ==
  /\ goal \in [Cpus -> 0..2]
  /\ req \in [1..2 -> SUBSET Cpus] /\ down \in SUBSET Nodes
  /\ ctx \in SUBSET Cpus /\ mailbox \in SUBSET Cpus /\ wake \in SUBSET Cpus
  /\ unmasked \in SUBSET Cpus
TypeCaches ==
  /\ aff \in [Cpus -> AffStates]
  /\ line \in [Clusters -> [Cpus -> AffStates \cup {None}]]
  /\ dirty \in SUBSET (Clusters \X Cpus)
TypeInv == TypeLocals /\ TypeCalls /\ TypeShared /\ TypeCaches

(* A CPU on its way up before its cache is on.                             *)
Waking(c) == op[c] = "up" /\ pc[c] \in {"locking", "finish"}
(* What a CPU is doing fits where it is; target_pwrlvl is set from the     *)
(* moment a suspend powers down until psci_cpu_suspend_finish, and a CPU   *)
(* comes up to that level, to the top if there is none.  The boot CPU is   *)
(* never turned off.                                                       *)
Life(c) ==
  /\ pc[c] \in Idle => op[c] = "none"
  /\ pc[c] \in {"locking", "locked", "down", "plat"} => op[c] # "none"
  /\ pc[c] \in {"locked", "down", "plat", "unlock"} => op[c] # "up"
  /\ pc[c] \in {"off_flush", "off_write", "off_inv"} => op[c] = "off"
  /\ pc[c] \in {"wfi", "reset", "check"} => op[c] \in {"off", "susp"}
  /\ pc[c] \in {"finish", "sync", "resume", "torun"} => op[c] = "up"
  /\ pc[c] = "locking" => 1 <= at[c] /\ at[c] <= lvl[c]
  /\ pc[c] = "unlock" => 1 <= at[c]
  /\ op[c] = "susp" /\ pc[c] \in {"plat", "unlock", "wfi", "reset", "check"}
       => suspLvl[c] # 3
  /\ op[c] = "susp" /\ pc[c] = "plat" => suspLvl[c] = lvl[c]
  /\ pc[c] = "resume" => suspLvl[c] # 3
  /\ suspLvl[c] # 3 =>
       \/ op[c] = "susp" /\ pc[c] \in {"plat", "unlock", "wfi", "reset", "check"}
       \/ Waking(c) \/ pc[c] = "resume"
  /\ Waking(c) \/ pc[c] \in {"sync", "resume"} => lvl[c] = PowerOnLvl(c)
  /\ c = BootCpu => op[c] # "off"
LifeInv == \A c \in Cpus : Life(c)

(* A CPU whose request for OFF may stand, and the highest level it may     *)
(* stand for: the level the CPU will take back on its way up.              *)
Passive(c) ==
  \/ pc[c] \in {"down", "plat", "off_flush", "off_write", "off_inv", "wfi", "reset",
                "check", "finish", "sync", "resume", "torun"}
  \/ pc[c] = "locking" /\ op[c] = "up"
  \/ pc[c] = "unlock" /\ op[c] # "none"
Depth(c) == IF pc[c] \in {"down", "plat", "torun"} THEN lvl[c] ELSE PowerOnLvl(c)
(* The requests and the local states of the power domains.                 *)
ReqInv ==
  /\ \A c \in Cpus, l \in 1..2 : c \in req[l] => Passive(c) /\ l <= Depth(c)
  /\ \A c \in Cpus, l \in 1..2 : Node(c, l) \in down => c \in req[l]

(* A suspended CPU that waits for an interrupt or is just coming up; one   *)
(* of them in each cluster is unmasked.                                    *)
Dozing(c) ==
  \/ op[c] = "susp" /\ pc[c] \in {"unlock", "wfi", "reset", "check"}
  \/ Waking(c) /\ suspLvl[c] # 3
MaskInv == \A c \in Cpus : Dozing(c) =>
             \E d \in Cpus : Cluster[d] = Cluster[c] /\ Dozing(d) /\ d \in unmasked

(* A caller of CPU_ON holds the spin lock of its target, and nobody else.  *)
OnPhase == {"on_look", "on_check", "on_set", "on_clean", "on_verify", "on_reset",
            "on_reclean", "on_power", "on_ctx"}
SpinInv ==
  /\ \A d \in Cpus : pc[d] \in OnPhase => cpuLock[tgt[d]] = d
  /\ \A t \in Cpus : cpuLock[t] # None =>
       tgt[cpuLock[t]] = t /\ pc[cpuLock[t]] \in OnPhase

(* The levels whose lock a CPU has a ticket for, and those it holds.       *)
Top(c) == IF pc[c] \in {"locking", "unlock"} THEN at[c]
          ELSE IF pc[c] \in {"locked", "down", "plat", "finish", "sync", "resume",
                             "torun"} THEN lvl[c] ELSE 0
Held(c) == IF pc[c] = "locking" THEN at[c] - 1 ELSE Top(c)
(* A bakery lock: one ticket per CPU, and the holder is the first.         *)
Distinct(s) == \A i, j \in 1 .. Len(s) : s[i] = s[j] => i = j
In(c, s) == \E i \in 1 .. Len(s) : s[i] = c
Leads(c, s) == s # << >> /\ Head(s) = c
LockInv ==
  /\ queue \in [Nodes -> Seq(Cpus)] /\ \A n \in Nodes : Distinct(queue[n])
  /\ \A c \in Cpus, l \in 1..2 : In(c, queue[Node(c, l)]) <=> l <= Top(c)
  /\ \A c \in Cpus, l \in 1..2 : l <= Held(c) => Leads(c, queue[Node(c, l)])

(* Coherency: a working cache is inside, a cluster that is going off or is *)
(* outside is marked OFF, and only one of several clusters is ever outside. *)
CciInv ==
  /\ cci \in SUBSET Clusters
  /\ \A c \in Cpus : CacheOn(c) => Cluster[c] \in cci
  /\ \A c \in Cpus : pc[c] \in {"down", "plat"} /\ goal[c] > 0 =>
       Cluster[c] \in down /\ lvl[c] > 0
  /\ \A k \in Clusters : k \notin cci => k \in down /\ A53A57

(* A CPU whose affinity state is OFF until CPU_ON asks for it, and one     *)
(* that CPU_ON has started.                                                *)
Off(t) == pc[t] = "off_inv" \/ (op[t] = "off" /\ pc[t] = "wfi")
Starting(t) == \/ op[t] = "off" /\ pc[t] \in {"reset", "check"}
               \/ Waking(t) /\ suspLvl[t] = 3
               \/ pc[t] = "sync"
(* Some cache has a newer copy of t's state.                               *)
Dirty(t) == \E j \in Clusters : <<j, t>> \in dirty
(* The state in memory tells where the CPU is.                             *)
AffInv ==
  /\ \A t \in Cpus : aff[t] = "OFF" => Off(t) /\ t \notin wake
  /\ \A t \in Cpus : aff[t] = "PENDING" => Off(t) \/ Starting(t) \/ pc[t] = "torun"
  /\ \A t \in Cpus : Off(t) => aff[t] # "ON"
  /\ \A t \in Cpus : Starting(t) => aff[t] = "PENDING"
  /\ \A t \in Cpus : t \in wake => Off(t) /\ aff[t] = "PENDING" /\ t \in mailbox

(* The one newer copy there can be is ON_PENDING, in the cache of the      *)
(* caller of CPU_ON, on its way to memory.                                 *)
DirtyInv == \A j \in Clusters, t \in Cpus : <<j, t>> \in dirty =>
  /\ line[j][t] = "PENDING" /\ aff[t] = "OFF"
  /\ cpuLock[t] # None /\ Cluster[cpuLock[t]] = j
  /\ pc[cpuLock[t]] \in {"on_clean", "on_reclean"}
(* Any other copy is that of memory, or an ON that has outlived the CPU.   *)
Fits(v, t) ==
  \/ v = None
  \/ Dirty(t) /\ v = "PENDING"
  \/ ~Dirty(t) /\ (v = aff[t] \/ (v = "ON" /\ aff[t] = "OFF"))
CopyInv == \A k \in Clusters, t \in Cpus : Fits(line[k][t], t)
(* A cluster outside coherency, or about to leave it, has no copies.       *)
EmptyInv ==
  /\ \A k \in Clusters, t \in Cpus : k \notin cci => line[k][t] = None
  /\ \A c \in Cpus, t \in Cpus : pc[c] = "plat" /\ goal[c] > 0 =>
       line[Cluster[c]][t] = None
LineInv == DirtyInv /\ CopyInv /\ EmptyInv

(* What the caller of CPU_ON knows: its target stays in wfi until it is    *)
(* woken, and ON_PENDING has reached memory before the power is turned on. *)
(* The target's own invalidation can throw ON_PENDING away once, not       *)
(* twice.                                                                  *)
OnOK(d) ==
  /\ pc[d] = "on_set" => aff[tgt[d]] = "OFF"
  /\ pc[d] = "on_clean" =>
       Dirty(tgt[d]) \/ aff[tgt[d]] = "PENDING" \/ pc[tgt[d]] # "off_inv"
  /\ pc[d] = "on_verify" => aff[tgt[d]] = "PENDING" \/ pc[tgt[d]] # "off_inv"
  /\ pc[d] = "on_reset" => aff[tgt[d]] = "OFF" /\ pc[tgt[d]] # "off_inv"
  /\ pc[d] = "on_reclean" =>
       (Dirty(tgt[d]) \/ aff[tgt[d]] = "PENDING") /\ pc[tgt[d]] # "off_inv"
  /\ pc[d] \in {"on_power", "on_ctx"} => aff[tgt[d]] = "PENDING"
  /\ pc[d] \in {"on_set", "on_clean", "on_verify", "on_reset", "on_reclean", "on_power"}
       => Off(tgt[d]) /\ tgt[d] \notin wake
  /\ pc[d] = "on_ctx" => Off(tgt[d]) \/ Starting(tgt[d])
  /\ pc[d] = "on_check" /\ seen[d] = "OFF" =>
       aff[tgt[d]] = "OFF" /\ \A k \in Clusters : line[k][tgt[d]] \in {None, "OFF"}
OnInv == \A d \in Cpus : OnOK(d)

(* A pending CPU has its context, or its caller is on its way to set it; a *)
(* suspended CPU has its own; a CPU that will be reset has its mailbox.    *)
CtxInv ==
  /\ \A t \in Cpus : aff[t] = "PENDING" =>
       \/ t \in ctx
       \/ cpuLock[t] # None /\ pc[cpuLock[t]] \in
            {"on_clean", "on_verify", "on_reclean", "on_power", "on_ctx"}
  /\ \A c \in Cpus : pc[c] = "torun" \/ suspLvl[c] # 3 => c \in ctx
  /\ \A c \in Cpus : op[c] = "susp" /\ pc[c] \in {"unlock", "wfi", "reset", "check"}
       => c \in mailbox
  /\ \A c \in Cpus : pc[c] = "reset" => c \in mailbox
-----------------------------------------------------------------------------
(* The two kinds of steps: CPU_ON and AFFINITY_INFO on the caller's side,  *)
(* and the life of the CPU itself.                                         *)
InfoMove(c) ==
  \/ Calls[c].on /\ \E t \in Cpus \ {c} : CpuOn(c, t)
  \/ Calls[c].info /\ \E t \in Cpus \ {c} : AffinityInfo(c, t)
  \/ InfoLoad(c)
  \/ OnLock(c) \/ OnLook(c) \/ OnRefuse(c) \/ OnAccept(c) \/ OnSet(c)
  \/ OnClean(c) \/ OnVerify(c) \/ OnPower(c) \/ OnContext(c)
PowerMove(c) ==
  \/ CpuOff(c) \/ (\E l \in Calls[c].susp : CpuSuspend(c, l))
  \/ LockGet(c) \/ LockRelease(c) \/ Abandon(c) \/ Coordinate(c)
  \/ PowerDown(c) \/ PlatformDown(c)
  \/ OffFlush(c) \/ OffWrite(c) \/ OffInvalidate(c)
  \/ PowerUp(c) \/ Reset(c) \/ Check(c) \/ Finish(c) \/ Sync(c) \/ Resume(c) \/ ToRun(c)

(* Every step of a CPU is of one of the two kinds.                         *)
LEMMA Halves == ASSUME NEW c \in Cpus, Call(c) \/ Step(c) \/ PowerUp(c)
                PROVE  InfoMove(c) \/ PowerMove(c)
  BY DEF Call, Step, InfoMove, PowerMove

(* The caller's side leaves locks, requests and coherency alone.           *)
LEMMA InfoFrame ==
  ASSUME TypeLocals, NEW c \in Cpus, InfoMove(c)
  PROVE  /\ pc[c] \in Idle
         /\ \E p \in Idle : pc' = [pc EXCEPT ![c] = p]
         /\ UNCHANGED <<op, lvl, at, goal, queue, req, down, suspLvl, unmasked>>
         /\ UNCHANGED <<cci, broken>>
<1> USE DEF Idle, Goto, locals, shared, power
<1>1. CASE \E t \in Cpus \ {c} : CpuOn(c, t)
  BY <1>1 DEF CpuOn
<1>2. CASE \E t \in Cpus \ {c} : AffinityInfo(c, t)
  BY <1>2 DEF AffinityInfo
<1>3. CASE InfoLoad(c)
  BY <1>3 DEF InfoLoad
<1>4. CASE OnLock(c)
  BY <1>4 DEF OnLock
<1>5. CASE OnLook(c)
  BY <1>5 DEF OnLook
<1>6. CASE OnRefuse(c)
  BY <1>6 DEF OnRefuse
<1>7. CASE OnAccept(c)
  BY <1>7 DEF OnAccept
<1>8. CASE OnSet(c)
  BY <1>8 DEF OnSet
<1>9. CASE OnClean(c)
  BY <1>9 DEF OnClean
<1>10. CASE OnVerify(c)
  BY <1>10 DEF OnVerify
<1>11. CASE OnPower(c)
  BY <1>11 DEF OnPower
<1>12. CASE OnContext(c)
  BY <1>12 DEF OnContext
<1> QED
  BY <1>1, <1>2, <1>3, <1>4, <1>5, <1>6, <1>7, <1>8, <1>9, <1>10, <1>11,
     <1>12 DEF InfoMove

(* A CPU's own life leaves the calls of CPU_ON alone.                      *)
LEMMA PowerFrame ==
  ASSUME TypeLocals, NEW c \in Cpus, PowerMove(c)
  PROVE  /\ pc[c] \notin Idle \ {"run"}
         /\ \E p : p \notin Idle \ {"run"} /\ pc' = [pc EXCEPT ![c] = p]
         /\ UNCHANGED <<tgt, seen, cpuLock>>
<1> USE DEF Goto, locals, shared, power, Idle
<1>1. CASE CpuOff(c)
  BY <1>1 DEF CpuOff, AcquireLocks, LocksTaken
<1>2. CASE \E l \in Calls[c].susp : CpuSuspend(c, l)
  BY <1>2 DEF CpuSuspend, AcquireLocks, LocksTaken
<1>3. CASE LockGet(c)
  BY <1>3 DEF LockGet, LocksTaken, TypeLocals
<1>4. CASE LockRelease(c)
  BY <1>4 DEF LockRelease, LocksFreed
<1>5. CASE Abandon(c)
  BY <1>5 DEF Abandon, ReleaseLocks, LocksFreed
<1>6. CASE Coordinate(c)
  BY <1>6 DEF Coordinate
<1>7. CASE PowerDown(c)
  BY <1>7 DEF PowerDown
<1>8. CASE PlatformDown(c)
  BY <1>8 DEF PlatformDown, ReleaseLocks, LocksFreed
<1>9. CASE OffFlush(c)
  BY <1>9 DEF OffFlush
<1>10. CASE OffWrite(c)
  BY <1>10 DEF OffWrite
<1>11. CASE OffInvalidate(c)
  BY <1>11 DEF OffInvalidate
<1>12. CASE PowerUp(c)
  BY <1>12 DEF PowerUp
<1>13. CASE Reset(c)
  BY <1>13 DEF Reset
<1>14. CASE Check(c)
  BY <1>14 DEF Check, AcquireLocks, LocksTaken
<1>15. CASE Finish(c)
  BY <1>15 DEF Finish
<1>16. CASE Sync(c)
  BY <1>16 DEF Sync
<1>17. CASE Resume(c)
  BY <1>17 DEF Resume
<1>18. CASE ToRun(c)
  BY <1>18 DEF ToRun, ReleaseLocks, LocksFreed
<1> QED
  BY <1>1, <1>2, <1>3, <1>4, <1>5, <1>6, <1>7, <1>8, <1>9, <1>10, <1>11, <1>12,
     <1>13, <1>14, <1>15, <1>16, <1>17, <1>18 DEF PowerMove

LEMMA SuspendLevels ==
  ASSUME NEW c \in Cpus PROVE Calls[c].susp \subseteq 0..2
  BY TopologyOK DEF CallKinds

(* Life of a CPU: its own steps, then the caller's.                        *)
LEMMA LifePower ==
  ASSUME TypeLocals, LifeInv, AffInv, CtxInv, NEW c \in Cpus, PowerMove(c)
  PROVE  LifeInv' /\ TypeLocals'
<1> USE DEF TypeLocals, LifeInv, Life, Waking, PowerOnLvl, Goto, locals, shared,
    power, Pcs, Idle
<1>1. CASE CpuOff(c)
  BY <1>1 DEF CpuOff, AcquireLocks, LocksTaken
<1>2. CASE \E l \in Calls[c].susp : CpuSuspend(c, l)
  BY <1>2, SuspendLevels DEF CpuSuspend, AcquireLocks, LocksTaken
<1>3. CASE LockGet(c)
  <2>1. CASE at[c] < lvl[c]
    BY <1>3, <2>1 DEF LockGet
  <2>2. CASE ~(at[c] < lvl[c])
    BY <1>3, <2>2 DEF LockGet, LocksTaken
  <2> QED
    BY <2>1, <2>2
<1>4. CASE LockRelease(c)
  BY <1>4 DEF LockRelease, LocksFreed
<1>5. CASE Abandon(c)
  BY <1>5 DEF Abandon, ReleaseLocks, LocksFreed
<1>6. CASE Coordinate(c)
  BY <1>6 DEF Coordinate
<1>7. CASE PowerDown(c)
  BY <1>7 DEF PowerDown
<1>8. CASE PlatformDown(c)
  BY <1>8 DEF PlatformDown, ReleaseLocks, LocksFreed
<1>9. CASE OffFlush(c)
  BY <1>9 DEF OffFlush
<1>10. CASE OffWrite(c)
  BY <1>10 DEF OffWrite
<1>11. CASE OffInvalidate(c)
  BY <1>11 DEF OffInvalidate
<1>12. CASE PowerUp(c)
  BY <1>12 DEF PowerUp, Woken
<1>13. CASE Reset(c)
  BY <1>13 DEF CtxInv, Reset
<1>14. CASE Check(c)
  BY <1>14 DEF AffInv, Off, Check, AcquireLocks, LocksTaken
<1>15. CASE Finish(c)
  BY <1>15 DEF AffInv, Off, Starting, Finish
<1>16. CASE Sync(c)
  BY <1>16 DEF Sync, LockFree
<1>17. CASE Resume(c)
  BY <1>17 DEF Resume
<1>18. CASE ToRun(c)
  BY <1>18 DEF ToRun, ReleaseLocks, LocksFreed
<1> QED
  BY <1>1, <1>2, <1>3, <1>4, <1>5, <1>6, <1>7, <1>8, <1>9, <1>10, <1>11, <1>12,
     <1>13, <1>14, <1>15, <1>16, <1>17, <1>18 DEF PowerMove

(* A node is marked OFF only when all CPUs under it ask for it             *)
(* (psci_do_state_coordination), and psci_set_pwr_domains_to_run takes     *)
(* back whatever was asked for.                                            *)
LEMMA ReqPower ==
  ASSUME TypeLocals, TypeShared, LifeInv, ReqInv, AffInv, CtxInv,
         NEW c \in Cpus, PowerMove(c)
  PROVE  ReqInv'
<1> USE TopologyOK DEF TypeShared, LifeInv, ReqInv, Passive, Depth, Node,
    TypeLocals, Life, Waking, PowerOnLvl, Goto, locals, shared, power, Pcs, Idle
<1>1. CASE CpuOff(c)
  BY <1>1 DEF CpuOff, AcquireLocks, LocksTaken
<1>2. CASE \E l \in Calls[c].susp : CpuSuspend(c, l)
  BY <1>2, SuspendLevels DEF CpuSuspend, AcquireLocks, LocksTaken
<1>3. CASE LockGet(c)
  BY <1>3 DEF LockGet, LocksTaken
<1>4. CASE LockRelease(c)
  BY <1>4 DEF LockRelease, LocksFreed
<1>5. CASE Abandon(c)
  BY <1>5 DEF Abandon, ReleaseLocks, LocksFreed
<1>6. CASE Coordinate(c)
  <2>1. \A d \in Cpus, l \in 1..2 : d \in req[l] => d \in req'[l]
    BY <1>6 DEF Coordinate, Requests
  <2>2. \A d \in Cpus, l \in 1..2 : d \in req'[l] => d \in req[l] \/ (d = c /\ l <= lvl[c])
    BY <1>6 DEF Coordinate, Requests
  <2>3. (\A d \in Cpus, l \in 1..2 : d \in req[l] => Passive(d) /\ l <= Depth(d))'
    BY <1>6, <2>2 DEF Coordinate
  <2>4. ASSUME NEW d \in Cpus, NEW l \in 1..2, Node(d, l) \in down'
        PROVE  d \in req'[l]
    <3>1. CASE Node(d, l) \in down
      BY <3>1, <2>1
    <3>2. CASE Node(d, l) \notin down
      <4>1. PICK j \in 1..lvl[c] : GoesOff(c, j) /\ Node(d, l) = Node(c, j)
        BY <1>6, <2>4, <3>2 DEF Coordinate
      <4>2. j \in 1..2 /\ j = l
        BY <4>1, TopologyOK
      <4>3. Under(Node(c, j)) \subseteq Requests(c)[j]
        BY <4>1, <4>2 DEF GoesOff
      <4>4. req'[l] = Requests(c)[j]
        BY <1>6, <4>2 DEF Coordinate
      <4>5. d \in Under(Node(c, j))
        BY <4>1 DEF Under
      <4> QED
        BY <4>3, <4>4, <4>5
    <3> QED
      BY <3>1, <3>2
  <2> QED
    BY <2>3, <2>4 DEF Coordinate
<1>7. CASE PowerDown(c)
  BY <1>7 DEF PowerDown
<1>8. CASE PlatformDown(c)
  BY <1>8 DEF PlatformDown, ReleaseLocks, LocksFreed
<1>9. CASE OffFlush(c)
  BY <1>9 DEF OffFlush
<1>10. CASE OffWrite(c)
  BY <1>10 DEF OffWrite
<1>11. CASE OffInvalidate(c)
  BY <1>11 DEF OffInvalidate
<1>12. CASE PowerUp(c)
  BY <1>12 DEF PowerUp, Woken
<1>13. CASE Reset(c)
  BY <1>13 DEF CtxInv, Reset
<1>14. CASE Check(c)
  BY <1>14 DEF AffInv, Off, Check, AcquireLocks, LocksTaken
<1>15. CASE Finish(c)
  BY <1>15 DEF AffInv, Off, Starting, Finish
<1>16. CASE Sync(c)
  BY <1>16 DEF Sync, LockFree
<1>17. CASE Resume(c)
  BY <1>17 DEF Resume
<1>18. CASE ToRun(c)
  BY <1>18 DEF ToRun, ReleaseLocks, LocksFreed
<1> QED
  BY <1>1, <1>2, <1>3, <1>4, <1>5, <1>6, <1>7, <1>8, <1>9, <1>10, <1>11, <1>12,
     <1>13, <1>14, <1>15, <1>16, <1>17, <1>18 DEF PowerMove

(* The wake-up masks: who suspends masks the others, who wakes unmasks     *)
(* them.                                                                   *)
LEMMA MaskPower ==
  ASSUME TypeLocals, TypeShared, LifeInv, MaskInv, AffInv, CtxInv,
         NEW c \in Cpus, PowerMove(c)
  PROVE  MaskInv'
<1> USE DEF LifeInv, MaskInv, Dozing, TypeLocals, Life, Waking, PowerOnLvl,
    Goto, locals, shared, power, Pcs, Idle
<1>1. CASE CpuOff(c)
  BY <1>1 DEF CpuOff, AcquireLocks, LocksTaken
<1>2. CASE \E l \in Calls[c].susp : CpuSuspend(c, l)
  BY <1>2, SuspendLevels DEF CpuSuspend, AcquireLocks, LocksTaken
<1>3. CASE LockGet(c)
  BY <1>3 DEF LockGet, LocksTaken
<1>4. CASE LockRelease(c)
  BY <1>4 DEF LockRelease, LocksFreed
<1>5. CASE Abandon(c)
  BY <1>5 DEF Abandon, ReleaseLocks, LocksFreed
<1>6. CASE Coordinate(c)
  BY <1>6 DEF Coordinate
<1>7. CASE PowerDown(c)
  BY <1>7 DEF PowerDown
<1>8. CASE PlatformDown(c)
  BY <1>8 DEF EnableWakeup, Others, PlatformDown, ReleaseLocks, LocksFreed
<1>9. CASE OffFlush(c)
  BY <1>9 DEF OffFlush
<1>10. CASE OffWrite(c)
  BY <1>10 DEF OffWrite
<1>11. CASE OffInvalidate(c)
  BY <1>11 DEF OffInvalidate
<1>12. CASE PowerUp(c)
  BY <1>12 DEF PowerUp, Woken
<1>13. CASE Reset(c)
  BY <1>13 DEF CtxInv, Reset
<1>14. CASE Check(c)
  BY <1>14 DEF AffInv, Off, Check, AcquireLocks, LocksTaken
<1>15. CASE Finish(c)
  BY <1>15 DEF AffInv, Off, Starting, DisableWakeup, Others, Finish
<1>16. CASE Sync(c)
  BY <1>16 DEF Sync, LockFree
<1>17. CASE Resume(c)
  BY <1>17 DEF Resume
<1>18. CASE ToRun(c)
  BY <1>18 DEF ToRun, ReleaseLocks, LocksFreed
<1> QED
  BY <1>1, <1>2, <1>3, <1>4, <1>5, <1>6, <1>7, <1>8, <1>9, <1>10, <1>11, <1>12,
     <1>13, <1>14, <1>15, <1>16, <1>17, <1>18 DEF PowerMove

LEMMA LifeInfo ==
  ASSUME TypeLocals, LifeInv, NEW c \in Cpus, InfoMove(c)
  PROVE  TypeLocals' /\ LifeInv'
<1>1. PICK p \in Idle : pc' = [pc EXCEPT ![c] = p]
  BY InfoFrame
<1>2. pc[c] \in Idle /\ UNCHANGED <<op, lvl, at, suspLvl>>
  BY InfoFrame
<1> QED
  BY <1>1, <1>2 DEF TypeLocals, LifeInv, Life, Waking, PowerOnLvl, Pcs, Idle

LEMMA ReqInfo ==
  ASSUME TypeLocals, LifeInv, ReqInv, NEW c \in Cpus, InfoMove(c)
  PROVE  ReqInv'
<1>1. PICK p \in Idle : pc' = [pc EXCEPT ![c] = p]
  BY InfoFrame
<1>2. pc[c] \in Idle /\ UNCHANGED <<op, lvl, suspLvl, req, down>>
  BY InfoFrame
<1> QED
  BY <1>1, <1>2 DEF TypeLocals, ReqInv, Passive, Depth, PowerOnLvl, Node, Pcs,
     Idle

LEMMA MaskInfo ==
  ASSUME TypeLocals, LifeInv, MaskInv, NEW c \in Cpus, InfoMove(c)
  PROVE  MaskInv'
<1>1. PICK p \in Idle : pc' = [pc EXCEPT ![c] = p]
  BY InfoFrame
<1>2. pc[c] \in Idle /\ UNCHANGED <<op, suspLvl, unmasked>>
  BY InfoFrame
<1> QED
  BY <1>1, <1>2 DEF TypeLocals, MaskInv, Dozing, Waking, Pcs, Idle

(* Steps that take and give no lock.                                       *)
LEMMA LockSame ==
  ASSUME LockInv, UNCHANGED queue,
         \A d \in Cpus : Top(d)' = Top(d) /\ Held(d)' = Held(d)
  PROVE  LockInv'
<1>1. (queue \in [Nodes -> Seq(Cpus)] /\ \A n \in Nodes : Distinct(queue[n]))'
  BY DEF LockInv, Distinct
<1>2. (\A c \in Cpus, l \in 1..2 : In(c, queue[Node(c, l)]) <=> l <= Top(c))'
  BY DEF LockInv, In, Node
<1>3. (\A c \in Cpus, l \in 1..2 : l <= Held(c) => Leads(c, queue[Node(c, l)]))'
  BY DEF LockInv, Leads, Node
<1> QED
  BY <1>1, <1>2, <1>3 DEF LockInv

LEMMA LockInfo ==
  ASSUME TypeLocals, LockInv, NEW c \in Cpus, InfoMove(c)
  PROVE  LockInv'
<1>1. PICK p \in Idle : pc' = [pc EXCEPT ![c] = p]
  BY InfoFrame
<1>2. pc[c] \in Idle /\ UNCHANGED <<op, lvl, at, queue>>
  BY InfoFrame
<1>3. \A d \in Cpus : Top(d)' = Top(d) /\ Held(d)' = Held(d)
  BY <1>1, <1>2 DEF TypeLocals, Top, Held, Idle
<1> QED
  BY <1>2, <1>3, LockSame

LEMMA CciInfo ==
  ASSUME TypeLocals, LifeInv, CciInv, NEW c \in Cpus, InfoMove(c)
  PROVE  CciInv'
<1>1. PICK p \in Idle : pc' = [pc EXCEPT ![c] = p]
  BY InfoFrame
<1>2. pc[c] \in Idle /\ UNCHANGED <<op, lvl, goal, cci, down>>
  BY InfoFrame
<1> QED
  BY <1>1, <1>2 DEF TypeLocals, CciInv, CacheOn, Pcs, Idle

LEMMA SpinPower ==
  ASSUME TypeLocals, TypeCalls, SpinInv, NEW c \in Cpus, PowerMove(c)
  PROVE  SpinInv' /\ TypeCalls'
<1>1. PICK p : p \notin Idle \ {"run"} /\ pc' = [pc EXCEPT ![c] = p]
  BY PowerFrame
<1>2. pc[c] \notin Idle \ {"run"} /\ UNCHANGED <<tgt, seen, cpuLock>>
  BY PowerFrame
<1> QED
  BY <1>1, <1>2, TopologyOK DEF TypeLocals, TypeCalls, SpinInv, OnPhase, Idle

LEMMA SpinInfo ==
  ASSUME TypeLocals, TypeCalls, TypeCaches', SpinInv, NEW c \in Cpus,
         InfoMove(c)
  PROVE  SpinInv' /\ TypeCalls'
<1> USE TopologyOK DEF TypeLocals, TypeCalls, SpinInv, OnPhase, Goto, locals,
    shared, power
<1>1. CASE \E t \in Cpus \ {c} : CpuOn(c, t)
  BY <1>1 DEF CpuOn
<1>2. CASE \E t \in Cpus \ {c} : AffinityInfo(c, t)
  BY <1>2 DEF AffinityInfo
<1>3. CASE InfoLoad(c)
  BY <1>3 DEF InfoLoad
<1>4. CASE OnLock(c)
  BY <1>4 DEF OnLock, LockFree
<1>5. CASE OnLook(c)
  BY <1>5 DEF OnLook, TypeCaches
<1>6. CASE OnRefuse(c)
  BY <1>6 DEF OnRefuse, AffStates
<1>7. CASE OnAccept(c)
  BY <1>7 DEF OnAccept, AffStates
<1>8. CASE OnSet(c)
  BY <1>8 DEF OnSet
<1>9. CASE OnClean(c)
  BY <1>9 DEF OnClean
<1>10. CASE OnVerify(c)
  BY <1>10 DEF OnVerify
<1>11. CASE OnPower(c)
  BY <1>11 DEF OnPower
<1>12. CASE OnContext(c)
  BY <1>12 DEF OnContext
<1> QED
  BY <1>1, <1>2, <1>3, <1>4, <1>5, <1>6, <1>7, <1>8, <1>9, <1>10, <1>11,
     <1>12 DEF InfoMove
-----------------------------------------------------------------------------
(* A ticket more, a ticket less.                                           *)
LEMMA AppendKeeps ==
  ASSUME NEW s \in Seq(Cpus), NEW c \in Cpus, Distinct(s), ~In(c, s)
  PROVE  /\ Append(s, c) \in Seq(Cpus) /\ Distinct(Append(s, c))
         /\ \A d \in Cpus : In(d, Append(s, c)) <=> In(d, s) \/ d = c
         /\ \A d \in Cpus : Leads(d, s) => Leads(d, Append(s, c))
         /\ s = << >> => Leads(c, Append(s, c))
<1>1. /\ Append(s, c) \in Seq(Cpus) /\ Len(Append(s, c)) = Len(s) + 1
      /\ Append(s, c)[Len(s) + 1] = c
      /\ \A i \in 1 .. Len(s) : Append(s, c)[i] = s[i]
  OBVIOUS
<1>2. Distinct(Append(s, c))
  BY <1>1 DEF Distinct, In
<1>3. \A d \in Cpus : In(d, Append(s, c)) <=> In(d, s) \/ d = c
  BY <1>1 DEF In
<1>4. \A d \in Cpus : Leads(d, s) => Leads(d, Append(s, c))
  BY DEF Leads
<1>5. s = << >> => Leads(c, Append(s, c))
  BY DEF Leads
<1> QED
  BY <1>1, <1>2, <1>3, <1>4, <1>5

LEMMA TailDrops ==
  ASSUME NEW s \in Seq(Cpus), s # << >>, Distinct(s)
  PROVE  /\ Tail(s) \in Seq(Cpus) /\ Distinct(Tail(s))
         /\ \A d \in Cpus : In(d, Tail(s)) <=> In(d, s) /\ d # Head(s)
<1>1. /\ Tail(s) \in Seq(Cpus) /\ Len(Tail(s)) = Len(s) - 1 /\ Len(s) \in Nat \ {0}
      /\ \A i \in 1 .. Len(s) - 1 : Tail(s)[i] = s[i + 1]
      /\ Head(s) = s[1]
  OBVIOUS
<1>2. Distinct(Tail(s))
  BY <1>1 DEF Distinct
<1>3. ASSUME NEW d \in Cpus PROVE In(d, Tail(s)) <=> In(d, s) /\ d # Head(s)
  <2>1. In(d, Tail(s)) => In(d, s) /\ d # Head(s)
    BY <1>1 DEF In, Distinct
  <2>2. ASSUME NEW i \in 1 .. Len(s), s[i] = d, d # Head(s) PROVE In(d, Tail(s))
    <3>1. i - 1 \in 1 .. Len(s) - 1 /\ Tail(s)[i - 1] = d
      BY <1>1, <2>2
    <3> QED
      BY <1>1, <3>1 DEF In
  <2> QED
    BY <2>1, <2>2 DEF In
<1> QED
  BY <1>1, <1>2, <1>3

LEMMA FirstIn == ASSUME NEW s \in Seq(Cpus), NEW c \in Cpus, Leads(c, s) PROVE In(c, s)
  BY DEF Leads, In

LEMMA NodesDiffer ==
  ASSUME NEW c \in Cpus, NEW d \in Cpus, NEW l \in 1..2, NEW m \in 1..2,
         Node(c, l) = Node(d, m)
  PROVE  l = m
  BY TopologyOK DEF Node

LEMMA NodesAre == ASSUME NEW c \in Cpus, NEW l \in 1..2 PROVE Node(c, l) \in Nodes
  BY TopologyOK DEF Node, Nodes

(* One ticket more: c queues up at level m.                                *)
LEMMA LockQueue ==
  ASSUME LockInv, NEW c \in Cpus, NEW m \in 1..2, Top(c) = m - 1,
         queue' = [queue EXCEPT ![Node(c, m)] = Append(@, c)],
         Top(c)' = m, Held(c)' = m - 1,
         \A l \in 1..2 : l < m => Leads(c, queue[Node(c, l)]),
         \A d \in Cpus \ {c} : Top(d)' = Top(d) /\ Held(d)' = Held(d)
  PROVE  LockInv'
<1> DEFINE n == Node(c, m)
<1>1. n \in Nodes /\ queue[n] \in Seq(Cpus) /\ Distinct(queue[n]) /\ ~In(c, queue[n])
  BY NodesAre DEF LockInv
<1>2. /\ Append(queue[n], c) \in Seq(Cpus) /\ Distinct(Append(queue[n], c))
      /\ \A d \in Cpus : In(d, Append(queue[n], c)) <=> In(d, queue[n]) \/ d = c
      /\ \A d \in Cpus : Leads(d, queue[n]) => Leads(d, Append(queue[n], c))
  BY <1>1, AppendKeeps
<1>3. queue'[n] = Append(queue[n], c) /\ \A k \in Nodes : k # n => queue'[k] = queue[k]
  BY <1>1 DEF LockInv
<1> HIDE DEF n
<1>4. queue' \in [Nodes -> Seq(Cpus)] /\ \A k \in Nodes : Distinct(queue'[k])
  BY <1>2, <1>3 DEF LockInv
<1>5. ASSUME NEW d \in Cpus, NEW l \in 1..2
      PROVE  /\ In(d, queue'[Node(d, l)]) <=> l <= Top(d)'
             /\ l <= Held(d)' => Leads(d, queue'[Node(d, l)])
  <2>1. Node(d, l) \in Nodes
    BY NodesAre
  <2>2. /\ In(d, queue[Node(d, l)]) <=> l <= Top(d)
        /\ l <= Held(d) => Leads(d, queue[Node(d, l)])
    BY DEF LockInv
  <2>3. CASE d # c
    <3>1. In(d, queue'[Node(d, l)]) <=> In(d, queue[Node(d, l)])
      BY <1>2, <1>3, <2>1, <2>3
    <3>2. Leads(d, queue[Node(d, l)]) => Leads(d, queue'[Node(d, l)])
      BY <1>2, <1>3, <2>1
    <3> QED
      BY <3>1, <3>2, <2>2, <2>3
  <2>4. CASE d = c /\ l = m
    BY <1>2, <1>3, <2>4 DEF n
  <2>5. CASE d = c /\ l # m
    <3>1. Node(d, l) # n
      BY <2>5, NodesDiffer DEF n
    <3>2. queue'[Node(d, l)] = queue[Node(d, l)]
      BY ONLY <3>1, <1>3, <2>1
    <3> QED
      BY <3>2, <2>2, <2>5
  <2> QED
    BY <2>3, <2>4, <2>5
<1> QED
  BY <1>4, <1>5 DEF LockInv, Node, Distinct, In, Leads

(* One ticket less: c, at the head of the queue of its topmost level m.    *)
LEMMA LockUnqueue ==
  ASSUME LockInv, NEW c \in Cpus, NEW m \in 1..2, Top(c) = m, Held(c) = m,
         queue' = [queue EXCEPT ![Node(c, m)] =
                     IF @ # << >> /\ Head(@) = c THEN Tail(@) ELSE @],
         Top(c)' = m - 1, Held(c)' = m - 1,
         \A d \in Cpus \ {c} : Top(d)' = Top(d) /\ Held(d)' = Held(d)
  PROVE  LockInv'
<1> DEFINE n == Node(c, m)
<1>1. /\ n \in Nodes /\ queue[n] \in Seq(Cpus) /\ Distinct(queue[n])
      /\ queue[n] # << >> /\ Head(queue[n]) = c
  BY NodesAre DEF LockInv, Leads
<1>2. /\ Tail(queue[n]) \in Seq(Cpus) /\ Distinct(Tail(queue[n]))
      /\ \A d \in Cpus : In(d, Tail(queue[n])) <=> In(d, queue[n]) /\ d # c
  BY <1>1, TailDrops
<1>3. queue'[n] = Tail(queue[n]) /\ \A k \in Nodes : k # n => queue'[k] = queue[k]
  BY <1>1 DEF LockInv
<1>4. queue' \in [Nodes -> Seq(Cpus)] /\ \A k \in Nodes : Distinct(queue'[k])
  BY <1>2, <1>3 DEF LockInv
<1> HIDE DEF n
<1>5. ASSUME NEW d \in Cpus, NEW l \in 1..2
      PROVE  /\ In(d, queue'[Node(d, l)]) <=> l <= Top(d)'
             /\ l <= Held(d)' => Leads(d, queue'[Node(d, l)])
  <2>1. Node(d, l) \in Nodes
    BY NodesAre
  <2>2. /\ In(d, queue[Node(d, l)]) <=> l <= Top(d)
        /\ l <= Held(d) => Leads(d, queue[Node(d, l)])
    BY DEF LockInv
  <2>3. CASE d # c
    <3>1. In(d, queue'[Node(d, l)]) <=> In(d, queue[Node(d, l)])
      BY <1>2, <1>3, <2>1, <2>3
    <3>2. Leads(d, queue[Node(d, l)]) => Leads(d, queue'[Node(d, l)])
      BY <1>1, <1>3, <2>1, <2>3 DEF Leads
    <3> QED
      BY <3>1, <3>2, <2>2, <2>3
  <2>4. CASE d = c /\ l = m
    BY <1>2, <1>3, <2>4 DEF n
  <2>5. CASE d = c /\ l # m
    <3>1. Node(d, l) # n
      BY <2>5, NodesDiffer DEF n
    <3>2. queue'[Node(d, l)] = queue[Node(d, l)]
      BY <3>1, <1>3, <2>1
    <3> QED
      BY <3>2, <2>2, <2>5
  <2> QED
    BY <2>3, <2>4, <2>5
<1> QED
  BY <1>4, <1>5 DEF LockInv, Node, Distinct, In, Leads

(* Entering the queue of the first level, moving up, giving back.          *)
LEMMA LockAcquire ==
  ASSUME TypeLocals, LockInv, NEW c \in Cpus, NEW l \in 0..2, NEW o,
         NEW from \in {"run", "check"},
         AcquireLocks(c, from, l, o)
  PROVE  LockInv'
<1> USE DEF TypeLocals, AcquireLocks, Goto, LocksTaken, Top, Held
<1>1. Top(c) = 0
  OBVIOUS
<1>2. \A d \in Cpus \ {c} : Top(d)' = Top(d) /\ Held(d)' = Held(d)
  OBVIOUS
<1>3. CASE l = 0
  <2>1. Top(c)' = Top(c) /\ Held(c)' = Held(c) /\ queue' = queue
    BY <1>3
  <2> QED
    BY <2>1, <1>2, LockSame
<1>4. CASE l # 0
  <2>1. Top(c)' = 1 /\ Held(c)' = 0
    BY <1>4
  <2>2. queue' = [queue EXCEPT ![Node(c, 1)] = Append(@, c)]
    BY <1>4
  <2>3. 1 \in 1..2 /\ Top(c) = 1 - 1 /\ Held(c)' = 1 - 1
    BY <1>1, <2>1
  <2>4. \A k \in 1..2 : k < 1 => Leads(c, queue[Node(c, k)])
    OBVIOUS
  <2> QED
    BY ONLY LockInv, c \in Cpus, <1>2, <2>1, <2>2, <2>3, <2>4, LockQueue
<1> QED
  BY <1>3, <1>4

LEMMA LockGetKeeps ==
  ASSUME TypeLocals, LifeInv, LockInv, NEW c \in Cpus, LockGet(c)
  PROVE  LockInv'
<1> DEFINE m == at[c]
<1>1. m \in 1..2 /\ lvl[c] \in 1..2 /\ m <= lvl[c] /\ Top(c) = m /\ Held(c) = m - 1
  BY DEF TypeLocals, LifeInv, Life, LockGet, Top, Held
<1>2. Leads(c, queue[Node(c, m)])
  <2>1. In(c, queue[Node(c, m)])
    BY <1>1 DEF LockInv
  <2>2. Head(queue[Node(c, m)]) = c
    BY <2>1, <1>1, NodesAre DEF LockGet, In, LockInv
  <2>3. queue[Node(c, m)] # << >>
    BY <2>1 DEF In
  <2> QED
    BY <2>2, <2>3 DEF Leads
<1>3. \A l \in 1..2 : l <= m => Leads(c, queue[Node(c, l)])
  BY <1>1, <1>2 DEF LockInv
<1>4. \A d \in Cpus \ {c} : Top(d)' = Top(d) /\ Held(d)' = Held(d)
  BY DEF TypeLocals, LockGet, Goto, Top, Held
<1>5. CASE at[c] < lvl[c]
  <2> DEFINE k == m + 1
  <2>1. k \in 1..2 /\ Top(c) = k - 1 /\ Top(c)' = k /\ Held(c)' = k - 1
    BY <1>1, <1>5 DEF TypeLocals, LockGet, Top, Held
  <2>2. queue' = [queue EXCEPT ![Node(c, k)] = Append(@, c)]
    BY <1>5 DEF LockGet
  <2>3. \A l \in 1..2 : l < k => Leads(c, queue[Node(c, l)])
    BY <1>1, <1>3
  <2> HIDE DEF k
  <2> QED
    BY ONLY LockInv, c \in Cpus, <1>4, <2>1, <2>2, <2>3, LockQueue
<1>6. CASE ~(at[c] < lvl[c])
  <2>1. queue' = queue /\ Top(c)' = m /\ Held(c)' = m
    BY <1>1, <1>6 DEF TypeLocals, LockGet, Goto, LocksTaken, Top, Held
  <2>2. ASSUME NEW d \in Cpus, NEW l \in 1..2
        PROVE  /\ In(d, queue'[Node(d, l)]) <=> l <= Top(d)'
               /\ l <= Held(d)' => Leads(d, queue'[Node(d, l)])
    BY <1>1, <1>3, <1>4, <2>1 DEF LockInv
  <2> QED
    BY <2>1, <2>2 DEF LockInv, Node, Distinct, In, Leads
<1> QED
  BY <1>5, <1>6

LEMMA LockReleaseKeeps ==
  ASSUME TypeLocals, LifeInv, LockInv, NEW c \in Cpus, LockRelease(c)
  PROVE  LockInv'
<1> DEFINE m == at[c]
<1>1. m \in 1..2 /\ Top(c) = m /\ Held(c) = m
  BY DEF TypeLocals, LifeInv, Life, LockRelease, Goto, Top, Held
<1>2. \A d \in Cpus \ {c} : Top(d)' = Top(d) /\ Held(d)' = Held(d)
  BY DEF TypeLocals, LockRelease, Goto, Top, Held
<1>3. Top(c)' = m - 1 /\ Held(c)' = m - 1
  BY <1>1 DEF TypeLocals, LockRelease, Goto, LocksFreed, Top, Held
<1>4. queue' = [queue EXCEPT ![Node(c, m)] =
                  IF @ # << >> /\ Head(@) = c THEN Tail(@) ELSE @]
  BY DEF LockRelease
<1> QED
  BY <1>1, <1>2, <1>3, <1>4, LockUnqueue

(* The bakery locks stay in order unless they were wiped.                  *)
LEMMA LockPower ==
  ASSUME TypeLocals, LifeInv, AffInv, CtxInv, LockInv, ~(broken'),
         NEW c \in Cpus, PowerMove(c)
  PROVE  LockInv'
<1> USE DEF TypeLocals, Top, Held, Goto, locals, shared, power
<1>1. CASE CpuOff(c)
  BY <1>1, LockAcquire DEF CpuOff
<1>2. CASE \E l \in Calls[c].susp : CpuSuspend(c, l)
  BY <1>2, LockAcquire, SuspendLevels DEF CpuSuspend
<1>3. CASE LockGet(c)
  BY <1>3, LockGetKeeps
<1>4. CASE LockRelease(c)
  BY <1>4, LockReleaseKeeps
<1>5. CASE Abandon(c)
  BY <1>5, LockSame DEF Abandon, ReleaseLocks, LocksFreed
<1>6. CASE Coordinate(c)
  BY <1>6, LockSame DEF Coordinate
<1>7. CASE PowerDown(c)
  BY <1>7, LockSame DEF PowerDown
<1>8. CASE PlatformDown(c)
  BY <1>8, LockSame DEF PlatformDown, ReleaseLocks, LocksFreed
<1>9. CASE OffFlush(c)
  BY <1>9, LockSame DEF OffFlush
<1>10. CASE OffWrite(c)
  BY <1>10, LockSame DEF OffWrite
<1>11. CASE OffInvalidate(c)
  BY <1>11, LockSame DEF OffInvalidate
<1>12. CASE PowerUp(c)
  BY <1>12, LockSame DEF PowerUp
<1>13. CASE Reset(c)
  <2>1. queue' = queue
    BY <1>13 DEF Reset, LockInv
  <2> QED
    BY <1>13, <2>1, LockSame DEF Reset
<1>14. CASE Check(c)
  <2>1. aff[c] # "OFF" /\ PowerOnLvl(c) \in 0..2
    BY <1>14 DEF Check, AcquireLocks, AffInv, Off, PowerOnLvl
  <2> QED
    BY <1>14, <2>1, LockAcquire DEF Check
<1>15. CASE Finish(c)
  BY <1>15, LockSame DEF Finish
<1>16. CASE Sync(c)
  BY <1>16, LockSame DEF Sync
<1>17. CASE Resume(c)
  BY <1>17, LockSame DEF Resume
<1>18. CASE ToRun(c)
  BY <1>18, LockSame DEF ToRun, ReleaseLocks, LocksFreed
<1> QED
  BY <1>1, <1>2, <1>3, <1>4, <1>5, <1>6, <1>7, <1>8, <1>9, <1>10, <1>11, <1>12,
     <1>13, <1>14, <1>15, <1>16, <1>17, <1>18 DEF PowerMove

(* Two CPUs never hold the lock of one node.                               *)
LEMMA OneInside ==
  ASSUME LockInv, NEW c \in Cpus, NEW d \in Cpus, NEW l \in 1..2,
         Node(c, l) = Node(d, l), l <= Held(c), l <= Held(d)
  PROVE  c = d
  BY DEF LockInv, Leads

(* While a CPU takes its cluster down, no other one in it uses its cache:  *)
(* it either waits for the lock, or has no request to take back.           *)
LEMMA ClusterQuiet ==
  ASSUME TypeLocals, LifeInv, ReqInv, CciInv, LockInv,
         NEW c \in Cpus, NEW d \in Cpus, d # c, Cluster[d] = Cluster[c],
         pc[c] \in {"down", "plat"}, goal[c] > 0
  PROVE  ~CacheOn(d) /\ Passive(d)
<1>1. Passive(d) /\ 1 <= Depth(d)
  BY TopologyOK DEF CciInv, ReqInv, Node
<1>2. 1 <= Held(c) /\ Node(c, 1) = Node(d, 1)
  BY DEF TypeLocals, CciInv, Held, Top, Node
<1>3. ~(1 <= Held(d))
  BY <1>2, OneInside
<1> QED
  BY <1>1, <1>3 DEF TypeLocals, LifeInv, Life, Passive, Depth, Held, Top,
     CacheOn, Waking

(* state_info: what goes off starts with the cluster.                      *)
LEMMA GoalIs ==
  ASSUME TypeLocals, TypeShared, NEW c \in Cpus, Coordinate(c)
  PROVE  /\ goal' \in [Cpus -> 0..2]
         /\ \A d \in Cpus \ {c} : goal'[d] = goal[d]
         /\ goal'[c] > 0 => Cluster[c] \in down' /\ lvl[c] > 0
<1> DEFINE offs == {l \in 1..lvl[c] : GoesOff(c, l)}
<1>1. lvl[c] \in 0..2
  BY DEF TypeLocals
<1>2. (1 \notin offs => 2 \notin offs) /\ offs \subseteq 1..2
  BY <1>1 DEF GoesOff
<1>3. offs = 1..0 \/ offs = 1..1 \/ offs = 1..2
  BY <1>2
<1>4. goal' = [goal EXCEPT ![c] = Cardinality(offs)]
  BY DEF Coordinate
<1> HIDE DEF offs
<1>5. Cardinality(offs) \in 0..2 /\ (Cardinality(offs) > 0 => 1 \in offs)
  <2>1. \A b \in Int : Cardinality(1..b) = IF 1 > b THEN 0 ELSE b - 1 + 1
    BY FS_Interval
  <2>2. ASSUME NEW b \in 0..2, offs = 1..b
        PROVE  Cardinality(offs) \in 0..2 /\ (Cardinality(offs) > 0 => 1 \in offs)
    <3>1. Cardinality(offs) = b
      BY <2>1, <2>2
    <3> QED
      BY <2>2, <3>1
  <2> QED
    BY <1>3, <2>2
<1>6. goal' \in [Cpus -> 0..2] /\ \A d \in Cpus \ {c} : goal'[d] = goal[d]
  BY <1>4, <1>5 DEF TypeShared
<1>7. goal'[c] = Cardinality(offs)
  BY <1>4 DEF TypeShared
<1>8. 1 \in offs => Node(c, 1) \in down'
  BY DEF Coordinate, offs
<1>9. 1 \in offs => lvl[c] > 0
  BY <1>1 DEF offs
<1> QED
  BY <1>5, <1>6, <1>7, <1>8, <1>9 DEF Node

(* Coherency is left and entered under the lock of the cluster.            *)
LEMMA CciPower ==
  ASSUME TypeLocals, TypeShared, LifeInv, ReqInv, AffInv, CtxInv, CciInv,
         LockInv, NEW c \in Cpus, PowerMove(c)
  PROVE  CciInv'
<1> USE TopologyOK DEF LifeInv, CciInv, CacheOn, TypeLocals, Life, Goto, locals,
    shared, power, LocksTaken, LocksFreed
<1>1. CASE CpuOff(c)
  BY <1>1 DEF CpuOff, AcquireLocks, LocksTaken
<1>2. CASE \E l \in Calls[c].susp : CpuSuspend(c, l)
  BY <1>2, SuspendLevels DEF CpuSuspend, AcquireLocks, LocksTaken
<1>3. CASE LockGet(c)
  BY <1>3 DEF LockGet, LocksTaken
<1>4. CASE LockRelease(c)
  BY <1>4 DEF LockRelease, LocksFreed
<1>5. CASE Abandon(c)
  BY <1>5 DEF Abandon, ReleaseLocks, LocksFreed
<1>6. CASE Coordinate(c)
  <2>1. \A d \in Cpus \ {c} : /\ pc'[d] = pc[d] /\ goal'[d] = goal[d]
                             /\ op'[d] = op[d] /\ lvl'[d] = lvl[d]
    BY <1>6, GoalIs DEF Coordinate
  <2>2. /\ pc[c] = "locked" /\ pc'[c] = "down" /\ Cluster[c] \in cci
        /\ UNCHANGED <<cci, op, lvl>>
    BY <1>6 DEF Coordinate
  <2>3. \A k \in Clusters : k \in down /\ k # Cluster[c] => k \in down'
    <3>1. \A l \in 1..lvl[c] : Node(c, l) \in {Cluster[c], System}
      BY DEF Node
    <3> QED
      BY <1>6, <3>1 DEF Coordinate
  <2>4. ASSUME NEW d \in Cpus, pc'[d] \in {"down", "plat"}, goal'[d] > 0
        PROVE  Cluster[d] \in down' /\ lvl'[d] > 0
    <3>1. CASE d = c
      BY <1>6, <2>2, <2>4, <3>1, GoalIs
    <3>2. CASE d # c
      <4>1. pc[d] \in {"down", "plat"} /\ goal[d] > 0
        BY <2>1, <2>4, <3>2
      <4>2. Cluster[d] # Cluster[c]
        BY <2>2, <3>2, <4>1, ClusterQuiet
      <4> QED
        BY <4>1, <4>2, <2>1, <2>3, <3>2
    <3> QED
      BY <3>1, <3>2
  <2>5. \A d \in Cpus : CacheOn(d)' => Cluster[d] \in cci'
    BY <2>1, <2>2
  <2> QED
    BY <2>2, <2>3, <2>4, <2>5
<1>7. CASE PowerDown(c)
  BY <1>7 DEF PowerDown
<1>8. CASE PlatformDown(c)
  <2>1. \A d \in Cpus \ {c} : /\ pc'[d] = pc[d] /\ goal'[d] = goal[d]
                             /\ op'[d] = op[d] /\ lvl'[d] = lvl[d]
    BY <1>8 DEF PlatformDown, ReleaseLocks, TypeShared
  <2>2. /\ pc[c] = "plat" /\ pc'[c] \in {"unlock", "off_flush", "wfi"}
        /\ op'[c] # "none" /\ down' = down
    BY <1>8 DEF PlatformDown, ReleaseLocks
  <2>3. cci' = IF A53A57 /\ goal[c] > 0 THEN cci \ {Cluster[c]} ELSE cci
    BY <1>8 DEF PlatformDown
  <2>4. ~CacheOn(c)'
    BY <2>2
  <2>5. ASSUME NEW d \in Cpus, d # c, CacheOn(d)' PROVE Cluster[d] \in cci'
    <3>1. CacheOn(d)
      BY <2>1, <2>5
    <3> QED
      BY <2>2, <2>3, <2>5, <3>1, ClusterQuiet
  <2>6. \A d \in Cpus : pc'[d] \in {"down", "plat"} /\ goal'[d] > 0 =>
          Cluster[d] \in down' /\ lvl'[d] > 0
    BY <2>1, <2>2
  <2>7. \A k \in Clusters : k \notin cci' => k \in down' /\ A53A57
    BY <2>2, <2>3
  <2>8. cci' \in SUBSET Clusters
    BY <2>3
  <2> QED
    BY <2>4, <2>5, <2>6, <2>7, <2>8
<1>9. CASE OffFlush(c)
  BY <1>9 DEF OffFlush
<1>10. CASE OffWrite(c)
  BY <1>10 DEF OffWrite
<1>11. CASE OffInvalidate(c)
  BY <1>11 DEF OffInvalidate
<1>12. CASE PowerUp(c)
  BY <1>12 DEF PowerUp, Woken
<1>13. CASE Reset(c)
  BY <1>13 DEF CtxInv, Reset
<1>14. CASE Check(c)
  BY <1>14 DEF AffInv, Off, Check, AcquireLocks, LocksTaken
<1>15. CASE Finish(c)
  <2>1. lvl[c] = PowerOnLvl(c)
    BY <1>15 DEF Finish, Waking
  <2>2. Cluster[c] \notin cci => A53A57 /\ lvl[c] > 0 /\ Cluster[c] \in down
    <3>1. SUFFICES ASSUME Cluster[c] \notin cci
                   PROVE  A53A57 /\ lvl[c] > 0 /\ Cluster[c] \in down
      OBVIOUS
    <3>2. Node(c, 1) \in down /\ A53A57
      BY <3>1 DEF Node
    <3>3. 1 <= Depth(c)
      BY <3>2 DEF ReqInv
    <3> QED
      BY <1>15, <2>1, <3>2, <3>3 DEF Depth, Node, Finish
  <2> QED
    BY <1>15, <2>2 DEF Finish
<1>16. CASE Sync(c)
  BY <1>16 DEF Sync, LockFree
<1>17. CASE Resume(c)
  BY <1>17 DEF Resume
<1>18. CASE ToRun(c)
  <2>1. \A d \in Cpus \ {c} : /\ pc'[d] = pc[d] /\ goal'[d] = goal[d]
                             /\ op'[d] = op[d] /\ lvl'[d] = lvl[d]
    BY <1>18 DEF ToRun, ReleaseLocks, TypeShared
  <2>2. pc[c] = "torun" /\ pc'[c] \in {"unlock", "run"} /\ Cluster[c] \in cci /\ cci' = cci
    BY <1>18 DEF ToRun, ReleaseLocks
  <2>3. \A k \in Clusters : k \in down /\ k # Cluster[c] => k \in down'
    <3>1. \A l \in 1..lvl[c] : Node(c, l) \in {Cluster[c], System}
      BY DEF Node
    <3> QED
      BY <1>18, <3>1 DEF ToRun
  <2>4. ASSUME NEW d \in Cpus, pc'[d] \in {"down", "plat"}, goal'[d] > 0
        PROVE  Cluster[d] \in down' /\ lvl'[d] > 0
    <3>1. d # c /\ pc[d] \in {"down", "plat"} /\ goal[d] > 0
      BY <2>1, <2>2, <2>4
    <3>2. Cluster[d] # Cluster[c]
      BY <2>2, <3>1, ClusterQuiet
    <3> QED
      BY <3>1, <3>2, <2>1, <2>3
  <2>5. \A d \in Cpus : CacheOn(d)' => Cluster[d] \in cci'
    BY <2>1, <2>2
  <2> QED
    BY <2>2, <2>3, <2>4, <2>5
<1> QED
  BY <1>1, <1>2, <1>3, <1>4, <1>5, <1>6, <1>7, <1>8, <1>9, <1>10, <1>11, <1>12,
     <1>13, <1>14, <1>15, <1>16, <1>17, <1>18 DEF PowerMove

-----------------------------------------------------------------------------
(* What the lemmas on the cache operations rest on.                        *)
CacheInv == TypeLocals /\ TypeCalls /\ TypeCaches /\ CciInv /\ LineInv

(* A newer copy is always in reach of the coherent clusters.               *)
LEMMA DirtyCoherent ==
  ASSUME CacheInv, NEW j \in Clusters, NEW t \in Cpus, <<j, t>> \in dirty
  PROVE  j \in cci /\ line[j][t] = "PENDING"
<1>1. /\ cpuLock[t] \in Cpus /\ Cluster[cpuLock[t]] = j
      /\ pc[cpuLock[t]] \in {"on_clean", "on_reclean"}
  BY DEF CacheInv, TypeCalls, LineInv, DirtyInv
<1> QED
  BY <1>1 DEF CacheInv, CciInv, CacheOn, LineInv, DirtyInv

(* What a load returns inside coherency.                                   *)
LEMMA ValueIs ==
  ASSUME CacheInv, NEW k \in cci, NEW t \in Cpus
  PROVE  Value(k, t) = IF line[k][t] # None THEN line[k][t]
                       ELSE IF Dirty(t) THEN "PENDING" ELSE aff[t]
<1>1. Reach(k) = cci /\ cci \subseteq Clusters
  BY DEF Reach, CacheInv, CciInv
<1>2. CASE \E j \in cci : <<j, t>> \in dirty
  <2>1. /\ (CHOOSE j \in cci : <<j, t>> \in dirty) \in cci
        /\ <<(CHOOSE j \in cci : <<j, t>> \in dirty), t>> \in dirty
    BY <1>2
  <2>2. line[CHOOSE j \in cci : <<j, t>> \in dirty][t] = "PENDING"
    BY <2>1, <1>1, DirtyCoherent
  <2>3. Dirty(t)
    BY <1>1, <1>2 DEF Dirty
  <2> QED
    BY <1>1, <1>2, <2>2, <2>3 DEF Value
<1>3. CASE ~\E j \in cci : <<j, t>> \in dirty
  <2>1. ~Dirty(t)
    BY <1>3, DirtyCoherent DEF Dirty
  <2> QED
    BY <1>1, <1>3, <2>1 DEF Value
<1> QED
  BY <1>2, <1>3

(* No copy of t's state is left in a cache.                                *)
Swept(t) ==
  /\ line' \in [Clusters -> [Cpus -> AffStates \cup {None}]]
  /\ dirty' \in SUBSET (Clusters \X Cpus)
  /\ \A j \in Clusters, s \in Cpus : line'[j][s] = IF s = t THEN None ELSE line[j][s]
  /\ \A j \in Clusters, s \in Cpus : <<j, s>> \in dirty' <=> <<j, s>> \in dirty /\ s # t

(* Cleaning and invalidating inside coherency empties every cache; outside *)
(* it finds nothing.                                                       *)
LEMMA SweptIn ==
  ASSUME CacheInv, NEW k \in cci, NEW t \in Cpus,
         line' = Cleared(Reach(k), t), dirty' = dirty \ (Reach(k) \X {t})
  PROVE  Swept(t)
<1>1. Reach(k) = cci
  BY DEF Reach
<1>2. \A j \in Clusters : j \notin cci => line[j][t] = None
  BY DEF CacheInv, LineInv, EmptyInv
<1>3. line' \in [Clusters -> [Cpus -> AffStates \cup {None}]]
  BY <1>1 DEF Cleared, CacheInv, TypeCaches
<1>4. \A j \in Clusters, s \in Cpus : line'[j][s] = IF s = t THEN None ELSE line[j][s]
  BY <1>1, <1>2 DEF Cleared, CacheInv, TypeCaches
<1>5. \A j \in Clusters, s \in Cpus : <<j, s>> \in dirty' <=> <<j, s>> \in dirty /\ s # t
  BY <1>1, DirtyCoherent
<1>6. dirty' \in SUBSET (Clusters \X Cpus)
  BY DEF CacheInv, TypeCaches
<1> QED
  BY <1>3, <1>4, <1>5, <1>6 DEF Swept

LEMMA SweptOut ==
  ASSUME CacheInv, NEW k \in Clusters, k \notin cci, NEW t \in Cpus,
         line' = Cleared(Reach(k), t), dirty' = dirty \ (Reach(k) \X {t})
  PROVE  line' = line /\ dirty' = dirty
<1>1. Reach(k) = {k}
  BY DEF Reach
<1>2. line[k][t] = None /\ line \in [Clusters -> [Cpus -> AffStates \cup {None}]]
  BY DEF CacheInv, LineInv, EmptyInv, TypeCaches
<1>3. [line[k] EXCEPT ![t] = None] = line[k]
  BY <1>2
<1>4. line' = line
  BY <1>1, <1>2, <1>3 DEF Cleared
<1>5. <<k, t>> \notin dirty
  BY DirtyCoherent
<1> QED
  BY <1>1, <1>4, <1>5

(* The four operations inside coherency.                                   *)
LEMMA FlushIn ==
  ASSUME CacheInv, NEW k \in cci, NEW t \in Cpus, Flush(k, t)
  PROVE  Swept(t) /\ aff' = [aff EXCEPT ![t] = IF Dirty(t) THEN "PENDING" ELSE @]
<1>1. Reach(k) = cci /\ cci \subseteq Clusters
  BY DEF Reach, CacheInv, CciInv
<1>2. Swept(t)
  BY SweptIn DEF Flush
<1>3. CASE \E j \in cci : <<j, t>> \in dirty
  <2>1. /\ (CHOOSE j \in cci : <<j, t>> \in dirty) \in cci
        /\ <<(CHOOSE j \in cci : <<j, t>> \in dirty), t>> \in dirty
    BY <1>3
  <2>2. line[CHOOSE j \in cci : <<j, t>> \in dirty][t] = "PENDING"
    BY <2>1, <1>1, DirtyCoherent
  <2>3. Dirty(t)
    BY <1>1, <1>3 DEF Dirty
  <2> QED
    BY <1>1, <1>2, <1>3, <2>2, <2>3 DEF Flush
<1>4. CASE ~\E j \in cci : <<j, t>> \in dirty
  <2>1. ~Dirty(t)
    BY <1>4, DirtyCoherent DEF Dirty
  <2> QED
    BY <1>1, <1>2, <1>4, <2>1 DEF Flush
<1> QED
  BY <1>3, <1>4

LEMMA FlushOut ==
  ASSUME CacheInv, NEW k \in Clusters, k \notin cci, NEW t \in Cpus, Flush(k, t)
  PROVE  UNCHANGED caches
<1>1. line' = line /\ dirty' = dirty
  BY SweptOut DEF Flush
<1>2. ~\E j \in Reach(k) : <<j, t>> \in dirty
  BY DirtyCoherent DEF Reach
<1>3. aff' = [aff EXCEPT ![t] = @]
  BY <1>2 DEF Flush
<1> QED
  BY <1>1, <1>3 DEF caches, CacheInv, TypeCaches

LEMMA StoreIn ==
  ASSUME CacheInv, NEW k \in cci, NEW t \in Cpus, Store(k, t, "PENDING")
  PROVE  /\ line' \in [Clusters -> [Cpus -> AffStates \cup {None}]]
         /\ dirty' \in SUBSET (Clusters \X Cpus)
         /\ \A j \in Clusters, s \in Cpus :
              line'[j][s] = IF s = t THEN IF j = k THEN "PENDING" ELSE None ELSE line[j][s]
         /\ \A j \in Clusters, s \in Cpus :
              <<j, s>> \in dirty' <=> (<<j, s>> \in dirty /\ s # t) \/ (j = k /\ s = t)
         /\ aff' = aff
<1>0. cci \subseteq Clusters /\ k \in Clusters
  BY DEF CacheInv, CciInv
<1>1. Reach(k) = cci
  BY DEF Reach
<1>2. \A j \in Clusters : j \notin cci => line[j][t] = None
  BY DEF CacheInv, LineInv, EmptyInv
<1>3. /\ Cleared(cci, t) \in [Clusters -> [Cpus -> AffStates \cup {None}]]
      /\ \A j \in Clusters, s \in Cpus :
           Cleared(cci, t)[j][s] = IF s = t THEN None ELSE line[j][s]
  BY <1>2 DEF Cleared, CacheInv, TypeCaches
<1>4. line' = [Cleared(cci, t) EXCEPT ![k][t] = "PENDING"]
  BY <1>1 DEF Store
<1>5. line' \in [Clusters -> [Cpus -> AffStates \cup {None}]]
  BY <1>0, <1>3, <1>4 DEF AffStates
<1>6. \A j \in Clusters, s \in Cpus :
        line'[j][s] = IF s = t THEN IF j = k THEN "PENDING" ELSE None ELSE line[j][s]
  BY <1>0, <1>3, <1>4
<1>7. \A j \in Clusters, s \in Cpus :
        <<j, s>> \in dirty' <=> (<<j, s>> \in dirty /\ s # t) \/ (j = k /\ s = t)
  BY <1>1, DirtyCoherent DEF Store
<1>8. dirty' \in SUBSET (Clusters \X Cpus)
  BY <1>0 DEF Store, CacheInv, TypeCaches
<1> QED
  BY <1>5, <1>6, <1>7, <1>8 DEF Store

LEMMA LoadIn ==
  ASSUME CacheInv, NEW k \in cci, NEW t \in Cpus, Load(k, t)
  PROVE  /\ line' \in [Clusters -> [Cpus -> AffStates \cup {None}]]
         /\ \A j \in Clusters, s \in Cpus :
              line'[j][s] = IF j = k /\ s = t THEN Value(k, t) ELSE line[j][s]
         /\ UNCHANGED <<aff, dirty>>
<1>0. k \in Clusters /\ line \in [Clusters -> [Cpus -> AffStates \cup {None}]]
  BY DEF CacheInv, CciInv, TypeCaches
<1>1. Value(k, t) \in AffStates
  BY <1>0, ValueIs DEF CacheInv, TypeCaches, AffStates
<1> QED
  BY <1>0, <1>1 DEF Load
-----------------------------------------------------------------------------
(* Copies were dropped, none of them newer than memory.                    *)
Thinned ==
  /\ line' \in [Clusters -> [Cpus -> AffStates \cup {None}]] /\ UNCHANGED <<aff, dirty>>
  /\ \A j \in Clusters, s \in Cpus :
       line'[j][s] = line[j][s] \/ (line'[j][s] = None /\ <<j, s>> \notin dirty)

(* The cache steps of a CPU's own life.                                    *)
LEMMA OffFlushIs ==
  ASSUME CacheInv, AffInv, NEW c \in Cpus, OffFlush(c)
  PROVE  Thinned
<1> DEFINE k == Cluster[c]
<1>0. k \in Clusters
  BY TopologyOK
<1>1. Flush(k, c) /\ pc[c] = "off_flush"
  BY DEF OffFlush, Goto
<1>2. \A j \in Clusters : <<j, c>> \notin dirty
  BY <1>1 DEF CacheInv, LineInv, DirtyInv, AffInv, Off
<1>3. CASE k \in cci
  <2>1. Swept(c) /\ aff' = [aff EXCEPT ![c] = IF Dirty(c) THEN "PENDING" ELSE @]
    BY <1>1, <1>3, FlushIn
  <2>2. aff' = aff
    BY <1>2, <2>1 DEF Dirty, CacheInv, TypeCaches
  <2>3. dirty' = dirty
    <3>1. dirty \in SUBSET (Clusters \X Cpus) /\ dirty' \in SUBSET (Clusters \X Cpus)
      BY <2>1 DEF Swept, CacheInv, TypeCaches
    <3>2. \A j \in Clusters, s \in Cpus : <<j, s>> \in dirty' <=> <<j, s>> \in dirty
      BY <1>2, <2>1 DEF Swept
    <3> QED
      BY ONLY <3>1, <3>2, SMTT(20)
  <2> QED
    BY <1>2, <2>1, <2>2, <2>3 DEF Swept, Thinned
<1>4. CASE k \notin cci
  BY <1>0, <1>1, <1>4, FlushOut DEF caches, Thinned, CacheInv, TypeCaches
<1> QED
  BY <1>3, <1>4

LEMMA PowerDownIs ==
  ASSUME CacheInv, LifeInv, ReqInv, LockInv, NEW c \in Cpus, PowerDown(c)
  PROVE  Thinned /\ (goal[c] > 0 => \A t \in Cpus : line'[Cluster[c]][t] = None)
<1> DEFINE k == Cluster[c]
<1>0. k \in Clusters
  BY TopologyOK
<1>1. CASE goal[c] > 0
  <2>1. FlushCluster(k) /\ pc[c] = "down"
    BY <1>1 DEF PowerDown, Goto
  <2>2. ASSUME NEW t \in Cpus, <<k, t>> \in dirty PROVE FALSE
    <3> DEFINE h == cpuLock[t]
    <3>1. h \in Cpus /\ Cluster[h] = k /\ pc[h] \in {"on_clean", "on_reclean"}
      BY <1>0, <2>2 DEF CacheInv, TypeCalls, LineInv, DirtyInv
    <3>2. CacheOn(h) /\ h # c
      BY <2>1, <3>1 DEF CacheOn
    <3> QED
      BY <1>1, <2>1, <3>1, <3>2, ClusterQuiet DEF CacheInv
  <2>3. aff' = aff
    BY <2>1, <2>2 DEF FlushCluster, CacheInv, TypeCaches
  <2>4. dirty' = dirty
    BY <2>1, <2>2 DEF FlushCluster
  <2>5. line' = [line EXCEPT ![k] = [t \in Cpus |-> None]]
    BY <2>1 DEF FlushCluster
  <2> QED
    BY <1>0, <2>2, <2>3, <2>4, <2>5 DEF Thinned, CacheInv, TypeCaches
<1>2. CASE ~(goal[c] > 0)
  BY <1>2 DEF PowerDown, Thinned, caches, CacheInv, TypeCaches
<1> QED
  BY <1>1, <1>2

LEMMA OffInvalidateIs ==
  ASSUME CacheInv, NEW c \in Cpus, OffInvalidate(c)
  PROVE  aff' = aff /\ (Swept(c) \/ UNCHANGED <<line, dirty>>)
<1> DEFINE k == Cluster[c]
<1>0. k \in Clusters
  BY TopologyOK
<1>1. Invalidate(k, c)
  BY DEF OffInvalidate
<1> QED
  BY <1>0, <1>1, SweptIn, SweptOut DEF Invalidate

LEMMA ToRunIs ==
  ASSUME CacheInv, NEW c \in Cpus, ToRun(c)
  PROVE  Swept(c) /\ aff' = [aff EXCEPT ![c] = "ON"]
<1> DEFINE k == Cluster[c]
<1>0. k \in cci
  BY DEF CacheInv, CciInv, CacheOn, ToRun, ReleaseLocks, Goto
<1>1. StoreFlush(k, c, "ON")
  BY DEF ToRun
<1> QED
  BY <1>0, <1>1, SweptIn DEF StoreFlush

(* The state in memory under a CPU's own steps.                            *)
LEMMA AffPower ==
  ASSUME CacheInv, TypeShared, LifeInv, ReqInv, SpinInv, LockInv, AffInv, OnInv,
         CtxInv, NEW c \in Cpus, PowerMove(c)
  PROVE  AffInv'
<1> USE DEF LifeInv, Life, AffInv, CtxInv, Off, Starting, TypeLocals, TypeCalls,
    TypeCaches, Waking, PowerOnLvl, Goto, locals, shared, power, caches,
    LocksTaken, LocksFreed
<1>0. TypeLocals /\ TypeCalls /\ TypeCaches
  BY DEF CacheInv
<1>1. CASE CpuOff(c)
  BY <1>0, <1>1 DEF CpuOff, AcquireLocks, LocksTaken
<1>2. CASE \E l \in Calls[c].susp : CpuSuspend(c, l)
  BY <1>0, <1>2, SuspendLevels DEF CpuSuspend, AcquireLocks, LocksTaken
<1>3. CASE LockGet(c)
  <2>1. PICK p \in {"finish", "locked", "locking"} : pc' = [pc EXCEPT ![c] = p]
    BY <1>0, <1>3 DEF LockGet
  <2>2. /\ pc[c] = "locking" /\ (pc'[c] = "finish" => op[c] = "up")
        /\ pc'[c] = "locked" => op[c] # "up"
    BY <1>0, <1>3 DEF LockGet
  <2>3. UNCHANGED <<op, suspLvl, ctx, mailbox, wake, aff, line, dirty, tgt, seen, cpuLock>>
    BY <1>3 DEF LockGet
  <2> QED
    BY <1>0, <2>1, <2>2, <2>3
<1>4. CASE LockRelease(c)
  BY <1>0, <1>4 DEF LockRelease, LocksFreed
<1>5. CASE Abandon(c)
  BY <1>0, <1>5 DEF Abandon, ReleaseLocks, LocksFreed
<1>6. CASE Coordinate(c)
  BY <1>0, <1>6 DEF Coordinate
<1>7. CASE PowerDown(c)
  <2>1. aff' = aff
    BY <1>7, PowerDownIs DEF Thinned
  <2> QED
    BY <1>0, <1>7, <2>1 DEF PowerDown
<1>8. CASE PlatformDown(c)
  BY <1>0, <1>8 DEF PlatformDown, ReleaseLocks, LocksFreed
<1>9. CASE OffFlush(c)
  <2>1. aff' = aff
    BY <1>9, OffFlushIs DEF Thinned
  <2> QED
    BY <1>0, <1>9, <2>1 DEF OffFlush
<1>10. CASE OffWrite(c)
  <2>1. aff' = [aff EXCEPT ![c] = "OFF"]
    BY <1>10 DEF OffWrite, StoreUncached
  <2> QED
    BY <1>0, <1>10, <2>1 DEF OffWrite
<1>11. CASE OffInvalidate(c)
  <2>1. aff' = aff
    BY <1>11, OffInvalidateIs
  <2> QED
    BY <1>0, <1>11, <2>1 DEF OffInvalidate
<1>12. CASE PowerUp(c)
  BY <1>0, <1>12 DEF PowerUp, Woken
<1>13. CASE Reset(c)
  BY <1>0, <1>13 DEF Reset
<1>14. CASE Check(c)
  <2>1. aff[c] # "OFF" /\ pc[c] = "check"
    BY <1>14 DEF Check, AcquireLocks
  <2>2. PICK p \in {"finish", "locking"} : pc' = [pc EXCEPT ![c] = p]
    BY <1>14, <2>1 DEF Check, AcquireLocks
  <2>3. /\ op' = [op EXCEPT ![c] = "up"] /\ UNCHANGED <<suspLvl, ctx, mailbox, wake>>
        /\ UNCHANGED <<aff, line, dirty, tgt, seen, cpuLock, cci, goal>>
    BY <1>14, <2>1 DEF Check, AcquireLocks
  <2> QED
    BY <1>0, <2>1, <2>2, <2>3
<1>15. CASE Finish(c)
  BY <1>0, <1>15 DEF Finish
<1>16. CASE Sync(c)
  BY <1>0, <1>16 DEF Sync, LockFree
<1>17. CASE Resume(c)
  BY <1>0, <1>17 DEF Resume
<1>18. CASE ToRun(c)
  <2>1. aff' = [aff EXCEPT ![c] = "ON"]
    BY <1>18, ToRunIs
  <2>2. PICK p \in {"run", "unlock"} : pc[c] = "torun" /\ pc' = [pc EXCEPT ![c] = p]
    BY <1>18 DEF ToRun, ReleaseLocks
  <2>3. /\ op' = [op EXCEPT ![c] = "none"]
        /\ UNCHANGED <<suspLvl, mailbox, wake, tgt, cpuLock>>
        /\ ctx' = ctx \ {c}
    BY <1>18 DEF ToRun, ReleaseLocks
  <2> QED
    BY <1>0, <2>1, <2>2, <2>3
<1> QED
  BY <1>0, <1>1, <1>2, <1>3, <1>4, <1>5, <1>6, <1>7, <1>8, <1>9, <1>10, <1>11,
     <1>12, <1>13, <1>14, <1>15, <1>16, <1>17, <1>18 DEF PowerMove

(* The entry context is used up by cm_prepare_el3_exit.                    *)
LEMMA CtxToRun ==
  ASSUME CacheInv, LifeInv, CtxInv, NEW c \in Cpus, ToRun(c)
  PROVE  CtxInv'
<1>0. TypeLocals /\ TypeCalls /\ TypeCaches
  BY DEF CacheInv
<1>1. aff' = [aff EXCEPT ![c] = "ON"]
  BY ToRunIs
<1>2. PICK p \in {"run", "unlock"} : pc[c] = "torun" /\ pc' = [pc EXCEPT ![c] = p]
  BY DEF ToRun, ReleaseLocks, Goto, LocksFreed
<1>3. /\ op' = [op EXCEPT ![c] = "none"] /\ UNCHANGED <<suspLvl, mailbox, cpuLock>>
      /\ ctx' = ctx \ {c}
  BY DEF ToRun, ReleaseLocks
<1>4. suspLvl[c] = 3
  BY <1>2 DEF LifeInv, Life, Waking
<1>5. \A d \in Cpus \ {c} : pc'[d] = pc[d] /\ op'[d] = op[d] /\ aff'[d] = aff[d]
  BY <1>0, <1>1, <1>2, <1>3 DEF TypeLocals, TypeCaches
<1>6. pc'[c] \in {"run", "unlock"} /\ op'[c] = "none" /\ aff'[c] = "ON"
  BY <1>0, <1>1, <1>2, <1>3 DEF TypeLocals, TypeCaches
<1>7. ASSUME NEW t \in Cpus, aff'[t] = "PENDING", t \notin ctx'
      PROVE  cpuLock'[t] # None /\ pc'[cpuLock'[t]] \in
               {"on_clean", "on_verify", "on_reclean", "on_power", "on_ctx"}
  <2>1. t # c /\ aff[t] = "PENDING" /\ t \notin ctx
    BY <1>3, <1>5, <1>6, <1>7
  <2>2. cpuLock[t] # None /\ pc[cpuLock[t]] \in
          {"on_clean", "on_verify", "on_reclean", "on_power", "on_ctx"}
    BY <2>1 DEF CtxInv
  <2>3. cpuLock[t] \in Cpus /\ cpuLock[t] # c
    BY <1>0, <1>2, <2>2 DEF TypeCalls
  <2> QED
    BY <1>3, <1>5, <2>2, <2>3
<1> QED
  BY <1>3, <1>4, <1>5, <1>6, <1>7 DEF CtxInv

LEMMA CtxPower ==
  ASSUME CacheInv, TypeShared, LifeInv, ReqInv, SpinInv, LockInv, AffInv, OnInv,
         CtxInv, NEW c \in Cpus, PowerMove(c)
  PROVE  CtxInv'
<1> USE TopologyOK DEF LifeInv, Life, AffInv, CtxInv, SpinInv, OnPhase, Off,
    Starting, TypeLocals, TypeCalls, TypeCaches, Waking, PowerOnLvl, Goto,
    locals, shared, power, caches, LocksTaken, LocksFreed
<1>0. TypeLocals /\ TypeCalls /\ TypeCaches
  BY DEF CacheInv
<1>1. CASE CpuOff(c)
  BY <1>0, <1>1 DEF CpuOff, AcquireLocks, LocksTaken
<1>2. CASE \E l \in Calls[c].susp : CpuSuspend(c, l)
  BY <1>0, <1>2, SuspendLevels DEF CpuSuspend, AcquireLocks, LocksTaken
<1>3. CASE LockGet(c)
  <2>1. PICK p \in {"finish", "locked", "locking"} : pc' = [pc EXCEPT ![c] = p]
    BY <1>0, <1>3 DEF LockGet
  <2>2. /\ pc[c] = "locking" /\ (pc'[c] = "finish" => op[c] = "up")
        /\ pc'[c] = "locked" => op[c] # "up"
    BY <1>0, <1>3 DEF LockGet
  <2>3. UNCHANGED <<op, suspLvl, ctx, mailbox, wake, aff, line, dirty, tgt, seen, cpuLock>>
    BY <1>3 DEF LockGet
  <2> QED
    BY <1>0, <2>1, <2>2, <2>3
<1>4. CASE LockRelease(c)
  BY <1>0, <1>4 DEF LockRelease, LocksFreed
<1>5. CASE Abandon(c)
  BY <1>0, <1>5 DEF Abandon, ReleaseLocks, LocksFreed
<1>6. CASE Coordinate(c)
  BY <1>0, <1>6 DEF Coordinate
<1>7. CASE PowerDown(c)
  <2>1. aff' = aff
    BY <1>7, PowerDownIs DEF Thinned
  <2> QED
    BY <1>0, <1>7, <2>1 DEF PowerDown
<1>8. CASE PlatformDown(c)
  BY <1>0, <1>8 DEF PlatformDown, ReleaseLocks, LocksFreed
<1>9. CASE OffFlush(c)
  <2>1. aff' = aff
    BY <1>9, OffFlushIs DEF Thinned
  <2> QED
    BY <1>0, <1>9, <2>1 DEF OffFlush
<1>10. CASE OffWrite(c)
  <2>1. aff' = [aff EXCEPT ![c] = "OFF"]
    BY <1>10 DEF OffWrite, StoreUncached
  <2> QED
    BY <1>0, <1>10, <2>1 DEF OffWrite
<1>11. CASE OffInvalidate(c)
  <2>1. aff' = aff
    BY <1>11, OffInvalidateIs
  <2> QED
    BY <1>0, <1>11, <2>1 DEF OffInvalidate
<1>12. CASE PowerUp(c)
  BY <1>0, <1>12 DEF PowerUp, Woken
<1>13. CASE Reset(c)
  BY <1>0, <1>13 DEF Reset
<1>14. CASE Check(c)
  <2>1. aff[c] # "OFF" /\ pc[c] = "check"
    BY <1>14 DEF Check, AcquireLocks
  <2>2. PICK p \in {"finish", "locking"} : pc' = [pc EXCEPT ![c] = p]
    BY <1>14, <2>1 DEF Check, AcquireLocks
  <2>3. /\ op' = [op EXCEPT ![c] = "up"] /\ UNCHANGED <<suspLvl, ctx, mailbox, wake>>
        /\ UNCHANGED <<aff, line, dirty, tgt, seen, cpuLock, cci, goal>>
    BY <1>14, <2>1 DEF Check, AcquireLocks
  <2> QED
    BY <1>0, <2>1, <2>2, <2>3
<1>15. CASE Finish(c)
  BY <1>0, <1>15 DEF Finish
<1>16. CASE Sync(c)
  BY <1>0, <1>16 DEF Sync, LockFree
<1>17. CASE Resume(c)
  BY <1>0, <1>17 DEF Resume
<1>18. CASE ToRun(c)
  BY <1>18, CtxToRun
<1> QED
  BY <1>0, <1>1, <1>2, <1>3, <1>4, <1>5, <1>6, <1>7, <1>8, <1>9, <1>10, <1>11,
     <1>12, <1>13, <1>14, <1>15, <1>16, <1>17, <1>18 DEF PowerMove

(* Who is about to flush its newer copy of t's state keeps the lock.       *)
Kept(t) == Dirty(t) => /\ cpuLock'[t] = cpuLock[t]
                       /\ pc'[cpuLock[t]] \in {"on_clean", "on_reclean"}

(* Dropping copies keeps the rest in order.                                *)
LEMMA LineThinned ==
  ASSUME CacheInv, Thinned, \A t \in Cpus : Kept(t),
         \A k \in Clusters : k \in cci /\ k \notin cci' =>
           \A t \in Cpus : line'[k][t] = None,
         \A d \in Cpus : pc'[d] = "plat" /\ goal'[d] > 0 =>
           (pc[d] = "plat" /\ goal[d] > 0) \/ \A t \in Cpus : line'[Cluster[d]][t] = None
  PROVE  LineInv'
<1>0. TypeCalls /\ DirtyInv /\ CopyInv /\ EmptyInv
  BY DEF CacheInv, LineInv
<1>1. DirtyInv'
  <2>1. ASSUME NEW j \in Clusters, NEW t \in Cpus, <<j, t>> \in dirty
        PROVE  /\ line'[j][t] = "PENDING" /\ aff[t] = "OFF"
               /\ cpuLock'[t] # None /\ Cluster[cpuLock'[t]] = j
               /\ pc'[cpuLock'[t]] \in {"on_clean", "on_reclean"}
    <3>1. /\ line[j][t] = "PENDING" /\ aff[t] = "OFF"
          /\ cpuLock[t] # None /\ Cluster[cpuLock[t]] = j
          /\ pc[cpuLock[t]] \in {"on_clean", "on_reclean"}
      BY <1>0, <2>1 DEF DirtyInv
    <3>2. cpuLock'[t] = cpuLock[t] /\ pc'[cpuLock[t]] \in {"on_clean", "on_reclean"}
      BY <2>1 DEF Kept, Dirty
    <3> QED
      BY <2>1, <3>1, <3>2 DEF Thinned
  <2> QED
    BY <2>1 DEF Thinned, DirtyInv
<1>2. CopyInv'
  <2>1. \A t \in Cpus : Dirty(t)' <=> Dirty(t)
    BY DEF Thinned, Dirty
  <2>2. ASSUME NEW k \in Clusters, NEW t \in Cpus PROVE Fits(line[k][t], t)'
    <3>1. Fits(line[k][t], t)
      BY <1>0 DEF CopyInv
    <3>2. aff'[t] = aff[t] /\ (line'[k][t] = line[k][t] \/ line'[k][t] = None)
      BY DEF Thinned
    <3> QED
      BY <2>1, <3>1, <3>2 DEF Fits
  <2> QED
    BY <2>2 DEF CopyInv
<1>3. EmptyInv'
  <2>1. ASSUME NEW k \in Clusters, NEW t \in Cpus, k \notin cci' PROVE line'[k][t] = None
    <3>1. line'[k][t] = line[k][t] \/ line'[k][t] = None
      BY DEF Thinned
    <3> QED
      BY <1>0, <2>1, <3>1 DEF EmptyInv
  <2>2. ASSUME NEW d \in Cpus, NEW t \in Cpus, pc'[d] = "plat", goal'[d] > 0
        PROVE  line'[Cluster[d]][t] = None
    <3>1. Cluster[d] \in Clusters
      BY TopologyOK
    <3>2. line'[Cluster[d]][t] = line[Cluster[d]][t] \/ line'[Cluster[d]][t] = None
      BY <3>1 DEF Thinned
    <3> QED
      BY <1>0, <2>2, <3>2 DEF EmptyInv
  <2> QED
    BY <2>1, <2>2 DEF EmptyInv
<1> QED
  BY <1>1, <1>2, <1>3 DEF LineInv

(* The other steps of a CPU's life do not touch the copies.                *)
LEMMA CachesKept ==
  ASSUME TypeLocals, TypeShared, LifeInv, CtxInv, NEW c \in Cpus, PowerMove(c),
         ~OffFlush(c), ~OffWrite(c), ~OffInvalidate(c), ~PowerDown(c), ~ToRun(c)
  PROVE  /\ UNCHANGED caches
         /\ \A d \in Cpus : pc'[d] = "plat" /\ goal'[d] > 0 => pc[d] = "plat" /\ goal[d] > 0
         /\ \A k \in Clusters : k \in cci /\ k \notin cci' =>
              pc[c] = "plat" /\ goal[c] > 0 /\ k = Cluster[c]
<1> USE DEF TypeLocals, TypeShared, Goto, locals, shared, power, LocksTaken,
    LocksFreed
<1>1. CASE CpuOff(c)
  BY <1>1 DEF CpuOff, AcquireLocks, LocksTaken
<1>2. CASE \E l \in Calls[c].susp : CpuSuspend(c, l)
  BY <1>2, SuspendLevels DEF CpuSuspend, AcquireLocks, LocksTaken
<1>3. CASE LockGet(c)
  BY <1>3 DEF LockGet, LocksTaken
<1>4. CASE LockRelease(c)
  BY <1>4 DEF LockRelease, LocksFreed
<1>5. CASE Abandon(c)
  BY <1>5 DEF Abandon, ReleaseLocks, LocksFreed
<1>6. CASE Coordinate(c)
  <2>1. \A d \in Cpus \ {c} : goal'[d] = goal[d] /\ pc'[d] = pc[d]
    BY <1>6, GoalIs DEF Coordinate
  <2> QED
    BY <1>6, <2>1 DEF Coordinate
<1>7. CASE PowerDown(c)
  BY <1>7
<1>8. CASE PlatformDown(c)
  BY <1>8 DEF PlatformDown, ReleaseLocks, LocksFreed
<1>9. CASE OffFlush(c)
  BY <1>9
<1>10. CASE OffWrite(c)
  BY <1>10
<1>11. CASE OffInvalidate(c)
  BY <1>11
<1>12. CASE PowerUp(c)
  BY <1>12 DEF PowerUp, Woken
<1>13. CASE Reset(c)
  BY <1>13 DEF Reset
<1>14. CASE Check(c)
  BY <1>14 DEF Check, AcquireLocks, LocksTaken
<1>15. CASE Finish(c)
  BY <1>15 DEF Finish
<1>16. CASE Sync(c)
  BY <1>16 DEF Sync, LockFree
<1>17. CASE Resume(c)
  BY <1>17 DEF Resume
<1>18. CASE ToRun(c)
  BY <1>18
<1> QED
  BY <1>1, <1>2, <1>3, <1>4, <1>5, <1>6, <1>7, <1>8, <1>9, <1>10, <1>11, <1>12,
     <1>13, <1>14, <1>15, <1>16, <1>17, <1>18 DEF PowerMove

(* The copies under a CPU's own steps.                                     *)
LEMMA LinePower ==
  ASSUME CacheInv, TypeShared, LifeInv, ReqInv, SpinInv, LockInv, AffInv,
         CtxInv,
         NEW c \in Cpus, PowerMove(c)
  PROVE  LineInv' /\ TypeCaches'
<1>0. TypeLocals /\ TypeCalls /\ TypeCaches /\ LineInv
  BY DEF CacheInv
<1>1. cpuLock' = cpuLock /\ pc[c] \notin {"on_clean", "on_reclean"}
      /\ \A d \in Cpus \ {c} : pc'[d] = pc[d]
  BY <1>0, PowerFrame DEF TypeLocals, Idle
<1>2. \A t \in Cpus : Kept(t)
  <2>1. ASSUME NEW t \in Cpus, NEW j \in Clusters, <<j, t>> \in dirty
        PROVE  cpuLock'[t] = cpuLock[t] /\ pc'[cpuLock[t]] \in {"on_clean", "on_reclean"}
    <3>1. cpuLock[t] \in Cpus /\ pc[cpuLock[t]] \in {"on_clean", "on_reclean"}
      BY <1>0, <2>1 DEF LineInv, DirtyInv, TypeCalls
    <3> QED
      BY <1>1, <3>1
  <2> QED
    BY <2>1 DEF Kept, Dirty
<1>3. CASE OffFlush(c)
  <2>1. Thinned
    BY <1>3, OffFlushIs
  <2>2. pc'[c] = "off_write" /\ UNCHANGED <<goal, cci>>
    BY <1>0, <1>3 DEF OffFlush, Goto, locals, TypeLocals
  <2> QED
    BY <1>0, <1>1, <1>2, <2>1, <2>2, LineThinned DEF Thinned, TypeCaches
<1>4. CASE PowerDown(c)
  <2>1. Thinned /\ (goal[c] > 0 => \A t \in Cpus : line'[Cluster[c]][t] = None)
    BY <1>4, PowerDownIs
  <2>2. UNCHANGED <<goal, cci>>
    BY <1>4 DEF PowerDown, locals
  <2> QED
    BY <1>0, <1>1, <1>2, <2>1, <2>2, LineThinned DEF Thinned, TypeCaches
<1>5. CASE OffWrite(c)
  <2>1. aff' = [aff EXCEPT ![c] = "OFF"] /\ UNCHANGED <<goal, cci, line, dirty>>
    BY <1>5 DEF OffWrite, StoreUncached, locals
  <2>2. pc[c] = "off_write" /\ pc'[c] = "off_inv"
    BY <1>0, <1>5 DEF OffWrite, Goto, TypeLocals
  <2>3. aff[c] = "ON"
    BY <1>0, <2>2 DEF AffInv, Off, Starting, Waking, TypeCaches, AffStates
  <2>4. ~Dirty(c)
    BY <1>0, <2>3 DEF LineInv, DirtyInv, Dirty
  <2>5. TypeCaches' /\ \A t \in Cpus : aff'[t] = IF t = c THEN "OFF" ELSE aff[t]
    BY <1>0, <2>1 DEF TypeCaches, AffStates
  <2>6. DirtyInv'
    BY <1>0, <1>1, <1>2, <2>1, <2>5 DEF LineInv, DirtyInv, TypeCalls
  <2>7. CopyInv'
    <3>1. \A t \in Cpus : Dirty(t)' <=> Dirty(t)
      BY <2>1 DEF Dirty
    <3> QED
      BY <1>0, <2>1, <2>3, <2>4, <2>5, <3>1 DEF LineInv, CopyInv, Fits
  <2>8. EmptyInv'
    BY <1>0, <1>1, <1>2, <2>1, <2>2 DEF LineInv, EmptyInv
  <2> QED
    BY <2>5, <2>6, <2>7, <2>8 DEF LineInv
<1>6. CASE OffInvalidate(c) \/ ToRun(c)
  <2>1. /\ Swept(c) \/ (UNCHANGED <<line, dirty>> /\ aff' = aff)
        /\ \A t \in Cpus \ {c} : aff'[t] = aff[t]
        /\ aff' \in [Cpus -> AffStates]
    BY <1>0, <1>6, OffInvalidateIs, ToRunIs DEF TypeCaches, AffStates
  <2>2. pc'[c] \notin {"plat", "down"}
    BY <1>0, <1>6 DEF OffInvalidate, ToRun, ReleaseLocks, Goto, LocksFreed,
       TypeLocals
  <2>3. cci' = cci /\ \A d \in Cpus \ {c} : goal'[d] = goal[d]
    BY <1>6 DEF OffInvalidate, ToRun, ReleaseLocks, locals, TypeShared
  <2>4. CASE UNCHANGED <<line, dirty>> /\ aff' = aff
    <3>1. Thinned
      BY <1>0, <2>4 DEF Thinned, TypeCaches
    <3> QED
      BY <1>0, <1>1, <1>2, <2>2, <2>3, <3>1, LineThinned DEF Thinned, TypeCaches
  <2>5. CASE Swept(c)
    <3>1. TypeCaches'
      BY <1>0, <2>1, <2>3, <2>5 DEF Swept, TypeCaches
    <3>2. DirtyInv'
      BY <1>0, <1>1, <1>2, <2>1, <2>5 DEF LineInv, DirtyInv, TypeCalls, Swept
    <3>3. CopyInv'
      <4>1. \A t \in Cpus \ {c} : Dirty(t)' <=> Dirty(t)
        BY <2>5 DEF Dirty, Swept
      <4>2. ASSUME NEW k \in Clusters, NEW t \in Cpus PROVE Fits(line[k][t], t)'
        <5>1. Fits(line[k][t], t)
          BY <1>0 DEF LineInv, CopyInv
        <5>2. line'[k][t] = IF t = c THEN None ELSE line[k][t]
          BY <2>5 DEF Swept
        <5> QED
          BY <2>1, <4>1, <5>1, <5>2 DEF Fits
      <4> QED
        BY <4>2 DEF CopyInv
    <3>4. EmptyInv'
      <4>1. \A k \in Clusters, t \in Cpus : line[k][t] = None => line'[k][t] = None
        BY <2>5 DEF Swept
      <4>2. \A k \in Clusters, t \in Cpus : k \notin cci' => line'[k][t] = None
        BY <1>0, <2>3, <4>1 DEF LineInv, EmptyInv
      <4>3. ASSUME NEW d \in Cpus, NEW t \in Cpus, pc'[d] = "plat", goal'[d] > 0
            PROVE  line'[Cluster[d]][t] = None
        <5>1. d # c /\ pc[d] = "plat" /\ goal[d] > 0 /\ Cluster[d] \in Clusters
          BY <1>1, <2>2, <2>3, <4>3, TopologyOK
        <5> QED
          BY <1>0, <4>1, <5>1 DEF LineInv, EmptyInv
      <4> QED
        BY <4>2, <4>3 DEF EmptyInv
    <3> QED
      BY <3>1, <3>2, <3>3, <3>4 DEF LineInv
  <2> QED
    BY <2>1, <2>4, <2>5
<1>7. CASE ~OffFlush(c) /\ ~OffWrite(c) /\ ~OffInvalidate(c) /\ ~PowerDown(c) /\ ~ToRun(c)
  <2>1. /\ UNCHANGED <<aff, line, dirty>>
        /\ \A d \in Cpus : pc'[d] = "plat" /\ goal'[d] > 0 => pc[d] = "plat" /\ goal[d] > 0
        /\ \A k \in Clusters : k \in cci /\ k \notin cci' =>
             pc[c] = "plat" /\ goal[c] > 0 /\ k = Cluster[c]
    BY <1>0, <1>7, CachesKept DEF caches
  <2>2. Thinned
    BY <1>0, <2>1 DEF Thinned, TypeCaches
  <2>3. \A k \in Clusters : k \in cci /\ k \notin cci' => \A t \in Cpus : line'[k][t] = None
    BY <1>0, <2>1 DEF LineInv, EmptyInv
  <2>4. TypeCaches'
    BY <1>0, <2>1 DEF TypeCaches
  <2> QED
    BY <1>0, <1>1, <1>2, <2>1, <2>2, <2>3, <2>4, LineThinned
<1> QED
  BY <1>3, <1>4, <1>5, <1>6, <1>7

(* A CPU moves nobody's state but its own.                                 *)
LEMMA OthersKept ==
  ASSUME CacheInv, TypeShared, LifeInv, ReqInv, LockInv, AffInv, CtxInv,
         NEW c \in Cpus, PowerMove(c),
         NEW t \in Cpus, t # c
  PROVE  /\ aff'[t] = aff[t] /\ (t \in wake' <=> t \in wake)
         /\ pc'[t] = pc[t] /\ op'[t] = op[t] /\ suspLvl'[t] = suspLvl[t]
<1> USE DEF TypeLocals, TypeCaches, CacheInv, Goto, locals, shared, power,
    caches
<1>1. CASE CpuOff(c)
  BY <1>1 DEF CpuOff, AcquireLocks, LocksTaken
<1>2. CASE \E l \in Calls[c].susp : CpuSuspend(c, l)
  BY <1>2, SuspendLevels DEF CpuSuspend, AcquireLocks, LocksTaken
<1>3. CASE LockGet(c)
  BY <1>3 DEF LockGet, LocksTaken
<1>4. CASE LockRelease(c)
  BY <1>4 DEF LockRelease, LocksFreed
<1>5. CASE Abandon(c)
  BY <1>5 DEF Abandon, ReleaseLocks, LocksFreed
<1>6. CASE Coordinate(c)
  BY <1>6 DEF Coordinate
<1>7. CASE PowerDown(c)
  <2>1. aff'[t] = aff[t]
    BY <1>7, PowerDownIs DEF Thinned
  <2> QED
    BY <1>7, <2>1 DEF PowerDown
<1>8. CASE PlatformDown(c)
  BY <1>8 DEF PlatformDown, ReleaseLocks, LocksFreed
<1>9. CASE OffFlush(c)
  <2>1. aff'[t] = aff[t]
    BY <1>9, OffFlushIs DEF Thinned
  <2> QED
    BY <1>9, <2>1 DEF OffFlush
<1>10. CASE OffWrite(c)
  <2>1. aff'[t] = aff[t]
    BY <1>10 DEF OffWrite, StoreUncached
  <2> QED
    BY <1>10, <2>1 DEF OffWrite
<1>11. CASE OffInvalidate(c)
  <2>1. aff'[t] = aff[t]
    BY <1>11, OffInvalidateIs
  <2> QED
    BY <1>11, <2>1 DEF OffInvalidate
<1>12. CASE PowerUp(c)
  BY <1>12 DEF PowerUp, Woken
<1>13. CASE Reset(c)
  BY <1>13 DEF Reset
<1>14. CASE Check(c)
  BY <1>14 DEF Check, AcquireLocks, LocksTaken
<1>15. CASE Finish(c)
  BY <1>15 DEF Finish
<1>16. CASE Sync(c)
  BY <1>16 DEF Sync, LockFree
<1>17. CASE Resume(c)
  BY <1>17 DEF Resume
<1>18. CASE ToRun(c)
  <2>1. aff'[t] = aff[t]
    BY <1>18, ToRunIs
  <2> QED
    BY <1>18, <2>1 DEF ToRun, ReleaseLocks, LocksFreed
<1> QED
  BY <1>1, <1>2, <1>3, <1>4, <1>5, <1>6, <1>7, <1>8, <1>9, <1>10, <1>11, <1>12,
     <1>13, <1>14, <1>15, <1>16, <1>17, <1>18 DEF PowerMove

(* A target that has not been woken only finishes its CPU_OFF.             *)
LEMMA SleepsOn ==
  ASSUME TypeLocals, NEW c \in Cpus, PowerMove(c), Off(c), c \notin wake
  PROVE  OffInvalidate(c)
<1> USE DEF TypeLocals, Off, Goto
<1>1. CASE CpuOff(c)
  BY <1>1 DEF CpuOff, AcquireLocks, LocksTaken
<1>2. CASE \E l \in Calls[c].susp : CpuSuspend(c, l)
  BY <1>2 DEF CpuSuspend, AcquireLocks, LocksTaken
<1>3. CASE LockGet(c)
  BY <1>3 DEF LockGet, LocksTaken
<1>4. CASE LockRelease(c)
  BY <1>4 DEF LockRelease, LocksFreed
<1>5. CASE Abandon(c)
  BY <1>5 DEF Abandon, ReleaseLocks, LocksFreed
<1>6. CASE Coordinate(c)
  BY <1>6 DEF Coordinate
<1>7. CASE PowerDown(c)
  BY <1>7 DEF PowerDown
<1>8. CASE PlatformDown(c)
  BY <1>8 DEF PlatformDown, ReleaseLocks, LocksFreed
<1>9. CASE OffFlush(c)
  BY <1>9 DEF OffFlush
<1>10. CASE OffWrite(c)
  BY <1>10 DEF OffWrite
<1>11. CASE OffInvalidate(c)
  BY <1>11
<1>12. CASE PowerUp(c)
  BY <1>12 DEF PowerUp, Woken
<1>13. CASE Reset(c)
  BY <1>13 DEF Reset
<1>14. CASE Check(c)
  BY <1>14 DEF Check, AcquireLocks, LocksTaken
<1>15. CASE Finish(c)
  BY <1>15 DEF Finish
<1>16. CASE Sync(c)
  BY <1>16 DEF Sync, LockFree
<1>17. CASE Resume(c)
  BY <1>17 DEF Resume
<1>18. CASE ToRun(c)
  BY <1>18 DEF ToRun, ReleaseLocks, LocksFreed
<1> QED
  BY <1>1, <1>2, <1>3, <1>4, <1>5, <1>6, <1>7, <1>8, <1>9, <1>10, <1>11, <1>12,
     <1>13, <1>14, <1>15, <1>16, <1>17, <1>18 DEF PowerMove

(* A woken target gets no further than psci_cpu_on_finish while its caller *)
(* holds the lock.                                                         *)
LEMMA StartsOn ==
  ASSUME CacheInv, TypeShared, LifeInv, ReqInv, LockInv, AffInv, CtxInv,
         NEW c \in Cpus, PowerMove(c),
         Off(c) \/ Starting(c), aff[c] = "PENDING", cpuLock[c] # None
  PROVE  (Off(c) \/ Starting(c))' /\ aff'[c] = "PENDING"
<1> USE DEF CacheInv, TypeLocals, TypeCaches, Goto, locals, shared, power,
    caches, LocksTaken, LocksFreed, Off, Starting, Waking
<1>1. CASE CpuOff(c)
  BY <1>1 DEF CpuOff, AcquireLocks, LocksTaken
<1>2. CASE \E l \in Calls[c].susp : CpuSuspend(c, l)
  BY <1>2 DEF CpuSuspend, AcquireLocks, LocksTaken
<1>3. CASE LockGet(c)
  <2>1. UNCHANGED <<op, suspLvl, aff>> /\ op[c] = "up" /\ suspLvl[c] = 3
    BY <1>3 DEF LockGet
  <2>2. pc'[c] \in {"finish", "locking"}
    BY <1>3, <2>1 DEF LockGet
  <2> QED
    BY <2>1, <2>2
<1>4. CASE LockRelease(c)
  BY <1>4 DEF LockRelease, LocksFreed
<1>5. CASE Abandon(c)
  BY <1>5 DEF Abandon, ReleaseLocks, LocksFreed
<1>6. CASE Coordinate(c)
  BY <1>6 DEF Coordinate
<1>7. CASE PowerDown(c)
  BY <1>7 DEF PowerDown
<1>8. CASE PlatformDown(c)
  BY <1>8 DEF PlatformDown, ReleaseLocks, LocksFreed
<1>9. CASE OffFlush(c)
  BY <1>9 DEF OffFlush
<1>10. CASE OffWrite(c)
  BY <1>10 DEF OffWrite
<1>11. CASE OffInvalidate(c)
  <2>1. aff' = aff
    BY <1>11, OffInvalidateIs
  <2> QED
    BY <1>11, <2>1 DEF LifeInv, Life, OffInvalidate
<1>12. CASE PowerUp(c)
  BY <1>12 DEF PowerUp, Woken
<1>13. CASE Reset(c)
  BY <1>13 DEF Reset, CtxInv
<1>14. CASE Check(c)
  <2>1. aff[c] # "OFF" /\ pc[c] = "check"
    BY <1>14 DEF Check, AcquireLocks
  <2>2. PICK p \in {"finish", "locking"} : pc' = [pc EXCEPT ![c] = p]
    BY <1>14, <2>1 DEF Check, AcquireLocks
  <2>3. /\ op' = [op EXCEPT ![c] = "up"] /\ UNCHANGED <<suspLvl, ctx, mailbox, wake>>
        /\ UNCHANGED <<aff, line, dirty, tgt, seen, cpuLock, cci, goal>>
    BY <1>14, <2>1 DEF Check, AcquireLocks
  <2>4. op[c] = "off" /\ suspLvl[c] = 3
    BY <2>1 DEF LifeInv, Life
  <2> QED
    BY <2>1, <2>2, <2>3, <2>4
<1>15. CASE Finish(c)
  BY <1>15 DEF Finish
<1>16. CASE Sync(c)
  BY <1>16 DEF Sync, LockFree
<1>17. CASE Resume(c)
  BY <1>17 DEF Resume
<1>18. CASE ToRun(c)
  BY <1>18 DEF ToRun, ReleaseLocks
<1> QED
  BY <1>1, <1>2, <1>3, <1>4, <1>5, <1>6, <1>7, <1>8, <1>9, <1>10, <1>11, <1>12,
     <1>13, <1>14, <1>15, <1>16, <1>17, <1>18 DEF PowerMove

(* A CPU's own steps make no newer copy, and throw away none but of its    *)
(* own state.                                                              *)
LEMMA DirtyKept ==
  ASSUME CacheInv, TypeShared, LifeInv, ReqInv, LockInv, AffInv, CtxInv,
         NEW c \in Cpus, PowerMove(c),
         NEW t \in Cpus
  PROVE  /\ \A k \in Clusters : line'[k][t] = line[k][t] \/ line'[k][t] = None
         /\ t # c => (Dirty(t)' <=> Dirty(t))
         /\ Dirty(t)' => Dirty(t)
<1>1. CASE OffFlush(c)
  BY <1>1, OffFlushIs DEF Thinned, Dirty
<1>2. CASE PowerDown(c)
  BY <1>2, PowerDownIs DEF Thinned, Dirty
<1>3. CASE OffWrite(c)
  BY <1>3 DEF OffWrite, StoreUncached, Dirty
<1>4. CASE OffInvalidate(c) \/ ToRun(c)
  <2>1. Swept(c) \/ UNCHANGED <<line, dirty>>
    BY <1>4, OffInvalidateIs, ToRunIs
  <2> QED
    BY <2>1 DEF Swept, Dirty
<1>5. CASE ~OffFlush(c) /\ ~OffWrite(c) /\ ~OffInvalidate(c) /\ ~PowerDown(c) /\ ~ToRun(c)
  BY <1>5, CachesKept DEF CacheInv, caches, Dirty
<1> QED
  BY <1>1, <1>2, <1>3, <1>4, <1>5

(* The caller's knowledge under the steps of other CPUs.                   *)
LEMMA OnInvPower ==
  ASSUME CacheInv, TypeShared, LifeInv, ReqInv, SpinInv, LockInv, AffInv, OnInv,
         CtxInv,
         NEW c \in Cpus, PowerMove(c)
  PROVE  OnInv'
<1>0. TypeLocals /\ TypeCalls /\ TypeCaches
  BY DEF CacheInv
<1>1. UNCHANGED <<tgt, seen, cpuLock>> /\ pc[c] \notin OnPhase /\ pc'[c] \notin OnPhase
  BY <1>0, PowerFrame DEF TypeLocals, Idle, OnPhase
<1>2. SUFFICES ASSUME NEW d \in Cpus, pc'[d] \in OnPhase PROVE OnOK(d)'
  BY DEF OnInv, OnOK, OnPhase
<1>3. d # c /\ pc'[d] = pc[d] /\ tgt[d] \in Cpus /\ cpuLock[tgt[d]] = d /\ OnOK(d)
  BY <1>0, <1>1, <1>2, PowerFrame DEF TypeLocals, TypeCalls, SpinInv, OnInv
<1>4. CASE tgt[d] # c
  <2>0. PICK t \in Cpus : t = tgt[d]
    BY <1>3
  <2>1. /\ aff'[t] = aff[t] /\ (t \in wake' <=> t \in wake)
        /\ pc'[t] = pc[t] /\ op'[t] = op[t] /\ suspLvl'[t] = suspLvl[t]
    BY <1>4, <2>0, OthersKept
  <2>2. (Off(t)' <=> Off(t)) /\ (Starting(t)' <=> Starting(t))
    BY <2>1 DEF Off, Starting, Waking
  <2>3. /\ \A k \in Clusters : line'[k][t] = line[k][t] \/ line'[k][t] = None
        /\ Dirty(t)' <=> Dirty(t)
    BY <1>4, <2>0, DirtyKept
  <2> QED
    BY <1>1, <1>3, <2>0, <2>1, <2>2, <2>3 DEF OnOK, None
<1>5. CASE tgt[d] = c /\ Off(c) /\ c \notin wake
  <2>1. OffInvalidate(c)
    BY <1>0, <1>5, SleepsOn
  <2>2. aff' = aff /\ wake' = wake /\ op' = op /\ pc'[c] = "wfi" /\ pc[c] = "off_inv"
    BY <1>0, <2>1, OffInvalidateIs DEF OffInvalidate, Goto, TypeLocals, locals,
       power
  <2>3. Off(c)' /\ (\A k \in Clusters : line'[k][c] = line[k][c] \/ line'[k][c] = None)
    BY <1>5, <2>2, DirtyKept DEF Off, LifeInv, Life
  <2>4. aff[c] # "ON"
    BY <1>5 DEF AffInv
  <2> QED
    BY <1>1, <1>3, <1>5, <2>2, <2>3, <2>4 DEF OnOK, None
<1>6. CASE tgt[d] = c /\ ~(Off(c) /\ c \notin wake)
  <2>1. pc[d] = "on_ctx" \/ (pc[d] \in {"on_look", "on_check"} /\ aff[c] # "OFF")
    BY <1>1, <1>2, <1>3, <1>6 DEF OnOK, OnPhase, AffInv
  <2>2. CASE pc[d] = "on_ctx"
    <3>1. (Off(c) \/ Starting(c))' /\ aff'[c] = "PENDING"
      BY <1>3, <1>6, <2>2, StartsOn, TopologyOK DEF OnOK, SpinInv
    <3> QED
      BY <1>1, <1>3, <1>6, <2>2, <3>1 DEF OnOK
  <2>3. CASE pc[d] \in {"on_look", "on_check"} /\ aff[c] # "OFF"
    BY <1>1, <1>3, <1>6, <2>3 DEF OnOK
  <2> QED
    BY <2>1, <2>2, <2>3
<1> QED
  BY <1>4, <1>5, <1>6

-----------------------------------------------------------------------------
(* The state of t as the others see it: only a newer copy may reach memory, *)
(* and a cache only gets a copy of what memory holds.                      *)
Mild(t) ==
  /\ aff'[t] = aff[t] \/ (Dirty(t) /\ aff'[t] = "PENDING")
  /\ Dirty(t) => Dirty(t)' \/ aff'[t] = "PENDING"
  /\ \A k \in Clusters : line'[k][t] \in {None, line[k][t], aff[t]} \/ Dirty(t)

(* Nothing moves but the caches and the CPU that reads and writes them.    *)
Elsewhere(c) ==
  /\ pc[c] \in Idle /\ pc'[c] \in Idle /\ UNCHANGED <<cci, goal>>
  /\ \A d \in Cpus \ {c} : pc'[d] = pc[d]

(* A CPU that uses its cache does so in no cluster that is leaving.        *)
LEMMA EmptyKept ==
  ASSUME CacheInv, LifeInv, ReqInv, LockInv, NEW c \in Cpus, Elsewhere(c),
         \A k \in Clusters, t \in Cpus :
           k # Cluster[c] /\ line[k][t] = None => line'[k][t] = None
  PROVE  EmptyInv'
<1>1. CacheOn(c) /\ Cluster[c] \in cci
  BY DEF CacheOn, Elsewhere, Idle, CacheInv, CciInv
<1>2. ASSUME NEW k \in Clusters, NEW t \in Cpus, k \notin cci' PROVE line'[k][t] = None
  BY <1>1, <1>2 DEF Elsewhere, CacheInv, LineInv, EmptyInv
<1>3. ASSUME NEW d \in Cpus, NEW t \in Cpus, pc'[d] = "plat", goal'[d] > 0
      PROVE  line'[Cluster[d]][t] = None
  <2>1. d # c /\ pc[d] = "plat" /\ goal[d] > 0
    BY <1>3 DEF Elsewhere, Idle
  <2>2. Cluster[d] # Cluster[c] /\ Cluster[d] \in Clusters
    BY <1>1, <2>1, ClusterQuiet, TopologyOK DEF CacheInv
  <2>3. line[Cluster[d]][t] = None
    BY <2>1 DEF CacheInv, LineInv, EmptyInv
  <2> QED
    BY <2>2, <2>3
<1> QED
  BY <1>2, <1>3 DEF EmptyInv

(* A flush, a load, a store and a step without any.                        *)
LEMMA LineFlush ==
  ASSUME CacheInv, LifeInv, ReqInv, LockInv, NEW c \in Cpus, Elsewhere(c),
         NEW t \in Cpus, Flush(Cluster[c], t), \A s \in Cpus \ {t} : Kept(s)
  PROVE  TypeCaches' /\ LineInv' /\ (\A s \in Cpus : Mild(s))
         /\ (Dirty(t) => aff'[t] = "PENDING") /\ \A k \in Clusters : line'[k][t] = None
<1>0. TypeCaches /\ DirtyInv /\ CopyInv
  BY DEF CacheInv, LineInv
<1>1. Cluster[c] \in cci
  BY DEF CacheOn, Elsewhere, Idle, CacheInv, CciInv
<1>2. Swept(t) /\ aff' = [aff EXCEPT ![t] = IF Dirty(t) THEN "PENDING" ELSE @]
  BY <1>1, FlushIn
<1>3. TypeCaches'
  BY <1>0, <1>2 DEF TypeCaches, Swept, AffStates
<1>4. /\ \A s \in Cpus \ {t} : aff'[s] = aff[s] /\ (Dirty(s)' <=> Dirty(s))
      /\ \A s \in Cpus \ {t}, k \in Clusters : line'[k][s] = line[k][s]
      /\ aff'[t] = IF Dirty(t) THEN "PENDING" ELSE aff[t]
      /\ ~(Dirty(t)') /\ \A k \in Clusters : line'[k][t] = None
  BY <1>0, <1>2 DEF Swept, Dirty, TypeCaches
<1>5. DirtyInv'
  <2>1. ASSUME NEW j \in Clusters, NEW s \in Cpus, <<j, s>> \in dirty'
        PROVE  /\ line'[j][s] = "PENDING" /\ aff'[s] = "OFF"
               /\ cpuLock'[s] # None /\ Cluster[cpuLock'[s]] = j
               /\ pc'[cpuLock'[s]] \in {"on_clean", "on_reclean"}
    <3>1. s # t /\ <<j, s>> \in dirty
      BY <1>2, <2>1 DEF Swept
    <3>2. cpuLock'[s] = cpuLock[s] /\ pc'[cpuLock[s]] \in {"on_clean", "on_reclean"}
      BY <3>1 DEF Kept, Dirty
    <3> QED
      BY <1>0, <1>4, <3>1, <3>2 DEF DirtyInv
  <2> QED
    BY <2>1 DEF DirtyInv
<1>6. CopyInv'
  BY <1>0, <1>4 DEF CopyInv, Fits
<1>7. EmptyInv'
  <2>1. \A k \in Clusters, s \in Cpus : line[k][s] = None => line'[k][s] = None
    BY <1>4
  <2> QED
    BY <2>1, EmptyKept
<1>8. \A s \in Cpus : Mild(s)
  BY <1>4 DEF Mild
<1> QED
  BY <1>3, <1>4, <1>5, <1>6, <1>7, <1>8 DEF LineInv

LEMMA LineLoad ==
  ASSUME CacheInv, LifeInv, ReqInv, LockInv, NEW c \in Cpus, Elsewhere(c),
         NEW t \in Cpus, Load(Cluster[c], t), \A s \in Cpus : Kept(s)
  PROVE  TypeCaches' /\ LineInv' /\ \A s \in Cpus : Mild(s)
<1> DEFINE k == Cluster[c]
<1>0. TypeCaches /\ DirtyInv /\ CopyInv
  BY DEF CacheInv, LineInv
<1>1. k \in cci
  BY DEF CacheOn, Elsewhere, Idle, CacheInv, CciInv
<1>2. /\ line' \in [Clusters -> [Cpus -> AffStates \cup {None}]]
      /\ \A j \in Clusters, s \in Cpus :
           line'[j][s] = IF j = k /\ s = t THEN Value(k, t) ELSE line[j][s]
      /\ UNCHANGED <<aff, dirty>>
  BY <1>1, LoadIn
<1>3. Value(k, t) = IF line[k][t] # None THEN line[k][t]
                    ELSE IF Dirty(t) THEN "PENDING" ELSE aff[t]
  BY <1>1, ValueIs
<1>4. k \in Clusters
  BY TopologyOK
<1> HIDE DEF k
<1>5. TypeCaches'
  BY <1>0, <1>2 DEF TypeCaches
<1>6. DirtyInv'
  <2>1. ASSUME NEW j \in Clusters, NEW s \in Cpus, <<j, s>> \in dirty'
        PROVE  /\ line'[j][s] = "PENDING" /\ aff'[s] = "OFF"
               /\ cpuLock'[s] # None /\ Cluster[cpuLock'[s]] = j
               /\ pc'[cpuLock'[s]] \in {"on_clean", "on_reclean"}
    <3>1. <<j, s>> \in dirty /\ line[j][s] = "PENDING" /\ aff[s] = "OFF"
          /\ cpuLock[s] # None /\ Cluster[cpuLock[s]] = j
      BY <1>0, <1>2, <2>1 DEF DirtyInv
    <3>2. cpuLock'[s] = cpuLock[s] /\ pc'[cpuLock[s]] \in {"on_clean", "on_reclean"}
      BY <3>1 DEF Kept, Dirty
    <3>3. line'[j][s] = line[j][s]
      BY <1>2, <1>3, <3>1 DEF None
    <3> QED
      BY <1>2, <3>1, <3>2, <3>3
  <2> QED
    BY <2>1 DEF DirtyInv
<1>7. \A s \in Cpus : Dirty(s)' <=> Dirty(s)
  BY <1>2 DEF Dirty
<1>8. CopyInv'
  <2>1. ASSUME NEW j \in Clusters, NEW s \in Cpus PROVE Fits(line[j][s], s)'
    <3>1. Fits(line[j][s], s)
      BY <1>0 DEF CopyInv
    <3>2. line'[j][s] = IF j = k /\ s = t THEN Value(k, t) ELSE line[j][s]
      BY <1>2
    <3> QED
      BY <1>2, <1>3, <1>7, <3>1, <3>2 DEF Fits
  <2> QED
    BY <2>1 DEF CopyInv
<1>9. EmptyInv'
  <2>1. \A j \in Clusters, s \in Cpus : j # Cluster[c] => line'[j][s] = line[j][s]
    BY <1>2 DEF k
  <2> QED
    BY <2>1, EmptyKept
<1>10. \A s \in Cpus : Mild(s)
  BY <1>2, <1>3, <1>7 DEF Mild
<1> QED
  BY <1>2, <1>5, <1>6, <1>8, <1>9, <1>10 DEF LineInv

LEMMA LineStore ==
  ASSUME CacheInv, LifeInv, ReqInv, LockInv, NEW c \in Cpus, Elsewhere(c),
         NEW t \in Cpus, Store(Cluster[c], t, "PENDING"), \A s \in Cpus : Kept(s),
         aff[t] = "OFF", cpuLock'[t] = c, pc'[c] \in {"on_clean", "on_reclean"}
  PROVE  TypeCaches' /\ LineInv' /\ (\A s \in Cpus \ {t} : Mild(s)) /\ Dirty(t)'
<1> DEFINE k == Cluster[c]
<1>0. TypeCaches /\ DirtyInv /\ CopyInv
  BY DEF CacheInv, LineInv
<1>1. k \in cci
  BY DEF CacheOn, Elsewhere, Idle, CacheInv, CciInv
<1>2. /\ line' \in [Clusters -> [Cpus -> AffStates \cup {None}]]
      /\ dirty' \in SUBSET (Clusters \X Cpus)
      /\ \A j \in Clusters, s \in Cpus :
           line'[j][s] = IF s = t THEN IF j = k THEN "PENDING" ELSE None ELSE line[j][s]
      /\ \A j \in Clusters, s \in Cpus :
           <<j, s>> \in dirty' <=> (<<j, s>> \in dirty /\ s # t) \/ (j = k /\ s = t)
      /\ aff' = aff
  BY <1>1, StoreIn
<1>3. k \in Clusters
  BY TopologyOK
<1>4. TypeCaches'
  BY <1>0, <1>2 DEF TypeCaches
<1>5. Dirty(t)' /\ \A s \in Cpus \ {t} : Dirty(s)' <=> Dirty(s)
  BY <1>2, <1>3 DEF Dirty
<1>6. DirtyInv'
  <2>1. ASSUME NEW j \in Clusters, NEW s \in Cpus, <<j, s>> \in dirty'
        PROVE  /\ line'[j][s] = "PENDING" /\ aff'[s] = "OFF"
               /\ cpuLock'[s] # None /\ Cluster[cpuLock'[s]] = j
               /\ pc'[cpuLock'[s]] \in {"on_clean", "on_reclean"}
    <3>1. CASE s = t
      <4>1. j = k
        BY <1>2, <2>1, <3>1
      <4> QED
        BY <1>2, <3>1, <4>1, TopologyOK
    <3>2. CASE s # t
      <4>1. <<j, s>> \in dirty /\ line[j][s] = "PENDING" /\ aff[s] = "OFF"
            /\ cpuLock[s] # None /\ Cluster[cpuLock[s]] = j
        BY <1>0, <1>2, <2>1, <3>2 DEF DirtyInv
      <4>2. cpuLock'[s] = cpuLock[s] /\ pc'[cpuLock[s]] \in {"on_clean", "on_reclean"}
        BY <4>1 DEF Kept, Dirty
      <4> QED
        BY <1>2, <3>2, <4>1, <4>2
    <3> QED
      BY <3>1, <3>2
  <2> QED
    BY <2>1 DEF DirtyInv
<1>7. CopyInv'
  <2>1. ASSUME NEW j \in Clusters, NEW s \in Cpus PROVE Fits(line[j][s], s)'
    <3>1. Fits(line[j][s], s)
      BY <1>0 DEF CopyInv
    <3>2. line'[j][s] = IF s = t THEN IF j = k THEN "PENDING" ELSE None ELSE line[j][s]
      BY <1>2
    <3> QED
      BY <1>2, <1>5, <3>1, <3>2 DEF Fits
  <2> QED
    BY <2>1 DEF CopyInv
<1>8. EmptyInv'
  <2>1. \A j \in Clusters, s \in Cpus :
          j # Cluster[c] /\ line[j][s] = None => line'[j][s] = None
    BY <1>2
  <2> QED
    BY <2>1, EmptyKept
<1>9. \A s \in Cpus \ {t} : Mild(s)
  BY <1>2, <1>5 DEF Mild
<1> QED
  BY <1>2, <1>4, <1>5, <1>6, <1>7, <1>8, <1>9 DEF LineInv

LEMMA LineUntouched ==
  ASSUME CacheInv, NEW c \in Cpus, Elsewhere(c),
         UNCHANGED caches, \A s \in Cpus : Kept(s)
  PROVE  TypeCaches' /\ LineInv' /\ \A s \in Cpus : Mild(s)
<1>1. Thinned /\ TypeCaches'
  BY DEF Thinned, CacheInv, TypeCaches, caches
<1>2. LineInv'
  BY <1>1, LineThinned DEF Elsewhere, Idle
<1>3. \A s \in Cpus : Mild(s)
  BY DEF Mild, Dirty, caches
<1> QED
  BY <1>1, <1>2, <1>3

LEMMA ElsewhereInfo ==
  ASSUME TypeLocals, NEW c \in Cpus, InfoMove(c)
  PROVE  Elsewhere(c)
<1>1. PICK p \in Idle : pc' = [pc EXCEPT ![c] = p]
  BY InfoFrame
<1> QED
  BY <1>1, InfoFrame DEF Elsewhere, TypeLocals

LEMMA LocksInfo ==
  ASSUME TypeCalls, SpinInv, NEW c \in Cpus, InfoMove(c), NEW s \in Cpus,
         cpuLock[s] \notin {c, None}
  PROVE  cpuLock'[s] = cpuLock[s]
<1> USE DEF TypeCalls, SpinInv, OnPhase, Goto, shared
<1>1. CASE \E t \in Cpus \ {c} : CpuOn(c, t)
  BY <1>1 DEF CpuOn
<1>2. CASE \E t \in Cpus \ {c} : AffinityInfo(c, t)
  BY <1>2 DEF AffinityInfo
<1>3. CASE InfoLoad(c)
  BY <1>3 DEF InfoLoad
<1>4. CASE OnLock(c)
  BY <1>4 DEF OnLock, LockFree
<1>5. CASE OnLook(c)
  BY <1>5 DEF OnLook
<1>6. CASE OnRefuse(c)
  BY <1>6 DEF OnRefuse
<1>7. CASE OnAccept(c)
  BY <1>7 DEF OnAccept
<1>8. CASE OnSet(c)
  BY <1>8 DEF OnSet
<1>9. CASE OnClean(c)
  BY <1>9 DEF OnClean
<1>10. CASE OnVerify(c)
  BY <1>10 DEF OnVerify
<1>11. CASE OnPower(c)
  BY <1>11 DEF OnPower
<1>12. CASE OnContext(c)
  BY <1>12 DEF OnContext
<1> QED
  BY <1>1, <1>2, <1>3, <1>4, <1>5, <1>6, <1>7, <1>8, <1>9, <1>10, <1>11,
     <1>12 DEF InfoMove

(* Nobody takes the lock from a caller with a newer copy.                  *)
LEMMA KeptInfo ==
  ASSUME CacheInv, SpinInv, NEW c \in Cpus, InfoMove(c), NEW s \in Cpus,
         pc[c] \in {"on_clean", "on_reclean"} => tgt[c] # s
  PROVE  Kept(s)
<1>1. SUFFICES ASSUME Dirty(s)
               PROVE  /\ cpuLock'[s] = cpuLock[s]
                      /\ pc'[cpuLock[s]] \in {"on_clean", "on_reclean"}
  BY DEF Kept
<1>2. /\ cpuLock[s] # None /\ cpuLock[s] \in Cpus
      /\ pc[cpuLock[s]] \in {"on_clean", "on_reclean"} /\ tgt[cpuLock[s]] = s
  BY <1>1 DEF CacheInv, LineInv, DirtyInv, TypeCalls, SpinInv, Dirty
<1>3. cpuLock[s] # c
  BY <1>2
<1> QED
  BY <1>2, <1>3, LocksInfo, ElsewhereInfo DEF Elsewhere, CacheInv

(* The copies stay in order whatever CPU_ON and AFFINITY_INFO do, and a    *)
(* CPU that is not their target sees nothing but a flush of a newer copy.  *)
LEMMA LineInfo ==
  ASSUME CacheInv, LifeInv, ReqInv, LockInv, SpinInv, OnInv, NEW c \in Cpus,
         InfoMove(c)
  PROVE  TypeCaches' /\ LineInv' /\ \A s \in Cpus : (OnSet(c) => s # tgt[c]) => Mild(s)
<1>0. TypeLocals /\ TypeCalls /\ tgt[c] \in Cpus /\ Elsewhere(c)
  BY ElsewhereInfo DEF CacheInv, TypeCalls
<1>1. ASSUME pc[c] \notin {"on_clean", "on_reclean"} PROVE \A s \in Cpus : Kept(s)
  BY <1>1, KeptInfo
<1>2. CASE (\E t \in Cpus \ {c} : CpuOn(c, t)) \/ OnLock(c) \/ OnPower(c) \/ OnContext(c)
  <2>1. UNCHANGED caches /\ pc[c] \notin {"on_clean", "on_reclean"}
    BY <1>2 DEF CpuOn, OnLock, OnPower, OnContext, Goto
  <2> QED
    BY <1>0, <1>1, <2>1, LineUntouched
<1>3. CASE \E t \in Cpus \ {c} : AffinityInfo(c, t)
  <2>1. PICK t \in Cpus : AffinityInfo(c, t)
    BY <1>3
  <2>2. Flush(Cluster[c], t) /\ pc[c] \notin {"on_clean", "on_reclean"}
    BY <2>1 DEF AffinityInfo, Goto
  <2> QED
    BY <1>0, <1>1, <2>2, LineFlush
<1>4. CASE OnLook(c)
  <2>1. Flush(Cluster[c], tgt[c]) /\ pc[c] \notin {"on_clean", "on_reclean"}
    BY <1>4 DEF OnLook, Goto
  <2> QED
    BY <1>0, <1>1, <2>1, LineFlush
<1>5. CASE OnClean(c)
  <2>1. Flush(Cluster[c], tgt[c])
    BY <1>5 DEF OnClean
  <2>2. \A s \in Cpus \ {tgt[c]} : Kept(s)
    BY KeptInfo
  <2> QED
    BY <1>0, <2>1, <2>2, LineFlush
<1>6. CASE InfoLoad(c) \/ OnRefuse(c) \/ OnAccept(c) \/ OnVerify(c)
  <2>1. Load(Cluster[c], tgt[c]) /\ pc[c] \notin {"on_clean", "on_reclean"}
    BY <1>6 DEF InfoLoad, OnRefuse, OnAccept, OnVerify, Goto
  <2> QED
    BY <1>0, <1>1, <2>1, LineLoad
<1>7. CASE OnSet(c)
  <2>1. /\ Store(Cluster[c], tgt[c], "PENDING") /\ cpuLock' = cpuLock
        /\ pc[c] \in {"on_set", "on_reset"} /\ pc'[c] \in {"on_clean", "on_reclean"}
    BY <1>0, <1>7 DEF OnSet, Goto, shared, TypeLocals
  <2>2. aff[tgt[c]] = "OFF" /\ cpuLock'[tgt[c]] = c
    BY <2>1 DEF OnInv, OnOK, SpinInv, OnPhase
  <2> QED
    BY <1>0, <1>1, <1>7, <2>1, <2>2, LineStore
<1> QED
  BY <1>2, <1>3, <1>4, <1>5, <1>6, <1>7 DEF InfoMove

(* Only a flush of ON_PENDING changes the state in memory.                 *)
LEMMA AffInfo ==
  ASSUME CacheInv, LifeInv, ReqInv, LockInv, SpinInv, OnInv, AffInv,
         NEW c \in Cpus, InfoMove(c)
  PROVE  AffInv'
<1>0. TypeLocals /\ TypeCalls /\ TypeCaches /\ DirtyInv
  BY DEF CacheInv, LineInv
<1>1. ASSUME NEW t \in Cpus
      PROVE  aff'[t] = aff[t] \/ (aff[t] = "OFF" /\ aff'[t] = "PENDING")
  <2>1. CASE OnSet(c)
    BY <2>1 DEF OnSet, Store
  <2>2. CASE ~OnSet(c)
    <3>1. Mild(t)
      BY <2>2, LineInfo
    <3>2. Dirty(t) => aff[t] = "OFF"
      BY <1>0 DEF DirtyInv, Dirty
    <3> QED
      BY <3>1, <3>2 DEF Mild
  <2> QED
    BY <2>1, <2>2
<1>2. ASSUME NEW t \in Cpus
      PROVE  /\ (Off(t)' <=> Off(t)) /\ (Starting(t)' <=> Starting(t))
             /\ pc'[t] = "torun" <=> pc[t] = "torun"
  <2>1. UNCHANGED <<op, suspLvl>> /\ Elsewhere(c)
    BY <1>0, InfoFrame, ElsewhereInfo
  <2>2. op[c] = "none"
    BY <2>1 DEF LifeInv, Life, Elsewhere
  <2> QED
    BY <2>1, <2>2 DEF Elsewhere, Off, Starting, Waking, Idle
<1>3. CASE OnPower(c)
  <2>1. /\ wake' = wake \cup {tgt[c]} /\ mailbox' = mailbox \cup {tgt[c]}
        /\ aff' = aff /\ pc[c] = "on_power"
    BY <1>3 DEF OnPower, caches, Goto
  <2>2. Off(tgt[c]) /\ aff[tgt[c]] = "PENDING"
    BY <2>1 DEF OnInv, OnOK
  <2> QED
    BY <1>2, <2>1, <2>2 DEF AffInv
<1>4. CASE ~OnPower(c)
  <2>1. wake' = wake /\ mailbox' = mailbox
    BY <1>4 DEF InfoMove, CpuOn, AffinityInfo, InfoLoad, OnLock, OnLook,
       OnRefuse, OnAccept,
                OnSet, OnClean, OnVerify, OnContext, power
  <2> QED
    BY <1>1, <1>2, <2>1 DEF AffInv
<1> QED
  BY <1>3, <1>4

(* What c loads for its target tells the state in memory, once nobody else *)
(* has a newer copy.                                                       *)
LEMMA ValueTells ==
  ASSUME CacheInv, SpinInv, NEW c \in Cpus, pc[c] \in {"on_check", "on_verify"}
  PROVE  /\ ~Dirty(tgt[c])
         /\ Value(Cluster[c], tgt[c]) = "OFF" => aff[tgt[c]] = "OFF"
         /\ Value(Cluster[c], tgt[c]) = "PENDING" <=> aff[tgt[c]] = "PENDING"
<1> DEFINE k == Cluster[c]
           t == tgt[c]
<1>0. t \in Cpus /\ k \in Clusters /\ k \in cci
  BY TopologyOK DEF CacheInv, TypeCalls, CciInv, CacheOn
<1>1. cpuLock[t] = c
  BY DEF SpinInv, OnPhase
<1>2. ~Dirty(t)
  <2>1. ASSUME NEW j \in Clusters, <<j, t>> \in dirty PROVE FALSE
    <3>1. pc[cpuLock[t]] \in {"on_clean", "on_reclean"}
      BY <1>0, <2>1 DEF CacheInv, LineInv, DirtyInv
    <3> QED
      BY <1>1, <3>1
  <2> QED
    BY <2>1 DEF Dirty
<1>3. Value(k, t) = IF line[k][t] # None THEN line[k][t] ELSE aff[t]
  BY <1>0, <1>2, ValueIs
<1>4. Fits(line[k][t], t)
  BY <1>0 DEF CacheInv, LineInv, CopyInv
<1> QED
  BY <1>2, <1>3, <1>4 DEF Fits, None

(* The caller's steps leave the target where it is.                        *)
LEMMA TargetsKept ==
  ASSUME CacheInv, LifeInv, NEW c \in Cpus, InfoMove(c), NEW t \in Cpus
  PROVE  /\ (Off(t)' <=> Off(t)) /\ (Starting(t)' <=> Starting(t))
         /\ (pc'[t] = "off_inv" <=> pc[t] = "off_inv")
<1>1. UNCHANGED <<op, suspLvl>> /\ Elsewhere(c)
  BY InfoFrame, ElsewhereInfo DEF CacheInv
<1>2. op[c] = "none"
  BY <1>1 DEF LifeInv, Life, Elsewhere
<1> QED
  BY <1>1, <1>2 DEF Elsewhere, Off, Starting, Waking, Idle

(* A caller of CPU_ON that stands still while c moves.                     *)
LEMMA OthersOn ==
  ASSUME CacheInv, LifeInv, ReqInv, LockInv, SpinInv, OnInv, AffInv,
         NEW c \in Cpus, InfoMove(c), NEW d \in Cpus, d # c, pc[d] \in OnPhase
  PROVE  OnOK(d)'
<1>0. /\ TypeLocals /\ TypeCalls /\ DirtyInv /\ OnOK(d)
      /\ tgt[d] \in Cpus /\ cpuLock[tgt[d]] = d
  BY DEF CacheInv, LineInv, TypeCalls, OnInv, SpinInv
<1>1. PICK t \in Cpus : t = tgt[d]
  BY <1>0
<1>2. pc'[d] = pc[d] /\ tgt'[d] = t /\ seen'[d] = seen[d]
  <2>1. pc'[d] = pc[d]
    BY <1>0, ElsewhereInfo DEF Elsewhere
  <2>2. tgt'[d] = tgt[d] /\ seen'[d] = seen[d]
    BY <1>0 DEF InfoMove, CpuOn, AffinityInfo, InfoLoad, OnLock, OnLook,
       OnRefuse, OnAccept,
                OnSet, OnClean, OnVerify, OnPower, OnContext, locals, TypeCalls
  <2> QED
    BY <1>1, <2>1, <2>2
<1>3. pc[c] \in OnPhase => tgt[c] # t
  BY <1>0, <1>1 DEF SpinInv
<1>4. Mild(t)
  <2>1. OnSet(c) => t # tgt[c]
    BY <1>3 DEF OnSet, Goto, OnPhase
  <2> QED
    BY <2>1, LineInfo
<1>5. t \in wake' <=> t \in wake
  BY <1>3 DEF InfoMove, CpuOn, AffinityInfo, InfoLoad, OnLock, OnLook, OnRefuse,
     OnAccept,
              OnSet, OnClean, OnVerify, OnPower, OnContext, power, Goto, OnPhase
<1>6. /\ (Off(t)' <=> Off(t)) /\ (Starting(t)' <=> Starting(t))
      /\ (pc'[t] = "off_inv" <=> pc[t] = "off_inv")
  BY TargetsKept
<1>7. Dirty(t) => pc[d] \in {"on_clean", "on_reclean"}
  BY <1>0, <1>1 DEF DirtyInv, Dirty
<1>8. OnOK(d)
  BY <1>0
<1> HIDE DEF OnPhase
<1> QED
  BY <1>1, <1>2, <1>4, <1>5, <1>6, <1>7, <1>8 DEF OnOK, Mild, None

(* What the caller learns step by step.                                    *)
LEMMA OwnOn ==
  ASSUME CacheInv, LifeInv, ReqInv, LockInv, SpinInv, OnInv, AffInv,
         NEW c \in Cpus, InfoMove(c)
  PROVE  OnOK(c)'
<1> USE DEF Goto
<1>0. /\ TypeLocals /\ TypeCalls /\ TypeCaches /\ OnOK(c) /\ Elsewhere(c)
      /\ pc \in [Cpus -> Pcs]
  BY ElsewhereInfo DEF CacheInv, OnInv, TypeLocals
<1>1. PICK t \in Cpus : t = tgt[c]
  BY <1>0 DEF TypeCalls
<1>2. /\ (Off(t)' <=> Off(t)) /\ (Starting(t)' <=> Starting(t))
      /\ (pc'[t] = "off_inv" <=> pc[t] = "off_inv")
  BY TargetsKept
<1>3. CASE \E s \in Cpus \ {c} : CpuOn(c, s)
  BY <1>0, <1>3 DEF OnOK, CpuOn
<1>4. CASE \E s \in Cpus \ {c} : AffinityInfo(c, s)
  BY <1>0, <1>4 DEF OnOK, AffinityInfo
<1>5. CASE InfoLoad(c)
  BY <1>0, <1>5 DEF OnOK, InfoLoad
<1>6. CASE OnLock(c)
  BY <1>0, <1>6 DEF OnOK, OnLock
<1>7. CASE OnLook(c)
  <2>1. pc'[c] = "on_check" /\ tgt'[c] = t /\ seen'[c] = aff'[t]
    BY <1>0, <1>7, <1>1 DEF OnLook, TypeCalls
  <2>2. Flush(Cluster[c], t) /\ \A s \in Cpus \ {t} : Kept(s)
    BY <1>7, <1>1, KeptInfo DEF OnLook
  <2>3. \A k \in Clusters : line'[k][t] = None
    BY <1>0, <2>2, LineFlush
  <2> QED
    BY <2>1, <2>3 DEF OnOK
<1>8. CASE OnRefuse(c)
  BY <1>0, <1>8 DEF OnOK, OnRefuse
<1>9. CASE OnAccept(c)
  <2>1. /\ pc[c] = "on_check" /\ pc'[c] = "on_set" /\ tgt'[c] = t
        /\ Value(Cluster[c], t) = "OFF" /\ aff' = aff /\ wake' = wake
    BY <1>0, <1>9, <1>1 DEF OnAccept, Load, power
  <2>2. aff[t] = "OFF" /\ Off(t) /\ t \notin wake
    BY <1>1, <2>1, ValueTells DEF AffInv
  <2> QED
    BY <1>2, <2>1, <2>2 DEF OnOK
<1>10. CASE OnSet(c)
  <2>1. /\ \/ pc[c] = "on_set" /\ pc'[c] = "on_clean"
           \/ pc[c] = "on_reset" /\ pc'[c] = "on_reclean"
        /\ UNCHANGED <<tgt, wake, cpuLock>> /\ Store(Cluster[c], t, "PENDING")
    BY <1>0, <1>10, <1>1 DEF OnSet, locals, power, shared
  <2>2. aff[t] = "OFF" /\ cpuLock'[t] = c
    BY <1>0, <1>1, <2>1 DEF OnOK, SpinInv, OnPhase
  <2>3. \A s \in Cpus : Kept(s)
    BY <2>1, KeptInfo
  <2>4. Dirty(t)'
    BY <1>0, <2>1, <2>2, <2>3, LineStore
  <2> QED
    BY <1>0, <1>2, <1>1, <2>1, <2>4 DEF OnOK
<1>11. CASE OnClean(c)
  <2>1. /\ \/ pc[c] = "on_clean" /\ pc'[c] = "on_verify"
           \/ pc[c] = "on_reclean" /\ pc'[c] = "on_power"
        /\ UNCHANGED <<tgt, wake>> /\ Flush(Cluster[c], t)
    BY <1>0, <1>11, <1>1 DEF OnClean, locals, power
  <2>2. \A s \in Cpus \ {t} : Kept(s)
    BY <1>1, KeptInfo
  <2>3. Mild(t) /\ (Dirty(t) => aff'[t] = "PENDING")
    BY <1>0, <2>1, <2>2, LineFlush
  <2> QED
    BY <1>0, <1>2, <1>1, <2>1, <2>3 DEF OnOK, Mild
<1>12. CASE OnVerify(c)
  <2>1. /\ pc[c] = "on_verify" /\ tgt' = tgt /\ wake' = wake /\ aff' = aff
        /\ pc'[c] = IF Value(Cluster[c], t) = "PENDING" THEN "on_power" ELSE "on_reset"
    BY <1>0, <1>12, <1>1 DEF OnVerify, Load, locals, power
  <2>2. Value(Cluster[c], t) = "PENDING" <=> aff[t] = "PENDING"
    BY <1>1, <2>1, ValueTells
  <2>3. Off(t) /\ t \notin wake /\ (aff[t] = "PENDING" \/ pc[t] # "off_inv")
    BY <1>0, <1>1, <2>1 DEF OnOK
  <2>4. aff[t] \in {"OFF", "PENDING"}
    BY <1>0, <2>3 DEF AffInv, TypeCaches, AffStates
  <2> QED
    BY <1>2, <1>1, <2>1, <2>2, <2>3, <2>4 DEF OnOK
<1>13. CASE OnPower(c)
  <2>1. pc[c] = "on_power" /\ pc'[c] = "on_ctx" /\ tgt' = tgt /\ aff' = aff
    BY <1>0, <1>13 DEF OnPower, locals, caches
  <2> QED
    BY <1>0, <1>2, <1>1, <2>1 DEF OnOK
<1>14. CASE OnContext(c)
  BY <1>0, <1>14 DEF OnOK, OnContext
<1> QED
  BY <1>3, <1>4, <1>5, <1>6, <1>7, <1>8, <1>9, <1>10, <1>11, <1>12, <1>13,
     <1>14 DEF InfoMove

(* The caller's knowledge under every step of a call.                      *)
LEMMA OnInvInfo ==
  ASSUME CacheInv, LifeInv, ReqInv, LockInv, SpinInv, OnInv, AffInv,
         NEW c \in Cpus, InfoMove(c)
  PROVE  OnInv'
<1>1. ASSUME NEW d \in Cpus PROVE OnOK(d)'
  <2>1. CASE d = c
    BY <2>1, OwnOn
  <2>2. CASE d # c /\ pc[d] \in OnPhase
    BY <2>2, OthersOn
  <2>3. CASE d # c /\ pc[d] \notin OnPhase
    BY <2>3, ElsewhereInfo DEF Elsewhere, OnPhase, OnOK, CacheInv
  <2> QED
    BY <2>1, <2>2, <2>3
<1> QED
  BY <1>1 DEF OnInv

(* The context is set before the lock is given back.                       *)
LEMMA CtxInfo ==
  ASSUME CacheInv, LifeInv, ReqInv, LockInv, SpinInv, OnInv, CtxInv, TypeShared,
         NEW c \in Cpus, InfoMove(c)
  PROVE  CtxInv'
<1> DEFINE Late == {"on_clean", "on_verify", "on_reclean", "on_power", "on_ctx"}
<1>0. TypeLocals /\ TypeCalls /\ TypeCaches /\ DirtyInv /\ Elsewhere(c)
  BY ElsewhereInfo DEF CacheInv, LineInv
<1>1. ctx \subseteq ctx' /\ mailbox \subseteq mailbox' /\ (OnContext(c) => tgt[c] \in ctx')
  BY DEF InfoMove, CpuOn, AffinityInfo, InfoLoad, OnLock, OnLook, OnRefuse,
     OnAccept,
         OnSet, OnClean, OnVerify, OnPower, OnContext, power
<1>2. UNCHANGED <<op, suspLvl>> /\ op[c] = "none"
  BY <1>0, InfoFrame DEF LifeInv, Life, Elsewhere
<1>3. ASSUME NEW t \in Cpus, aff'[t] = "PENDING", t \notin ctx'
      PROVE  cpuLock'[t] # None /\ pc'[cpuLock'[t]] \in Late
  <2>1. cpuLock[t] # None /\ pc[cpuLock[t]] \in Late /\ (aff[t] = "PENDING" \/ Dirty(t))
    <3>1. CASE aff[t] = "PENDING"
      BY <1>1, <1>3, <3>1 DEF CtxInv
    <3>2. CASE aff[t] # "PENDING"
      <4>1. ~OnSet(c)
        BY <1>3, <3>2 DEF OnSet, Store
      <4>2. Dirty(t)
        BY <1>3, <3>2, <4>1, LineInfo DEF Mild
      <4> QED
        BY <1>0, <4>2 DEF DirtyInv, Dirty
    <3> QED
      BY <3>1, <3>2
  <2>2. PICK h \in Cpus : h = cpuLock[t] /\ tgt[h] = t
    BY <1>0, <2>1 DEF TypeCalls, SpinInv
  <2>3. CASE h # c
    <3>1. cpuLock'[t] = cpuLock[t]
      BY <1>0, <2>1, <2>2, <2>3, LocksInfo
    <3>2. pc'[h] = pc[h]
      BY <1>0, <2>3 DEF Elsewhere
    <3> QED
      BY <2>1, <2>2, <3>1, <3>2
  <2>4. CASE h = c
    <3>1. pc[c] \in Late /\ tgt[c] = t
      BY <2>1, <2>2, <2>4
    <3>2. ~OnContext(c)
      BY <1>1, <1>3, <3>1
    <3>3. cpuLock' = cpuLock
      BY <3>1, <3>2 DEF InfoMove, CpuOn, AffinityInfo, InfoLoad, OnLock, OnLook,
         OnRefuse,
                        OnAccept, OnSet, OnClean, OnVerify, OnPower, shared, Goto
    <3>4. pc'[c] \in Late
      <4>1. CASE OnVerify(c)
        <5>1. pc[c] = "on_verify" /\ aff[t] = "PENDING"
          BY <2>1, <3>1, <4>1, ValueTells DEF OnVerify, Goto
        <5>2. Value(Cluster[c], t) = "PENDING"
          BY <3>1, <5>1, ValueTells
        <5> QED
          BY <1>0, <3>1, <4>1, <5>2 DEF OnVerify, Goto, TypeLocals
      <4>2. CASE ~OnVerify(c)
        BY <1>0, <3>1, <3>2, <4>2 DEF InfoMove, CpuOn, AffinityInfo, InfoLoad,
           OnLock, OnLook,
                OnRefuse, OnAccept, OnSet, OnClean, OnPower, Goto, TypeLocals
      <4> QED
        BY <4>1, <4>2
    <3> QED
      BY <2>1, <2>2, <2>4, <3>3, <3>4
  <2> QED
    BY <2>3, <2>4
<1>4. (\A d \in Cpus : pc[d] = "torun" \/ suspLvl[d] # 3 => d \in ctx)'
  BY <1>0, <1>1, <1>2 DEF CtxInv, Elsewhere, Idle
<1>5. (\A d \in Cpus : op[d] = "susp" /\ pc[d] \in {"unlock", "wfi", "reset", "check"}
         => d \in mailbox)'
  BY <1>0, <1>1, <1>2 DEF CtxInv, Elsewhere, Idle
<1>6. (\A d \in Cpus : pc[d] = "reset" => d \in mailbox)'
  BY <1>0, <1>1 DEF CtxInv, Elsewhere, Idle
<1> QED
  BY <1>3, <1>4, <1>5, <1>6 DEF CtxInv

(* Types of the shared state.                                              *)
LEMMA SharedInfo ==
  ASSUME TypeShared, TypeCalls, NEW c \in Cpus, InfoMove(c)
  PROVE  TypeShared'
<1> USE DEF TypeShared, TypeCalls, locals, shared, power
<1>1. CASE \E t \in Cpus \ {c} : CpuOn(c, t)
  BY <1>1 DEF CpuOn
<1>2. CASE \E t \in Cpus \ {c} : AffinityInfo(c, t)
  BY <1>2 DEF AffinityInfo
<1>3. CASE InfoLoad(c)
  BY <1>3 DEF InfoLoad
<1>4. CASE OnLock(c)
  BY <1>4 DEF OnLock, LockFree
<1>5. CASE OnLook(c)
  BY <1>5 DEF OnLook
<1>6. CASE OnRefuse(c)
  BY <1>6 DEF OnRefuse
<1>7. CASE OnAccept(c)
  BY <1>7 DEF OnAccept
<1>8. CASE OnSet(c)
  BY <1>8 DEF OnSet
<1>9. CASE OnClean(c)
  BY <1>9 DEF OnClean
<1>10. CASE OnVerify(c)
  BY <1>10 DEF OnVerify
<1>11. CASE OnPower(c)
  BY <1>11 DEF OnPower
<1>12. CASE OnContext(c)
  BY <1>12 DEF OnContext
<1> QED
  BY <1>1, <1>2, <1>3, <1>4, <1>5, <1>6, <1>7, <1>8, <1>9, <1>10, <1>11,
     <1>12 DEF InfoMove

LEMMA SharedPower ==
  ASSUME TypeLocals, TypeShared, NEW c \in Cpus, PowerMove(c)
  PROVE  TypeShared'
<1> USE DEF TypeShared, locals, shared, power
<1>1. CASE CpuOff(c)
  BY <1>1 DEF CpuOff, AcquireLocks, LocksTaken
<1>2. CASE \E l \in Calls[c].susp : CpuSuspend(c, l)
  BY <1>2, SuspendLevels DEF CpuSuspend, AcquireLocks, LocksTaken
<1>3. CASE LockGet(c)
  BY <1>3 DEF LockGet, LocksTaken
<1>4. CASE LockRelease(c)
  BY <1>4 DEF LockRelease, LocksFreed
<1>5. CASE Abandon(c)
  BY <1>5 DEF Abandon, ReleaseLocks, LocksFreed
<1>6. CASE Coordinate(c)
  <2>1. goal' \in [Cpus -> 0..2]
    BY <1>6, GoalIs
  <2>2. req' \in [1..2 -> SUBSET Cpus]
    BY <1>6 DEF Coordinate, Requests
  <2>3. down' \in SUBSET Nodes
    <3>1. \A l \in 1..lvl[c] : Node(c, l) \in Nodes
      BY NodesAre, TopologyOK DEF Node, Nodes
    <3> QED
      BY <1>6, <3>1 DEF Coordinate
  <2> QED
    BY <1>6, <2>1, <2>2, <2>3 DEF Coordinate
<1>7. CASE PowerDown(c)
  BY <1>7 DEF PowerDown
<1>8. CASE PlatformDown(c)
  BY <1>8 DEF PlatformDown, ReleaseLocks, EnableWakeup
<1>9. CASE OffFlush(c)
  BY <1>9 DEF OffFlush
<1>10. CASE OffWrite(c)
  BY <1>10 DEF OffWrite
<1>11. CASE OffInvalidate(c)
  BY <1>11 DEF OffInvalidate
<1>12. CASE PowerUp(c)
  BY <1>12 DEF PowerUp, Woken
<1>13. CASE Reset(c)
  BY <1>13 DEF Reset
<1>14. CASE Check(c)
  BY <1>14 DEF Check, AcquireLocks, LocksTaken
<1>15. CASE Finish(c)
  BY <1>15 DEF Finish, DisableWakeup, Others
<1>16. CASE Sync(c)
  BY <1>16 DEF Sync, LockFree
<1>17. CASE Resume(c)
  BY <1>17 DEF Resume
<1>18. CASE ToRun(c)
  BY <1>18 DEF ToRun, ReleaseLocks, LocksFreed
<1> QED
  BY <1>1, <1>2, <1>3, <1>4, <1>5, <1>6, <1>7, <1>8, <1>9, <1>10, <1>11, <1>12,
     <1>13, <1>14, <1>15, <1>16, <1>17, <1>18 DEF PowerMove

-----------------------------------------------------------------------------
(* All but the locks of the power domains.                                 *)
Core ==
  /\ TypeLocals /\ TypeCalls /\ TypeShared /\ TypeCaches
  /\ LifeInv /\ ReqInv /\ MaskInv /\ SpinInv /\ CciInv
  /\ AffInv /\ LineInv /\ OnInv /\ CtxInv

(* The invariant holds after psci_setup.                                   *)
LEMMA CoreInit == Init => Core /\ LockInv
<1> SUFFICES ASSUME Init PROVE Core /\ LockInv
  OBVIOUS
<1> USE TopologyOK DEF Init
<1>1. TypeLocals
  BY DEF TypeLocals, Pcs, Idle
<1>2. TypeCalls /\ TypeShared
  BY DEF TypeCalls, TypeShared, AffStates, Nodes
<1>3. TypeCaches
  BY DEF TypeCaches, AffStates
<1>4. LifeInv /\ MaskInv /\ SpinInv
  BY DEF LifeInv, Life, Waking, PowerOnLvl, MaskInv, Dozing, SpinInv, OnPhase,
     Idle
<1>5. ReqInv
  BY DEF ReqInv, Passive, Depth, PowerOnLvl, Node
<1>6. CciInv
  <2>1. \A k \in Clusters : k \notin cci => k \in down /\ A53A57
    BY DEF A53A57
  <2> QED
    BY <2>1 DEF CciInv, CacheOn
<1>7. AffInv /\ OnInv /\ CtxInv
  BY DEF AffInv, Off, Starting, Waking, OnInv, OnOK, CtxInv
<1>8. LineInv
  BY DEF LineInv, DirtyInv, CopyInv, Fits, EmptyInv
<1>9. LockInv
  <2>1. queue \in [Nodes -> Seq(Cpus)] /\ \A n \in Nodes : queue[n] = << >>
    OBVIOUS
  <2>2. \A c \in Cpus : Top(c) = 0 /\ Held(c) = 0
    BY DEF Top, Held
  <2>3. \A n \in Nodes : Distinct(queue[n]) /\ \A c \in Cpus : ~In(c, queue[n])
    BY <2>1 DEF Distinct, In
  <2> QED
    BY <2>1, <2>2, <2>3, NodesAre DEF LockInv
<1> QED
  BY <1>1, <1>2, <1>3, <1>4, <1>5, <1>6, <1>7, <1>8, <1>9 DEF Core

(* Every step keeps the invariant; the locks unless it wipes them.         *)
LEMMA CoreMove ==
  ASSUME Core, LockInv, NEW c \in Cpus, Call(c) \/ Step(c) \/ PowerUp(c)
  PROVE  Core' /\ (~(broken') => LockInv')
<1> USE DEF Core
<1>0. CacheInv
  BY DEF CacheInv
<1>1. CASE InfoMove(c)
  <2>1. TypeLocals' /\ LifeInv' /\ ReqInv' /\ MaskInv' /\ CciInv'
    BY <1>1, LifeInfo, ReqInfo, MaskInfo, CciInfo
  <2>2. TypeCaches' /\ LineInv' /\ AffInv' /\ OnInv'
    BY <1>0, <1>1, LineInfo, AffInfo, OnInvInfo
  <2>3. CtxInv' /\ TypeShared'
    BY <1>0, <1>1, CtxInfo, SharedInfo
  <2>4. SpinInv' /\ TypeCalls'
    BY <1>1, <2>2, SpinInfo
  <2>5. LockInv'
    BY <1>1, LockInfo
  <2> QED
    BY <2>1, <2>2, <2>3, <2>4, <2>5
<1>2. CASE PowerMove(c)
  <2>1. TypeLocals' /\ LifeInv' /\ ReqInv' /\ MaskInv'
    BY <1>2, LifePower, ReqPower, MaskPower
  <2>2. CciInv'
    BY <1>2, CciPower
  <2>3. TypeCaches' /\ LineInv' /\ AffInv' /\ CtxInv'
    BY <1>0, <1>2, LinePower, AffPower, CtxPower
  <2>4. OnInv' /\ TypeShared' /\ SpinInv' /\ TypeCalls'
    BY <1>0, <1>2, OnInvPower, SharedPower, SpinPower
  <2>5. ~(broken') => LockInv'
    BY <1>2, LockPower
  <2> QED
    BY <2>1, <2>2, <2>3, <2>4, <2>5
<1> QED
  BY <1>1, <1>2, Halves

(* Steps that change nothing, and the history of the wipe.                 *)
LEMMA CoreStutter == Core /\ UNCHANGED vars => Core'
<1> SUFFICES ASSUME Core, UNCHANGED vars PROVE Core'
  OBVIOUS
<1> USE DEF Core, vars, locals, shared, power, caches
<1>1. (TypeLocals /\ TypeCalls /\ TypeShared /\ TypeCaches)'
  BY DEF TypeLocals, TypeCalls, TypeShared, TypeCaches
<1>2. (LifeInv /\ MaskInv /\ SpinInv)'
  BY DEF LifeInv, Life, Waking, PowerOnLvl, MaskInv, Dozing, SpinInv
<1>3. (ReqInv /\ CciInv)'
  BY DEF ReqInv, Passive, Depth, PowerOnLvl, Node, CciInv, CacheOn
<1>4. (AffInv /\ CtxInv)'
  BY DEF AffInv, Off, Starting, Waking, CtxInv
<1>5. (OnInv /\ LineInv)'
  BY DEF OnInv, OnOK, Off, Starting, Waking, Dirty, LineInv, DirtyInv, CopyInv,
     Fits, EmptyInv
<1> QED
  BY <1>1, <1>2, <1>3, <1>4, <1>5

LEMMA LockStutter == LockInv /\ UNCHANGED vars => LockInv'
  BY LockSame DEF vars, locals, shared, Top, Held

LEMMA BrokenStays == [Next]_vars => (broken => broken')
<1> SUFFICES ASSUME [Next]_vars, broken PROVE broken'
  OBVIOUS
<1>1. CASE UNCHANGED vars
  BY <1>1 DEF vars
<1>2. CASE ~UNCHANGED vars
  <2>1. PICK c \in Cpus : Call(c) \/ Step(c) \/ PowerUp(c)
    BY <1>2 DEF Next, Lost
  <2>2. broken' = broken \/ Reset(c)
    BY <2>1 DEF Call, CpuOff, CpuOn, AffinityInfo, CpuSuspend, Step, InfoLoad,
       OnLock, OnLook,
         OnRefuse, OnAccept, OnSet, OnClean, OnVerify, OnPower, OnContext, LockGet, LockRelease,
         Abandon, Coordinate, PowerDown, PlatformDown, OffFlush, OffWrite, OffInvalidate,
         Check, Finish, Sync, Resume, ToRun, PowerUp
  <2>3. Reset(c) => broken'
    BY DEF Reset
  <2> QED
    BY <2>2, <2>3
<1> QED
  BY <1>1, <1>2

(* What holds up to the wipe of a lock in use, and what holds for ever     *)
(* when the system is not followed beyond it.                              *)
Sound == ~broken => Core /\ LockInv
Tracked == Core /\ (~broken => LockInv)

(* The two inductive invariants.                                           *)
LEMMA SoundStep == Sound /\ [Next]_vars => Sound'
<1> SUFFICES ASSUME Sound, [Next]_vars, ~(broken') PROVE (Core /\ LockInv)'
  BY DEF Sound
<1>1. Core /\ LockInv
  BY BrokenStays DEF Sound
<1>2. CASE UNCHANGED vars
  BY <1>1, <1>2, CoreStutter, LockStutter
<1>3. CASE ~UNCHANGED vars
  <2>1. PICK c \in Cpus : Call(c) \/ Step(c) \/ PowerUp(c)
    BY <1>3 DEF Next, Lost
  <2> QED
    BY <1>1, <2>1, CoreMove
<1> QED
  BY <1>2, <1>3

LEMMA TrackedStep ==
  ASSUME ~BeyondWipe PROVE Tracked /\ [Next]_vars => Tracked'
<1> SUFFICES ASSUME Tracked, [Next]_vars PROVE Tracked'
  OBVIOUS
<1>1. CASE UNCHANGED vars
  <2>1. broken' = broken
    BY <1>1 DEF vars
  <2>2. Core'
    BY <1>1, CoreStutter DEF Tracked
  <2> QED
    BY <1>1, <2>1, <2>2, LockStutter DEF Tracked
<1>2. CASE ~UNCHANGED vars
  <2>1. PICK c \in Cpus : Call(c) \/ Step(c) \/ PowerUp(c)
    BY <1>2 DEF Next, Lost
  <2>2. ~broken
    BY <1>2 DEF Next, Lost, Followed
  <2> QED
    BY <2>1, <2>2, CoreMove DEF Tracked
<1> QED
  BY <1>1, <1>2

(* Up to the wipe of a lock in use, every state of the PSCI code satisfies *)
(* the whole invariant, the locks of psci_acquire_pwr_domain_locks         *)
(* included.                                                               *)
THEOREM SoundHolds == Spec => []Sound
<1>1. Init => Sound
  BY CoreInit DEF Sound
<1> QED
  BY <1>1, SoundStep, PTL DEF Spec

(* The memset in psci_warmboot_entrypoint leaves all but the locks intact: *)
(* the state right after it still satisfies the rest of the invariant.     *)
THEOREM TrackedHolds == ASSUME ~BeyondWipe PROVE Spec => []Tracked
<1>1. Init => Tracked
  BY CoreInit DEF Tracked
<1> QED
  BY <1>1, TrackedStep, PTL DEF Spec
-----------------------------------------------------------------------------
(* The lock of a power domain is never held by two CPUs.                   *)
LocksExclude ==
  \A c, d \in Cpus, l \in 1..2 :
    Node(c, l) = Node(d, l) /\ l <= Held(c) /\ l <= Held(d) /\ ~broken => c = d

(* psci_acquire_pwr_domain_locks: from a CPU's warm boot or its call to    *)
(* power down until psci_release_pwr_domain_locks, nobody else is inside.  *)
THEOREM LocksExcludeHolds == Spec => []LocksExclude
<1>1. Sound => LocksExclude
  BY OneInside DEF Sound, LocksExclude
<1> QED
  BY <1>1, SoundHolds, PTL

(* A CPU never works through its data cache while its cluster is outside   *)
(* coherency (plat_cci_disable in rcar_pwr_domain_off and _suspend,        *)
(* plat_cci_enable in rcar_pwr_domain_on_finish), for any CPUs, clusters   *)
(* and calls, until a lock in use is wiped.                                *)
THEOREM CoherentHolds == Spec => []Coherent
<1>1. Sound => Coherent
  BY DEF Sound, Core, CciInv, Coherent
<1> QED
  BY <1>1, SoundHolds, PTL

(* A CPU the OS runs on has no power domain marked OFF and no request for  *)
(* OFF standing (psci_do_state_coordination, psci_set_pwr_domains_to_run). *)
THEOREM DomainsRunHolds == Spec => []DomainsRun
<1>1. Sound => DomainsRun
  BY DEF Sound, Core, ReqInv, Passive, DomainsRun
<1> QED
  BY <1>1, SoundHolds, PTL

(* A CPU leaves EL3 with the context of the call that started it: it waits *)
(* for cpu_lock in psci_cpu_on_finish, which its caller gives back after   *)
(* cm_init_context_by_index.                                               *)
THEOREM EntersWithContextHolds == Spec => []EntersWithContext
<1>1. Sound => EntersWithContext
  BY DEF Sound, Core, CtxInv, EntersWithContext
<1> QED
  BY <1>1, SoundHolds, PTL

(* No CPU panics in the warm boot path: its mailbox is set, and its state  *)
(* in memory is not OFF when psci_warmboot_entrypoint reads it.            *)
THEOREM NoPanicHolds == ASSUME ~BeyondWipe PROVE Spec => []NoPanic
<1>1. Tracked => NoPanic
  BY DEF Tracked, Core, TypeLocals, Pcs, Idle, NoPanic
<1> QED
  BY <1>1, TrackedHolds, PTL

(* After its flush CPU_ON reads OFF of a target that is OFF, whatever      *)
(* copies the clusters had of its state (psci_cpu_on_start).               *)
THEOREM AnswersFreshHolds == ASSUME ~BeyondWipe PROVE Spec => []AnswersFresh
<1>1. Tracked => AnswersFresh
  <2> SUFFICES ASSUME Tracked, NEW c \in Cpus, pc[c] = "on_check", seen[c] = "OFF"
               PROVE  Value(Cluster[c], tgt[c]) = "OFF"
    BY DEF AnswersFresh
  <2>1. CacheInv /\ SpinInv
    BY DEF Tracked, Core, CacheInv
  <2>2. aff[tgt[c]] = "OFF" /\ \A k \in Clusters : line[k][tgt[c]] \in {None, "OFF"}
    BY DEF Tracked, Core, OnInv, OnOK
  <2>3. ~Dirty(tgt[c])
    BY <2>1, ValueTells
  <2>4. Cluster[c] \in cci /\ Cluster[c] \in Clusters /\ tgt[c] \in Cpus
    BY <2>1, TopologyOK DEF CacheInv, CciInv, CacheOn, TypeCalls
  <2> QED
    BY <2>1, <2>2, <2>3, <2>4, ValueIs
<1> QED
  BY <1>1, TrackedHolds, PTL

(* When every CPU is in wfi one of them can be woken, although the mask    *)
(* register of a cluster is written whole (rcar_pwrc_enable_interrupt_     *)
(* wakeup): the boot CPU never goes off, and in its cluster one suspended  *)
(* CPU is unmasked.                                                        *)
THEOREM RousableHolds == ASSUME ~BeyondWipe PROVE Spec => []Rousable
<1>1. Tracked => Rousable
  <2> SUFFICES ASSUME Tracked, \A c \in Cpus : pc[c] = "wfi"
               PROVE  \E c \in Cpus : Woken(c) \/ (op[c] = "susp" /\ c \in unmasked)
    BY DEF Rousable
  <2>1. Dozing(BootCpu)
    BY TopologyOK DEF Tracked, Core, LifeInv, Life, Dozing
  <2>2. PICK d \in Cpus : Dozing(d) /\ d \in unmasked
    BY <2>1, TopologyOK DEF Tracked, Core, MaskInv
  <2>3. op[d] = "susp"
    BY <2>2 DEF Dozing, Waking
  <2> QED
    BY <2>2, <2>3
<1> QED
  BY <1>1, TrackedHolds, PTL

(* OFF becomes ON_PENDING only by a flush, ON_PENDING becomes ON when the  *)
(* CPU enters the OS, ON becomes OFF when it turns itself off.             *)
LEMMA AffMoves ==
  ASSUME Core, LockInv, NEW c \in Cpus, Call(c) \/ Step(c) \/ PowerUp(c),
         NEW t \in Cpus, aff'[t] # aff[t]
  PROVE  <<aff[t], aff'[t]>> \in {<<"OFF", "PENDING">>, <<"PENDING", "ON">>,
                                   <<"ON", "OFF">>}
<1> USE DEF Core
<1>0. CacheInv
  BY DEF CacheInv
<1>1. CASE InfoMove(c)
  <2>1. ~OnSet(c)
    BY DEF OnSet, Store
  <2>2. Dirty(t) /\ aff'[t] = "PENDING"
    BY <1>0, <1>1, <2>1, LineInfo DEF Mild
  <2>3. aff[t] = "OFF"
    BY <2>2 DEF LineInv, DirtyInv, Dirty
  <2> QED
    BY <2>2, <2>3
<1>2. CASE PowerMove(c)
  <2>1. CASE OffWrite(c)
    <3>1. t = c /\ aff'[t] = "OFF" /\ pc[c] = "off_write"
      BY <2>1 DEF OffWrite, StoreUncached, TypeCaches, Goto
    <3>2. aff[t] = "ON"
      BY <3>1 DEF AffInv, Off, Starting, Waking, TypeCaches, AffStates
    <3> QED
      BY <3>1, <3>2
  <2>2. CASE ToRun(c)
    <3>1. t = c /\ aff'[t] = "ON" /\ pc[c] = "torun"
      BY <1>0, <2>2, ToRunIs DEF ToRun, ReleaseLocks, TypeCaches, Goto
    <3>2. aff[t] = "PENDING"
      BY <3>1 DEF AffInv, Off, TypeCaches, AffStates
    <3> QED
      BY <3>1, <3>2
  <2>3. CASE OffFlush(c) \/ PowerDown(c) \/ OffInvalidate(c)
    BY <1>0, <2>3, OffFlushIs, PowerDownIs, OffInvalidateIs DEF Thinned
  <2>4. CASE ~OffFlush(c) /\ ~OffWrite(c) /\ ~OffInvalidate(c) /\ ~PowerDown(c) /\ ~ToRun(c)
    BY <1>2, <2>4, CachesKept DEF caches
  <2> QED
    BY <2>1, <2>2, <2>3, <2>4
<1> QED
  BY <1>1, <1>2, Halves

(* The affinity state of a CPU goes round OFF, ON_PENDING, ON              *)
(* (psci_cpu_on_start, psci_set_pwr_domains_to_run, psci_do_cpu_off).      *)
THEOREM AffinityCycleHolds == ASSUME ~BeyondWipe PROVE Spec => AffinityCycle
<1> DEFINE Rounds(t) == <<aff[t], aff'[t]>> \in
                          {<<"OFF", "PENDING">>, <<"PENDING", "ON">>, <<"ON", "OFF">>}
           Cycle == \A c \in Cpus : aff'[c] # aff[c] => Rounds(c)
<1>1. Tracked /\ [Next]_vars => [Cycle]_vars
  <2> SUFFICES ASSUME Tracked, Next, ~UNCHANGED vars, NEW t \in Cpus, aff'[t] # aff[t]
               PROVE  Rounds(t)
    OBVIOUS
  <2>1. PICK c \in Cpus : Call(c) \/ Step(c) \/ PowerUp(c)
    BY DEF Next, Lost
  <2>2. Core /\ LockInv
    BY DEF Next, Lost, Followed, Tracked
  <2> QED
    BY <2>1, <2>2, AffMoves
<1> QED
  BY <1>1, TrackedHolds, PTL DEF Spec, AffinityCycle
=============================================================================
