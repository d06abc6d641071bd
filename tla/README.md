# Verification of the R-Car M3N cluster boot and demo

The repository boots an R-Car M3N board into an instrument cluster: a loader on
the Cortex-R7 starts from reset, brings up DRAM, loads an RTOS image (and, if
built to, a loader for the Cortex-A57/A53) from HyperFlash, optionally
authenticates both with the boot ROM, and jumps to the RTOS. The RTOS image is
the cluster demo, which draws gauges into two frame buffers. On the Cortex-A57/A53
side Trusted Firmware-A stays resident and manages the power of the CPUs (PSCI).

This directory holds TLA+ models of that system, TLC configurations that check
them on small instances, and TLAPS proofs that hold for every instance.

## 1. Inventory

| Part | State | Operations | Hard behaviour |
|---|---|---|---|
| First-stage loader (`CortexR7_Loader/loader`) | DRAM up or not, reset masks | `loader_main`: hardware set-up, watchdog start, product check, `InitDram`, hand-over to the TCM loader | an exit at every step; read-modify-write of a reset register shared with the watchdog code |
| TCM loader (`tcm_loader`, `common/auth.c`) | boot mode, current certificate buffer, size and load address of each image | `tcm_loader_main`: key certificate, content certificate, `get_info_from_cert`, size checks, `check_load_area`, image, authentication, twice; then the hand-off | 32-bit arithmetic on certificate fields; one certificate buffer for two images; the second image loaded after the first was authenticated |
| DMA and flash drivers (`dma_driver.c`, `rpc_driver.c`) | channel registers, secure attribute, flash controller state | `execDMA` = `startDMA` + `endDMA` + `wait_endRPC` | unbounded polling; address error in the middle of a transfer; lengths rounded up to 256 bytes after the area check |
| Watchdog and interrupts (`swdt.c`, `arm_gic.c`, `report_exception.S`, `error_output.c`) | timer, overflow flag, reset masks, GIC gates, IRQ mask | `swdt_init`, `swdt_release`, `swdt_exec`, IRQ and error handlers | the handler runs the same release routine as the hand-off it interrupted; `panic()` leaves the timer running |
| CA5x power-up (`rcar_pwrc.c`) | SCU power state, SYSC and APMU flags, boot address | `rcar_pwrc_cpuon`, `SCU_power_up` | a request that may be refused and is repeated; polls with no watchdog behind them |
| LifeC (`lifec_init.c`) | protection registers | `lifec_init`, `lifec_cr7_setting` | order relative to the release of the CA5x core |
| Cluster display loop (`2dwow_main.c`) | window, two surfaces, frame counter | `AppInit`, `AppLoop`, `AppDeInit` | GPU and display controller run concurrently with the loop; error exits half way through initialisation |
| Gauge screen (`app_cl_gauge.c`) | per-buffer memory of what was drawn, needle history, flash counters | `RenderClGaugeScreen` and its parts | a frame only repaints what changed in *this* buffer, at most a few elements at a time |
| Image store (`demo_cluster.c`, `misc/romfs_main.c`, `misc/texture.c`) | 50 video memory slots, 2 file handles, textures | allocate, free, open, close, read, `Init2DImg`, `Deinit2DImg` | tables at their limit; cleanup on error paths |
| Car model (`app_cl_carmodel.c`) | speed, RPM, gear, lights, fuel, temperature, counters | one update per frame | coupled counters with different periods; floating-point end points |
| ECC set-up (`single_ecc.c`, `dram_dual_ecc.c`, `ecc_init`) | areas under ECC, the tables of the build, error detection | `single_ecc_init`, `dram_dual_ecc_init` | registers before fills; a table read twice, once reduced and once not |
| Fill DMA (`dma_driver.c`) | four channels, their secure attribute, the poll state | `exec_fillDMA`, `exec_fill_sram`, `end_fillDMA` | four channels write while they are polled one by one; one may stop with an error; the split of a length into four parts |
| PSCI (`CA57-code/ipl`: `lib/psci`, `plat/renesas/rcar`, `pwrc.c`) | affinity state of each CPU in memory and caches, power state requests and domain states, domain locks, spin locks, mailboxes, wake-up registers | CPU_ON, CPU_OFF, CPU_SUSPEND, AFFINITY_INFO, warm boot | CPUs with caches on and off share data; clusters leave and join coherency; locks that a waking CPU zeroes |
| Cluster wrapper (`cluster_wrapper/src/main.c`) | thread handles, memory manager | `start_thread` | early returns that leave threads running |

What makes each correct: nothing is started that is not complete and
authenticated (TCM loader); memory is written only where the area check allows
(drivers); every wait ends (watchdog); whoever is started finds the watchdog
quiet (hand-off); the CA5x core is released only when powered (power-up); a
frame that is shown is complete and shows the current state (display, gauge
screen); no slot or handle is lost (image store); the memory under ECC has its codes
and nothing else is erased (ECC); a CPU runs only inside coherency, with its context,
and comes up when it was asked for (PSCI).

The parts interact as follows. All loader code runs on one core. It calls the
drivers, which start a device and poll it; the watchdog interrupts the core at
any instruction between `aif_enable_i` and `aif_disable_i`, and its handler never
returns to the interrupted code. The two loader stages are chained by
`loader.S`/`tcm_loader.S`, and the TCM loader ends by returning the address to
which `tcm_loader.S` jumps. The CA5x core is released by register writes and
then runs beside the CR7.

In the demo, `start_thread` opens the memory manager and creates three threads; one of
them creates `main_thread`, which starts the DHD server and the application thread. The
application thread loads the images from the ROM file system into video memory, then
for each frame gives the drawing engine its commands, waits for it, hands the buffer
to the window manager and updates the car model. Engine and screen run on their own.

The CPUs of the A5x clusters share the PSCI data. They synchronise with one spin lock
per CPU and one bakery lock per power domain, and wake one another through the power
controller.

## 2. Modules

| Module | Models | Extends |
|---|---|---|
| `Cr7Map` | memory map, certificate fields, `check_load_area`, transfer length: the arithmetic, with the widths of the code | |
| `Cr7Core` | program counter, return address, IRQ mask, `panic` | |
| `Swdt` | watchdog, GIC path, IRQ and error handlers | `Cr7Core` |
| `DmaRpc` | memory, DMA channel, flash controller, `execDMA` | `Cr7Map`, `Cr7Core` |
| `ScuPower` | `rcar_pwrc_cpuon` with SYSC and APMU | `Cr7Core` |
| `Cr7Loader` | `loader_main` | `Swdt` |
| `TcmLoader` | `tcm_loader_main` | `DmaRpc` |
| `Cr7Boot` | the composition, its properties and the refinement mapping | all of the above |
| `BootPolicy` | abstract specification: place, check, start | |
| `MCCr7Boot` | the instances TLC checks | `Cr7Boot` |
| `Cr7BootProofs` | theorems on control (watchdog, channel, hand-off, power-up) and on data (memory, images, refinement of `BootPolicy`) | `Cr7Boot`, `TLAPS` |
| `GaugeScreen` | `RenderAppCluster`: the gauge screen's incremental drawing into two frame buffers | |
| `MCGaugeScreen` | the icon table and the angles TLC checks, and which of them move | `GaugeScreen` |
| `GaugeScreenProofs` | theorems | `GaugeScreen`, `TLAPS` |
| `ImageStore` | video memory slots, file handles, loading and freeing of images | |
| `WmGpu` | window manager, drawing engine and screen as the demo uses them (external) | |
| `ClusterApp` | the application thread: `AppLoop` with `AppInit`, frames and `AppDeInit` | `ImageStore`, `WmGpu` |
| `ClusterSystem` | the composition with `start_thread`, `x2dwow_main` and `main_thread`; properties; refinement mapping | `ClusterApp` |
| `FrameStream` | abstract specification: frames are drawn, completed and shown, in order and for ever | |
| `MCCluster`, `ClusterProofs` | the instance TLC checks; theorems | `ClusterSystem` |
| `RleImage`, `MCRleImage`, `RleProofs` | `locDecompressRLE`, and the encoder as its reference definition; the instance; theorems | |
| `CarDrive`, `CarDriveProofs` | speed, gear and RPM, with the needle that follows the speed; theorems | |
| `CarLamps`, `MCCarLamps`, `CarLampsProofs` | signals, lights, lamps, temperature, fuel, gear lever; the instance; theorems | |
| `FillDma` | `exec_fillDMA`, `end_fillDMA` and the four channels | |
| `EccInit` | `ecc_init` with single- and dual-channel ECC | `FillDma` |
| `MCEcc`, `EccProofs` | boards and tables TLC checks; theorems | `EccInit` |
| `AffCache` | the affinity states in memory and in the caches of the clusters | |
| `Psci`, `MCPsci` | the PSCI operations, one process per CPU; the instances TLC checks | `AffCache` |
| `PsciProofs` | theorems | `Psci`, `TLAPS` |

### The boot

**State.** `pc` is a label of the code between two points where the environment
can be observed: a label is named after the function or the block that starts
there. `ret` is the return address of the two routines that are modelled in
several steps and called from more than one place (`execDMA`, `swdt_release`).
Memory (`mem`) is a function from 64-byte cells to the flash cell they hold, so
that "the image is in memory" means exactly that every cell of it holds the
right flash cell. Certificates are records with a size and an address at each of
the three offsets the loader can read.

**Actions.** One action per block of code between two waits or calls. Polling
loops are guards (the step is enabled when the poll succeeds), so that a device
that never answers leaves the core waiting at that label. Device steps (one DMA
burst, end of transfer, address error, end of the flash controller's cycle,
watchdog overflow, WTCNT reflected, power transitions) are actions of their own
and interleave with the code. `TakeIrq` and `TakeException` move the program
counter from any label: the handlers never return to it.

**Nondeterminism.** The product check, `InitDram`, `ROM_GetLcs`, the life-cycle
state, the mode bits, the magic number of the boot certificate, the verdict of
the ROM and the answer of SYSC are choices. The ROM is external: it may refuse
anything, and can accept only when both certificates and the image are in memory
as flash holds them. The watchdog may be running at reset.

**Arithmetic.** `u32(x)` is `x % AddrSpace`. It is applied where the C code adds
or multiplies `uint32_t` values: the size in words times 4, the sums of
`check_load_area`, the round-up of `execDMA`, the destination register of the
channel.

### The gauge screen

`RenderAppCluster` runs on one thread and is one action: a frame
(`RenderClGaugeScreen`), then `CarModelUpdate`, of which the screen can only see that
the status of any icon and the speed may have changed. What is hard is not
interleaving but memory: a frame draws only the difference to what the code
*believes* is in the buffer it draws to, which is the picture of two frames ago. The
model therefore keeps both sides apart: `OldStatus` and `NeedleSpeed` are the variables
of the code, `shown` and `needles` are the pixels. `oldstatus`, `status`, `Wanted`,
`Allowed`, `update`, `Drawn` and `newstatus` are the steps of the loop of
`locRenderElements` for one icon; `update[k]` counts the icons drawn among the first
`k`. Two details of the code are kept because they matter: the loop stops one short of
the end of the table, and the icon images become opaque (icon with background) in the
first two frames (`locElementSetupRender`), before which blending an image over another
would mix them. Angles are integers in quarter degrees, the unit of the filter's steps.
`calm` and `wrapped` are history variables for the properties.

### The cluster demo

`ClusterApp` has one action per library call of `AppLoop`, with the label of the next
call in `pc`. Every call may fail (`Faults`), and the error variables `ret` and `wmErr`
are kept apart as in the code, because only some paths look at both. `hang` is the
endless loop of `ClusterError`. Loading an image is two steps, so that its slot and its
file handle can be seen while the file is open; freeing is one step per image.
`WmGpu` holds what the calls act on: `gpu` is the frame the engine is working on and
the images it reads, `px` says of each buffer which frame it holds and whether all of
it, `pending`, `flip` and `scan` are the buffer given to the surface, the pending flip
and the buffer on the screen. The engine (`GpuDone`) and the vertical blank (`Vsync`)
are steps of their own; a blocking flush waits for the flip, a failed one may have
asked for it. `ClusterSystem` adds the threads: `start` is where `start_thread` is,
`thread` the three workers, `main` `main_thread`. A failed creation makes
`start_thread` return and undoes nothing.

The contents of a frame are the subject of `GaugeScreen`; here a frame is the set of
images it reads. An image with no memory behind it hangs the thread when it is drawn
(`Drawable`), as `demo_getvidmemptr` does.

### The car

Speed is a `float` that is compared with 50, 50.95 and 240. `CarDrive` computes it
exactly: in units of 2^-20 / 5 km/h both the step of 0.95 km/h and every single
precision number in the range are integers, and `Round` rounds to the spacing at the
size of the number. `midPauses` and `locked` are history variables. `locUpdateRpm`'s
loop is one step per turn, so a loop that does not end would be seen. The lamps share no
variable with the drive and are a module of their own (`CarLamps`).

### The image decoder

`RleImage` is `locDecompressRLE` byte by byte: `Src`, `Size`, `pixelcounter`,
`nextpixelrle` and `rlestart` are the variables of the code, `out` what it wrote. The
input is a list of packets; `Encode` is the format and `Decoding` what it stands for,
which is the reference. Bytes follow the file in flash, so reading too far is visible.

### ECC

`FillDma` keeps memory in the 64-byte units of the channels: `old`, `zero` or `coded`
(zero, written when ECC covered it). The four channels move unit by unit or meet an
address error while `end_fillDMA` looks at one after the other (`loop`, `result`);
`panic` does not stop the others. `EccInit` is the code around it: which boards support
which kind, for single ECC one area after the other (registers, then fill), for dual
ECC all registers first and then the loops over areas, extra areas and channel pairs.
The tables are compiled in; they are a constant set here and `tab` is the one chosen.

### PSCI

`Psci` has one process per CPU; a step is what it does between two accesses to state
that another CPU uses. `queue` is the bakery lock of each domain: the CPUs in the order
of their tickets. `req` and `down` are the requested and the actual states of the
domains, `suspLvl` is `target_pwrlvl`, `mailbox`, `wake` and `unmasked` are the
platform's mailboxes and the WUPCR and WUPMSK registers, `ctx` the CPUs whose entry
context was written for the request under way. `AffCache` models the one piece of data
that is read with caches on and written with caches off: `aff` is memory, `line` and
`dirty` the copy in each cluster, `cci` the clusters the interconnect keeps coherent. The
platform switches coherency on parts with both clusters only (`A53A57`); a lone cluster
stays in `cci`.
`broken` is a history variable: a warm boot has wiped a lock that was in use
(see Findings). Calls of the OS are a constant per CPU.

## 3. Runs

| Run | Question | Result |
|---|---|---|
| `cr7` | Does every interleaving of a boot with a CA5x core keep the safety properties, implement `BootPolicy` and end? | pass, about 310,000 states |
| `cr7_wrap` | Is the load area respected for a load address near the end of the address space? | violated, see Findings |
| `gauge` | Does the code's memory of the two buffers stay true, is every icon drawn in the end, every needle wiped, and does the filter reach the speed? | pass, about 224,000 states |
| `cluster` | With any call and any thread creation failing: is drawing kept from the screen and freeing from the engine, is everything accounted for and given back, and is `FrameStream` implemented until the failure? | pass, about 32,000 states |
| `car_drive` | Does the gear box keep up, does every sweep rest once, does the needle stay on the speed, with the rounding of the code? | pass, 3,610 states (a whole cycle) |
| `car_lamps` | Do icons that belong together agree at every restart of their counters? | pass, 41,019 states (a whole joint period) |
| `rle_decode` | Does the decoder write the image and nothing else? | pass, 6,414 states |
| `ecc` | Does all memory to be filled have its code, and is nothing else written, with four channels at work and failing? | pass, about 540,000 states |
| `ecc_split` | The same for tables with two split areas | violated, see Findings |
| `psci` | Do CPUs turned on and off and suspended in every interleaving keep coherency, domain states and contexts? | pass, about 426,000 states |
| `psci_live` | Does a CPU that was asked for come up? | pass, about 58,000 states |
| `psci_wipe` | Does coherency survive the wipe of the locks in warm boot? | violated, see Findings |

**Properties.**

* `StartedIntact`: when the RTOS is entered or the CA5x core released, its whole
  image is in memory as flash holds it, and in secure boot the ROM has verified
  it. It takes the size conversion, the area check, the rounding of the
  transfer, the abort on an address error and the order of the two images to
  make this true.
* `MemoryConfined`: nothing but DRAM and System RAM is ever written, rounding
  included (for load addresses that do not wrap).
* `HandoffQuiet`: whoever runs next finds the watchdog stopped, its interrupt
  closed and IRQ masked.
* `NoSwdtReset`: from `swdt_init` on a watchdog overflow interrupts and does not
  reset the SoC, although three places rewrite WDTRSTCR.
* `DeadIsFinal`: a boot that failed, in whatever handler, starts nothing.
* `BootEnds`, `PanicQuiesces`: liveness, see below.
* `ImplementsPolicy`: refinement. Abstractly an image is placed, then checked,
  then started; the RTOS is started last; nothing is started after a stop; a
  placed image is never overwritten.
* `RememberedIsShown`: what the code remembers of a buffer is what the buffer shows,
  for icons put off by the update limit too, and no icon is a mixture of two images.
  The property states the one exception that exists: when the 32-bit frame counter
  wraps, the code takes `!status` for the old status; for a flashing icon in its dark
  half this is the new status, so a lit icon is taken for dark until it next flashes.
* `IconsSettle`: once the car has not changed for `SettleFrames` frames, both buffers
  show every steady icon right. `SettleFrames` is two buffers times the number of steady
  icons divided, rounded up, by the share of the limit that flashing and always-drawn
  icons leave. In the build's table (3 flashing, 1 always drawn, limit 4 + 1) that share
  is one icon per frame; with `<` for `<=` in the limit test it would be zero, and the
  last icon could starve.
* `OneNeedle`: each buffer shows exactly one speed needle, the one the next frame in
  this buffer will wipe.
* `NeedleHomes`: a frame moves the needle towards the speed, never past it, and does not
  leave it standing short of it.
* `NoTearing`, `ShownComplete`: the engine never draws into the buffer on the screen; what
  is on the screen is all of one frame, the current one or the one before. Stated up to
  the failure of a DRW2D call: after a failed wait the code hands the buffer over anyway,
  and the frame in hand may be shown half drawn.
* `SupportsApp`: memory manager and DHD server are there as long as the application runs,
  also when `start_thread` gave up half way.
* `EngineReadsImages`: images are not freed under the engine, and nothing is drawn without
  a device although the result of `Drw2DInit` is ignored (the images in video memory
  cannot be loaded then, and the thread hangs).
* `SlotsAccountedFor`: a marked slot belongs to exactly one image. A refused allocation
  loses its slot, but hangs the thread, so that losses cannot add up.
* `EndReleasesAll`: when the application thread has ended, slots, video memory, handles,
  surface and device are given back, on every path. (The frame buffers are not: the code
  has no call for it.)
* `ShowsFrames`: refinement of `FrameStream`. `StopsAfterError`: after a failure the
  threads end, or hang in `ClusterError`.
* `GearKeepsUp`: every turn of the gear loop is its last one (an action property of
  `UpdateRpm`), and it leaves the RPM between the shift marks. `OneMidPause`: each sweep
  rests exactly once at medium speed, whatever rounding makes of the speeds it meets.
  `NeedleStaysLocked`: the needle, once on the speed, never falls behind it.
  `SweepsFullScale`: both ends of the scale are reached and shown for ever.
* `IconsAgree`, `SignalsInOrder`: no contradicting icons, no gauge off its scale, no signal
  from one side to the other in one tick, at counter restarts too.
* `DecodesImage`: the decoder writes exactly the pixels of the image, and has read its
  file exactly to the end.
* `FusaCoded`: when `ecc_init` returns, every unit that is to be filled has a code: not
  left out by the split into four, and not written before ECC covered it.
  `OnlyFusaZeroed`: nothing else was erased, also by channels that go on after a panic.
  `FillsInTurn`: no fill starts, and none returns, with a channel still at work or secure.
  `EccEnds`: every poll loop ends.
* `Coherent`: no CPU uses its data cache while its cluster is outside coherency.
  `DomainsRun`: a CPU that runs has no domain of its own marked OFF. `EntersWithContext`:
  CPU_ON starts the target before it writes the target's context; the target still never
  leaves EL3 without it. `NoPanic`: the ON_PENDING state reaches memory although the target
  may still be invalidating the line. `AnswersFresh`: CPU_ON does not decide on a stale
  line. `Rousable`: when all are asleep one can be woken, although each suspend overwrites
  the wake-up mask of its cluster. `AffinityCycle`: OFF, ON_PENDING, ON and no other way
  round. `ComesUp`: a CPU that was asked for reaches the OS. All but the safety of a single
  word (`NoPanic`, `AnswersFresh`, `AffinityCycle`, `Rousable`) are stated up to the wipe of
  a lock in use.

**Bounds.** The scaled map has 32 pages of 256 bytes: flash 12 pages, DRAM 6,
System RAM 8, with gaps between them and above System RAM, so that an image can
start below, end exactly at, run over or wrap past every border. The units of
the driver (256-byte alignment, 64-byte bursts) are those of the code. The size
limits are 3 and 2 pages. Certificates cover: a size that is not a multiple of
the unit, one that ends exactly at the end of the area, a size of zero, one word
over the limit, one whose product with 4 wraps to a legal size, addresses below,
beyond, unaligned, over the certificate buffers, an invalid format, and fields
that differ at the three offsets; certificates that wrap are in `cr7_wrap` only. These are the classes that the code's
comparisons tell apart; larger images only repeat the burst step. There is no
counter to cap in the boot. `CHECK_DEADLOCK FALSE`: the boot ends in the RTOS or in `panic()`.

The gauge run has one flashing icon, one that is always drawn, two steady ones and the
entry that is never drawn, with an update limit of 2 (three icons per frame, as the code's
test lets one more through): as in the build, one place is left for the steady icons. The
flash half-period is 1, so the period is 3 frames, and the frame counter wraps at 10: a
wrap falls in every phase of the flash and of the settling, the dark one included, and the
exception in `RememberedIsShown` is reached. `calm` is capped by `CalmBound`, which is
larger than `SettleFrames`. When the car drives it may send the needle to 0, 22 or 90
quarter degrees at any frame, so the needle turns back anywhere and the filter works on
both sides of each of its thresholds (1, 5 and 20 degrees), in both directions. Icons and
needle share nothing but the frame counter, so `MCSpec` moves one of them in a behaviour
(`drives`) and not both.

The cluster run has four images (one used from flash, one whose file is missing), three
slots, two file handles and a frame counter that wraps at 4; every library call may fail at
every frame and every thread creation may fail. More frames repeat the same steps: the
state of the loop depends on the counter only through its parity and the wrap. It may stop
(`CHECK_DEADLOCK FALSE`): the threads end or hang after an error.

`CarDrive` has the constants of the code and no bound. `CarLamps` has two of the lamps, one
of each polarity, and the turn signals' later ticks scaled down; the other periods are those
of the code, and the run goes through the whole joint period. `RleImage` has images of up to
two packets with two bytes per pixel, raw lengths of 1 and 2 and repeats of 2 and 3: a packet
after each kind of packet, and the last one before the bytes behind the file.

The ECC run has areas of 256 and 512 bytes (4 and 8 units: every channel has something to
do, and two steps in the larger one), two dual areas with two extra areas instead of eight
of each, four boards, and all tables over them with at most one split area. The PSCI runs
have three CPUs, two of them in one cluster: every pair of operations can meet on one
target, inside a cluster and across clusters. `MCCalls` and `LiveCalls` spread the calls
over the CPUs. With `BeyondWipe = FALSE` a behaviour is not followed further once a lock in
use was wiped (`Lost`).

**Fairness.** `LiveSpec` has weak fairness of the core's code, of the watchdog
timer and of a pending unmasked interrupt: the core executes, a running timer
overflows, the GIC signals. *Nothing* is assumed of the DMA channel and the flash
controller; `BootEnds` holds because the watchdog ends their waits. After
`swdt_release` there is no watchdog: in `KickSpec` the system controller is
assumed to react (weak fairness) and not to refuse every power-on request for
ever (strong fairness of an accepted request), since the code repeats the request
without a limit.

`ClusterSystem!FairSpec`: each thread is scheduled (the threads are
preemptive and block while they wait), the engine finishes what it was given, the screen
refreshes. `CarDrive` and `CarLamps`: frames keep being rendered. `EccInit!FairSpec`: the
processor runs and a channel moves or fails. `Psci!FairSpec`: EL3 code runs on (interrupts
are masked there), a requested wake-up is carried out, and a CPU that keeps trying for a spin
lock gets it (strong fairness of `OnLock` and `Sync`, since the lock is not a fair one).
Nothing makes the OS call PSCI, and no interrupt has to come.

## 4. Findings

`cr7_wrap`: `check_load_area` (`tcm_loader_main.c:340`) adds the destination and the length
in `uint32_t`. For a destination near 2^32 the sum wraps to a small value and passes
the end check, and the image is written above System RAM. The comment at line 333
says that the destination is checked to be in System RAM or SDRAM.
`MemoryConfined` and the `ImageHeld` part of `StartedIntact` are stated
for images that end below 2^32 (`NoWrap`). The bound is strict: an image that would end
at exactly 2^32 has the sum 0 and is accepted too.

`ecc_split`: when more than one bit of `extra_split_enable_bit` is set, the register
settings keep the lowest ("When a plural set, minimum number area is effective",
`dram_dual_ecc.c:119`), but the fill loop (line 298) tests the table. An area whose split is
not effective is then under ECC as a whole, was asked to be filled (line 104) and is not.
The tables of the repository split at most one area.

`psci_wipe`: on this platform `psci_warmboot_entrypoint` begins with
`memset(psci_locks, 0, ...)` (`psci_common.c:774`). In the run, a0 turns on a1 of its own
cluster and then suspends to the highest level; it holds the domain locks and has decided,
from a1's standing request for OFF, that the cluster goes down. a1 comes out of reset, wipes
the locks, takes them, enters the OS; then a0 takes the cluster out of coherency. This
last step is a behaviour of parts with both clusters: `rcar_pwr_domain_suspend` calls
`plat_cci_disable` for `RCAR_CLUSTER_A53A57` only (`plat_pm.c:125`). The wipe itself
happens on all parts. The comment at line 795 says that with all locks taken state
management can be done safely.

Two smaller observations have no run. In `texture.c:148` the bytes of a repeated pixel are
counted when one repetition is left, so never for a repeat of one: the loop then reads on
behind the data. The images of the repository that unpack to their declared size have no
such packet, and `RepeatLengths` starts at 2. The comment at `2dwow_main.c:353` says that
the main thread waits for the DHD thread too; it joins the application thread only.

## 5. Proofs

`Cr7BootProofs` proves, for every memory map that satisfies `MapOK`
(`MapAssumption`: addresses aligned to 256, flash below DRAM below System RAM below
the end of the address space, certificates and buffers inside their areas), every
build option and every set of certificates (`BuildOK`):

* `TypeCorrect`: `Spec => []TypeOK`. The lemmas `U32Type`, `CertFields`, `DmalenType`,
  `ExecDmaType` say that each conversion stays within 32 bits.
* `Control`: `Spec => [](TypeOK /\ CtlInv)`, the inductive invariant from which the
  others follow. None of the safety properties is inductive by itself, because
  `wait_endRPC` and `gic_release` return to `ret`, and what holds there depends on
  who called. `CtlInv` is the conjunction of
  - `RetInv`: which return address goes with which label;
  - `SwdtInv`: what the watchdog, the GIC gates and the IRQ mask are at each label,
    in particular that IRQ is masked from `swdt_disable` on;
  - `DmaInv`: outside `endDMA`/`wait_endRPC` the channel is clear and the flash
    controller idle, and which part of that already holds inside;
  - `ScuInv`: what the power-up labels imply about SCU, SYSC and the boot address.
* `DmaReleasedHolds`, `CoreReleasedSafelyHolds`, `NoSwdtResetHolds`, `DeadIsFinalHolds`,
  `HandoffQuietHolds`: the properties of the same names.

The second half of `Cr7BootProofs` builds on `Control` and proves, under the same
assumptions:

* `Data`: `Spec => [](TypeOK /\ CtlInv /\ DataInv)`. `DataInv` is the conjunction of
  - `FlowInv`: at each label, which image is being loaded, and which are loaded, checked
    and authenticated already;
  - `AuthInv`: in secure boot an image is past authentication only if the ROM has verified
    it;
  - `TransferInv`: of the transfer under way, the cells behind the channel's destination
    register hold what flash holds, and the bursts to come lie inside the area that was
    checked (`CertTransfer`, `ImageTransfer`), or else the accepted image wraps
    (`WrapTransfer`);
  - `PlacedInv`: what has been placed stays as it was loaded, through the second image's
    certificate and transfer; and `MemoryConfined` itself.

  Its arithmetic core is `RoundUp`: for an aligned destination and an aligned end,
  `dst + len <= end` implies `dst + dmalen(len) <= end`, so that rounding after the check
  does no harm.
* `MemoryConfinedHolds`, `StartedIntactHolds`: the properties of the same names.
* `RefinesPolicy`: `Spec /\ []NoneWraps => ImplementsPolicy`, step by step: the
  reading of the life-cycle state maps to `Decide`, the burst that completes an accepted image to `Place`,
  the ROM's verdict to `Check`, the hand-off and the core's release to `Start`, a failure to
  `Stop`, every other step to a stutter. `FittingCertsRefine` discharges the condition from the
  certificates: `CertsFit` says that none names an area that reaches 2^32.

`GaugeScreenProofs` proves, for every icon table, update limit, flash period, even
counter period and set of angles (`GaugeOK`):

* `TypeCorrect`: `Spec => []TypeOK`.
* `RememberedIsShownHolds` and `OneNeedleHolds`: the bookkeeping invariants. Neither is
  inductive alone: both need `FrameInv`, which ties the frame counter to `locInit` (the
  first two frames are exactly those with `locInit < 2`, unless the counter has wrapped,
  and they fall into the lit half of the flash period) and says that the images are opaque once both buffers are painted. `OneNeedle` is then preserved because the parity of
  the frame counter alternates across the wrap (`IdxStep`, from the even period).
* `NeedleHomesHolds`: from `FilterHomes`, a lemma about `locFilterGauge` alone: the result
  lies between the old angle and the new, and differs from the old unless they are equal.
* `IconsSettleHolds`: `IconsSettle` for every table in which the flashing and the always
  drawn icons together are no more than the update limit (`RoomForSteady`). The table of
  the build (`SINGLE_CLUSTER`) meets it exactly: three flash, one is always drawn and the
  limit is 4; the table without `SINGLE_CLUSTER` has five of them and would not.
  `SettleInv` says that of the steady icons as many are wrong in a buffer as the frames
  drawn into it since the last change have left: each such frame puts `Share` of them right
  or all (`FrameProgress`), and none wrong (`SteadyIcon`). For this the recursive function
  `update`, which counts the icons drawn so far, is shown to be a cardinality
  (`UpdateIsCount`).

`EccProofs` proves, for every set of boards and tables whose areas lie on 64-byte borders
and have lengths that split exactly (`TablesOK`):

* `FillExact`: every length of whole units from 1024 bytes on splits exactly, and the four
  destinations are adjacent, so that `TablesOK` asks nothing that real areas lack.
* `FillsInTurnHolds`, from `FillInv`: while a fill is on, `result` holds every channel
  that has units to go. Without this fact the property is not inductive: `PollEnd` looks at
  the last channel only.
* `OnlyFusaZeroedHolds`, for tables with at most one split area (`OneSplitOnly`; the finding
  is the reason), from `WriteInv`: what a channel has still to write lies in `Wanted`. It
  needs that the four parts lie inside the area (`PartInside`, by `FourTimes` and
  `Multiple`) and that what the loops fill is what the table asks for (`AreaWanted`,
  `RoundWanted`).
* `FusaCodedHolds`, for the same tables, from `CodedInv`: ECC covers an area before its
  fill starts, the units of the areas behind the loops are coded, and of the area under way
  those that no channel has still to write. The loops over areas, extra areas and
  channel pairs visit every table entry; for this `TablesOK` says that the bits of the
  dual-channel tables number areas that exist (`AREA_NUM`).

`ClusterProofs` proves, for every set of images and of failing calls and threads:

* `SupportsAppHolds`, from `StartInv`: the joins of `start_thread` can not return, because
  the worker threads never end, so the memory manager is never closed again.
* `NoTearingHolds`, for every even counter period, from `TearInv`: at each label of the
  frame loop, which of `target`, `pending`, `scan` and `flip` are this frame's buffer and
  which are the other one (`FrameInv`), and that the engine is at rest while a frame is
  handed over. `IdxTurns` is the lemma that the parity alternates across the wrap.
* `SlotsAccountedForHolds` and `EndReleasesAllHolds`, from `StoreInv`: distinct images have
  distinct slots and every marked slot is some image's (`Held`), the one open file is that
  of the image being loaded (`Opened`), the images loaded are a prefix of the list, and the
  images freed a prefix of the order of `GaugeScreenDeInit` (`Progress`), which visits them
  all (`DeinitVisits`).
* `EngineReadsImagesHolds`, from `ReadInv` with `StoreInv`. That nothing is drawn without a
  device, although the result of `Drw2DInit` is ignored, rests on an assumption the proof
  brought to light: some image must need video memory. `ImagesOK` states it of the
  background, whose `Attributes` are 0 (`cluster_background.c`); if all images were used
  from flash, the demo would draw without a device.
* `ShownCompleteHolds`, from `ShownInv`: which frame each buffer holds at each label.
* `ShowsFramesSafelyHolds`: `FrameStream` without its fairness is implemented step by step.

`RleProofs` proves `DecodesImageHolds` for every image whose repeats are at least two long
(`RealRepeats`; see the observation in section 4) and whatever bytes follow it in flash. The
reference concatenates what the packets stand for, so the proof is about two sequences of
sequences, `Encs`, the packets as bytes in flash, and `Decs`, their pixels.
`FlattenIsJoin` says that `FlattenSeq` is the unique solution of its recursion, `JoinAt`
that byte `k` of packet `p` is found in the join at the total length of the packets before
it plus `k`. `DecodeInv` then has two halves. Between packets (`AtPacket`) `Src` is at the
start of a packet, `Size` is the length of those left and `out` is the join of those
before; inside one (`AtPixel`) it also says how many pixels are left and, in a repeat, that
the bytes of the pixel are counted exactly when the last repetition is left. When `Size`
is used up no packet is left (`EncLenEnd`), so `Src` is at the end of the file.

Two of these proofs are about recursive functions on the naturals. The induction theorems
of the library take an operator, which the provers can not instantiate; the proofs argue
with the least counterexample instead. `LeastNumber` (every set of naturals that is not
empty has a least element) follows from the well-foundedness of `<`, which the library
states about sets.

`CarDriveProofs` proves, for the constants of the code, the three properties of `CarDrive`
that are not liveness. TLC has walked the one cycle there is; the proofs say why it comes
out right, from intervals that cover every speed and not those of the cycle only:

* `NeedleStaysLockedHolds`, from `NeedleInv`: a step of the speed with its rounding is at
  most 4980776 units (`MovedNear`), less than the 5242880 of one degree, and the filter
  takes an angle less than a degree away at once (`FilterSnaps`).
* `GearKeepsUpHolds`, an action property, from `GearBand`: going up, in a gear that is not the last, speed times
  ratio stays below 6000 RPM, or 6200 between a step and `locUpdateRpm`; going down it stays
  below 6000 and, in a gear that is not the first, above 2699 or 2500. One shift from such
  a state ends between the marks and within the range of the RPM, so the loop ends
  (`ShiftFits`, `GearTurn`), whatever the rounding of the RPM (`RpmNear`). At the upper end of the scale only the last gear is in its band, so the turn
  there is harmless.
* `OneMidPauseHolds`, from `MidInv`: from 32 to 64 km/h the speeds are multiples of 20
  units, the step of 4980736 is rounded to 4980740 both ways (`MovedGrid`), and the window
  of medium speed is 4980736 wide. A sweep meets exactly one multiple of 20 in it; with a
  step rounded down to 4980720 it could have met two.

The three invariants were checked with TLC on `car_drive`'s cycle first (`GearBand` in a
form divided by the ratio, because TLC's numbers have 32 bits), `SettleInv` and `DecodeInv`
on the instances of `gauge` and `rle_decode`.

`CarLampsProofs` proves `IconsAgreeHolds` and `SignalsInOrderHolds` for every set of lamps
and all ticks in the order the code has them (`TicksOK`). `IconsAgree` needs the direction
of the cooling gauge (`GaugeInv`), `SignalsInOrder` the interval of the turn counter in
which each combination of signals stands (`TurnInv`).

`PsciProofs` is about every set of CPUs, every assignment to clusters and every choice of
calls (`TopologyOK`). The inductive invariant has three layers:

* the life of one CPU: what it does fits where it is, `target_pwrlvl` is set exactly while a
  suspend is under way (`LifeInv`); a standing request for OFF is that of a CPU that is down
  or on its way, and up to the level it will take back (`ReqInv`); in each cluster with
  suspended CPUs one is unmasked (`MaskInv`);
* the locks: a caller of CPU_ON holds its target's spin lock (`SpinInv`); each CPU has one
  ticket for the levels it has asked for and is first at those it holds (`LockInv`); a
  cluster leaves coherency only while marked OFF and only if it is one of two, and no CPU in it uses its cache
  (`CciInv`, by `ClusterQuiet`: another CPU waits for the lock or has a request standing);
* the affinity states: memory tells where the CPU is (`AffInv`); the only newer copy there
  can be is ON_PENDING in the cache of the caller of CPU_ON (`DirtyInv`), any other copy is
  that of memory or an ON that outlived its CPU (`LineInv`); what the caller knows of its
  target at each step of CPU_ON (`OnInv`), in particular that the target's own invalidation
  can throw ON_PENDING away once but not twice; and who has a context and a mailbox
  (`CtxInv`).

The conjunction was checked with TLC on the instance of `psci` before it was proved. Two
theorems say that it is invariant: `SoundHolds`, all of it until a lock in use is wiped, and
`TrackedHolds`, all of it but `LockInv` also in the state right after the wipe, for
specifications that are not followed beyond it (`~BeyondWipe`). From the first follow
`LocksExcludeHolds` (no two CPUs inside one domain lock), `CoherentHolds`, `DomainsRunHolds`
and `EntersWithContextHolds`, which are stated up to the wipe; from the second `NoPanicHolds`,
`AnswersFreshHolds`, `RousableHolds` and `AffinityCycleHolds`, which are not, and are
therefore proved under `~BeyondWipe`, the setting of their run.

Only model-checked: liveness, which is out of the prover's reach. These are `BootEnds`,
`PanicQuiesces`, the fairness part of `ShowsFrames`, `StopsAfterError`, `SweepsFullScale`,
`EccEnds` and `ComesUp`.

`DmaReleased` (outside `endDMA` the channel is cleared, not secure, and the flash controller
idle) and `CoreReleasedSafely` (the CA5x core leaves reset with its SCU powered, its wake-up
accepted, the right boot address and the protection set up) are proved only; no run repeats
them.

## 6. What is abstracted or left out

* The register tables of clock, pin, DDR and QoS set-up, and the DDR training:
  only success or failure matters to the boot.
* Console output. `console_wait` is a step without effect.
* A watchdog reset before `swdt_init`: the boot starts again from its initial state.
* ECC: `ecc_init` is empty in the default build; the model takes the builds that have it.
  How DRAM channels share an area (ADSPLCR1 and 3) and the error target registers (MFIS) are
  left out. The secure attributes of the DMA channels (RDMSEC) are clear at reset.
* Demo: `eeRomFs_MMap` finds every file that was opened; images with embedded pixels (none
  in the tables), seek and read of files (never called) and pixel formats are left out; the
  images used from flash are in the file table. The needle angle's own rounding, below
  2^-14 degrees, is left out of `CarDrive`. The pause and tick counters are the code's
  static variables, which `InitCarModel` does not reset; it is called once.
* PSCI: a bakery lock is the queue of its tickets (their 15 bits are not modelled). Caches
  are modelled for the affinity state only; the other shared data is under the domain locks. Left out: CPU_ON of the caller itself, standby states,
  SYSTEM_SUSPEND (not built: `RCAR_SYSTEM_SUSPEND` is 0), SYSTEM_OFF and SYSTEM_RESET,
  migration, statistics, and `scu_power_up`. `rcar_pwrc_cpuon` and the mask register updates
  are atomic (they hold the lock of `pwrc.c`). The power controller keeps a wake-up request until the
  CPU is in `wfi`; the OS leaves no interrupt with a CPU it turns off; the Secure Payload may
  deny CPU_OFF.
* The rest of Trusted Firmware-A (boot loaders, drivers, dispatchers, other platforms) and
  U-Boot under `CA57-code` are vendored upstream projects; with the image data they are almost
  all of the repository's lines. What is modelled is the repository's own code and the part of
  Trusted Firmware-A that the R-Car platform code steers at run time.
* The AUTOSAR shim (a constant task table; the code that uses it is not in the repository)
  and the file table of the demo.
* In the gauge screen: geometry (whether areas overlap), the fuel gauge (wiped and redrawn
  as a whole in every frame), the RPM needle and the cooling gauge (not drawn in this
  build), and the error codes of the drawing calls, which are only logged.
* The OSAL, the window manager and the GPU driver are not in the repository.

## 7. Plan

The system's own state machines are modelled, and the invariants and action properties that
the runs expect to hold are proved for every instance. What is left needs another prover or
more of the system:

1. the liveness properties, for which a prover of fairness and `ENABLED` would be needed;
2. the bakery lock with its tickets under the queue of `Psci`, as a refinement;
3. the tables of the DMA and LifeC set-up that `components` lists as left out.
