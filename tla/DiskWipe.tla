------------------------------ MODULE DiskWipe ------------------------------
(***************************************************************************)
(* tools/disk-wipe-bench: one process opens and validates every target,     *)
(* splits each disk over a team of GPUs, runs one worker thread per GPU     *)
(* (label a window, copy it out in slices, pwrite each slice), joins them   *)
(* and optionally reads samples back.  --verify-only does just the last.    *)
(* The process can be killed at any moment and run again on the same disks, *)
(* with the same seed or another.  A device may have a volatile write       *)
(* cache: what it accepted is on the medium only after fsync, and what is   *)
(* not can be lost, in any order, when the power fails.                     *)
(*                                                                          *)
(* Sizes and offsets are in units of which a super-chunk has Super.  The    *)
(* unit at absolute position u of a disk, labelled from a seed, is          *)
(* <<seed, u>>: chunk index u \div Super, rank u % Super.                   *)
(***************************************************************************)
EXTENDS Integers, Sequences, FiniteSets, FiniteSetsExt, Functions

CONSTANTS
  Devices,     \* name -> [disk, size, sector, blk]; disk is the parent disk
  Volatile,    \* the devices with a volatile write cache
  Mountable,   \* the devices somebody else may start or stop using
  Configs,     \* the command lines
  Super,       \* super_bytes
  MaxDevs,     \* the host has 0 .. MaxDevs GPUs
  MaxAvail,    \* the default HBM window is 0 .. MaxAvail
  MaxRuns      \* bound: how often the program is started

ASSUME DiskAssumption ==
  /\ Mountable \subseteq DOMAIN Devices /\ Volatile \subseteq DOMAIN Devices
  /\ \A d \in DOMAIN Devices : Devices[d].size \in Nat
  /\ Super \in Nat \ {0}
  /\ MaxDevs \in Nat /\ MaxAvail \in Nat /\ MaxRuns \in Nat

\* What main's parser lets through: unsigned sizes, a team size that atoi may make
\* negative, GPU ordinals that are not negative and not listed twice.
CommandLines ==
  [disks : Seq(DOMAIN Devices), cap : Nat, confirm : BOOLEAN, dry : BOOLEAN,
   verify_n : Nat, only : BOOLEAN, gpus : {s \in Seq(Nat) : IsInjective(s)}, k : Int,
   mode : {"disk-per-gpu", "gpus-per-disk"}, seed : Nat, window : Nat, stage : Nat,
   verbose : BOOLEAN]

ASSUME ConfigAssumption == Configs \subseteq CommandLines

Old     == <<>>            \* what was on the disk before
InUse   == {"no", "mount", "other"}

VARIABLES
  disk,                    \* disk[d][u]: the contents of every device, as read
  medium,                  \* what of it would survive a power failure
  holder,                  \* who else uses a device: a mount, or LVM, md, swap
  runs,                    \* how often the program was started
  mpc, cfg, rc,            \* main
  gpus,                    \* the GPUs selected
  targets,                 \* struct OpenDisk: the disks opened so far
  w,                       \* the worker threads, by GPU
  render,                  \* renderer_thread
  vdisk, vk, mism, sampled \* verify_disk: disk, sample, mismatches, J's read

vars == <<disk, medium, holder, runs, mpc, cfg, rc, gpus, targets, w, render,
          vdisk, vk, mism, sampled>>
storage == <<disk, medium>>
reporting == <<render, vdisk, vk, mism, sampled>>

NoCfg == [disks |-> <<>>, cap |-> 0, confirm |-> FALSE, dry |-> FALSE, verify_n |-> 0,
          only |-> FALSE, gpus |-> <<>>, k |-> 0, mode |-> "disk-per-gpu",
          seed |-> 0, window |-> 0, stage |-> 0, verbose |-> FALSE]

Init ==
  /\ disk = [d \in DOMAIN Devices |-> [u \in 0 .. Devices[d].size - 1 |-> Old]]
  /\ medium = disk
  /\ holder = [d \in DOMAIN Devices |-> "no"]
  /\ render = "none"
  /\ runs = 0 /\ mpc = "off" /\ cfg = NoCfg /\ rc = 0
  /\ gpus = <<>> /\ targets = <<>> /\ w = <<>>
  /\ vdisk = 1 /\ vk = 0 /\ mism = 0 /\ sampled = {}

floor_to(v, q) == (v \div q) * q

----------------------------------------------------------------------------
(* The rest of the machine: the kernel lets one holder at a time claim a    *)
(* device, its parent disk or a partition of it (mount, swapon, O_EXCL).    *)

Overlaps(a, b) == a = b \/ Devices[a].disk = b \/ Devices[b].disk = a

Claimed == {d \in DOMAIN Devices : holder[d] # "no"}
             \cup (IF cfg.only THEN {} ELSE {targets[i].dev : i \in DOMAIN targets})

CanClaim(d) == \A c \in Claimed : ~Overlaps(c, d)

Hold(d, h) ==
  /\ holder[d] = "no" /\ CanClaim(d)
  /\ holder' = [holder EXCEPT ![d] = h]
  /\ UNCHANGED <<storage, runs, mpc, cfg, rc, gpus, targets, w, reporting>>

Release(d) ==
  /\ holder[d] # "no"
  /\ holder' = [holder EXCEPT ![d] = "no"]
  /\ UNCHANGED <<storage, runs, mpc, cfg, rc, gpus, targets, w, reporting>>

----------------------------------------------------------------------------
(* main, up to the schedule.                                                *)

\* main ends: the descriptors are closed by Exit.
Fail(code) == mpc' = "exit" /\ rc' = code

BeginRun(c) ==
  /\ mpc = "off" /\ runs < MaxRuns
  /\ runs' = runs + 1
  /\ cfg' = IF c.only /\ c.verify_n = 0 THEN [c EXCEPT !.verify_n = 128] ELSE c
  /\ vdisk' = 1 /\ vk' = 0 /\ mism' = 0 /\ sampled' = {}
  /\ IF c.disks = <<>> THEN Fail(2) ELSE mpc' = "gpus" /\ rc' = 0
  /\ UNCHANGED <<storage, holder, gpus, targets, w, render>>

\* cudaGetDeviceCount, the default selection and the range check.
Inventory(ndev) ==
  /\ mpc = "gpus"
  /\ gpus' = IF cfg.gpus = <<>> THEN [i \in 1 .. ndev |-> i - 1] ELSE cfg.gpus
  /\ CASE ndev < 1 -> Fail(1)
       [] ndev >= 1 /\ (\E i \in DOMAIN gpus' : gpus'[i] >= ndev) -> Fail(2)
       [] OTHER -> mpc' = "check" /\ UNCHANGED rc
  /\ UNCHANGED <<storage, holder, runs, cfg, targets, w, reporting>>

Target == cfg.disks[Len(targets) + 1]

\* mounted_reason: a mount of any device with the same parent disk.
Mounted(d) ==
  \E s \in DOMAIN Devices :
    holder[s] = "mount" /\ Devices[s].disk = Devices[d].disk

\* The part of open_disk before open(2).  seen: /proc/mounts can be read.
CheckDisk(seen) ==
  /\ mpc = "check"
  /\ IF ~Devices[Target].blk \/ (seen /\ Mounted(Target))
     THEN Fail(1) ELSE mpc' = "open" /\ UNCHANGED rc
  /\ UNCHANGED <<storage, holder, runs, cfg, gpus, targets, w, reporting>>

WipeLen(d) ==
  LET size == Devices[d].size
  IN  floor_to(IF cfg.cap > 0 THEN Min({cfg.cap, size}) ELSE size, Super)

\* Mutation of OpenDisk: the open is not exclusive.
MutOpenDisk(ok) ==
  /\ mpc = "open"
  /\ IF ~ok \/ Super % Devices[Target].sector # 0 \/ WipeLen(Target) = 0
     THEN Fail(1) /\ UNCHANGED targets
     ELSE /\ targets' = Append(targets, [dev |-> Target, wipe_len |-> WipeLen(Target)])
          /\ mpc' = IF Len(targets') < Len(cfg.disks) THEN "check"
                    ELSE IF cfg.only THEN "verify" ELSE "plan"
          /\ UNCHANGED rc
  /\ UNCHANGED <<storage, holder, runs, cfg, gpus, w, reporting>>

\* open(2), O_EXCL unless it is only to verify, the size and sector ioctls, and
\* main's checks of what they return.  ok: no other error.
OpenDisk(ok) ==
  /\ mpc = "open"
  /\ IF \/ ~ok \/ (~cfg.only /\ ~CanClaim(Target))
        \/ Super % Devices[Target].sector # 0 \/ WipeLen(Target) = 0
     THEN Fail(1) /\ UNCHANGED targets
     ELSE /\ targets' = Append(targets, [dev |-> Target, wipe_len |-> WipeLen(Target)])
          /\ mpc' = IF Len(targets') < Len(cfg.disks) THEN "check"
                    ELSE IF cfg.only THEN "verify" ELSE "plan"
          /\ UNCHANGED rc
  /\ UNCHANGED <<storage, holder, runs, cfg, gpus, w, reporting>>

----------------------------------------------------------------------------
(* The schedule: T teams of K GPUs, the disks dealt to the teams largest    *)
(* first, each disk cut into K ranges of whole super-chunks.                *)

K == Min({Len(gpus), IF cfg.k > 0 THEN cfg.k
                     ELSE IF cfg.mode = "gpus-per-disk" THEN Len(gpus) ELSE 1})
T == Len(gpus) \div K

\* std::sort on wipe_len leaves equal disks in any order.
LargestFirst(order) ==
  \A i, j \in DOMAIN order :
    i < j => targets[order[i]].wipe_len >= targets[order[j]].wipe_len

Orders ==
  {order \in [DOMAIN targets -> DOMAIN targets] :
     IsInjective(order) /\ LargestFirst(order)}

\* Mutation of RangeLen: the remainder is given to nobody.
MutRangeLen(nsuper, j) == (nsuper \div K) * Super

RangeLen(nsuper, j) ==
  (nsuper \div K + (IF j < nsuper % K THEN 1 ELSE 0)) * Super

\* off, advanced by len in the loop over the GPUs of the team.
RangeOff(nsuper, j) ==
  LET off[i \in Nat] == IF i = 0 THEN 0 ELSE off[i - 1] + RangeLen(nsuper, i - 1)
  IN  off[j]

WorkItem(d, j) ==
  [dev |-> targets[d].dev,
   off |-> RangeOff(targets[d].wipe_len \div Super, j),
   len |-> RangeLen(targets[d].wipe_len \div Super, j)]

\* The elements of a finite set of numbers, smallest first.
Ascending(S) ==
  CHOOSE f \in [1 .. Cardinality(S) -> S] : \A a, b \in DOMAIN f : a < b => f[a] < f[b]

\* GPU j of team t works on its range of the team's disks, in order; an empty
\* range is no item.
WorkItems(order, t, j) ==
  LET mine == Ascending({i \in DOMAIN order : /\ (i - 1) % T = t
                                              /\ WorkItem(order[i], j).len > 0})
  IN  [n \in DOMAIN mine |-> WorkItem(order[mine[n]], j)]

NewWorker(items) ==
  [pc |-> "setup", items |-> items, i |-> 1, window |-> 0, stage |-> 0,
   pos |-> 0, win |-> 0, s |-> 0, done |-> 0, buf |-> <<>>, slice |-> <<>>,
   ok |-> TRUE, synced |-> TRUE]   \* synced: history, no fsync has failed

\* GPU i of the selection is number (i - 1) % K of team (i - 1) \div K.
Workers(order) ==
  [g \in {gpus[i] : i \in 1 .. T * K} |->
     LET i == CHOOSE n \in 1 .. T * K : gpus[n] = g
     IN  NewWorker(WorkItems(order, (i - 1) \div K, (i - 1) % K))]

\* The renderer, without --verbose, and the workers.
StartWorkers ==
  /\ render' = IF cfg.verbose THEN "none" ELSE "live"
  /\ \E order \in Orders : w' = Workers(order)

\* Mutation of Plan: writing needs no --confirm.
MutPlan ==
  /\ mpc = "plan"
  /\ StartWorkers /\ mpc' = "run" /\ UNCHANGED rc
  /\ UNCHANGED <<storage, holder, runs, cfg, gpus, targets, vdisk, vk, mism, sampled>>

Plan ==
  /\ mpc = "plan"
  /\ IF ~cfg.dry /\ ~cfg.confirm
     THEN Fail(1) /\ UNCHANGED <<w, render>>
     ELSE StartWorkers /\ mpc' = "run" /\ UNCHANGED rc
  /\ UNCHANGED <<storage, holder, runs, cfg, gpus, targets, vdisk, vk, mism, sampled>>

----------------------------------------------------------------------------
(* worker: one GPU's items.  h is the worker's new state.                   *)

Goto(g, h) ==
  /\ w' = [w EXCEPT ![g] = h]
  /\ UNCHANGED <<holder, runs, mpc, cfg, rc, gpus, targets, reporting>>

At(g, pc) == mpc = "run" /\ g \in DOMAIN w /\ w[g].pc = pc
Item(g)   == w[g].items[w[g].i]

\* Mutation of WindowSize: a window smaller than a super-chunk is not grown.
MutWindowSize(request, max_item) == floor_to(Min({request, max_item}), Super)

\* Whole super-chunks, at least one, no more than the largest item.
WindowSize(request, max_item) ==
  Max({Super, floor_to(Min({request, max_item}), Super)})

\* Mutation of StageSize: the stage is not cut to whole super-chunks.
MutStageSize(window) == Min({window, Max({Super, cfg.stage})})

StageSize(window) == Min({window, Max({Super, floor_to(cfg.stage, Super)})})

\* cudaSetDevice, the topology and the two buffers; any of them may fail.
WorkerSetup(g, avail, ok) ==
  /\ At(g, "setup")
  /\ LET items  == w[g].items
         window == WindowSize(IF cfg.window > 0 THEN cfg.window ELSE avail,
                              Max({items[i].len : i \in DOMAIN items}))
     IN  CASE ~ok -> Goto(g, [w[g] EXCEPT !.pc = "done", !.ok = FALSE])
           [] ok /\ items = <<>> -> Goto(g, [w[g] EXCEPT !.pc = "done"])
           [] ok /\ items # <<>> ->
                Goto(g, [w[g] EXCEPT !.pc = "item", !.window = window,
                                     !.stage = StageSize(window)])
  /\ UNCHANGED storage

NextItem(g) ==
  /\ At(g, "item")
  /\ Goto(g, IF ~w[g].ok \/ w[g].i > Len(w[g].items)
             THEN [w[g] EXCEPT !.pc = "done", !.buf = <<>>, !.slice = <<>>]
             ELSE [w[g] EXCEPT !.pc = "label", !.pos = 0])
  /\ UNCHANGED storage

\* Mutation of RegionBlockOffset: positions count from the start of the item.
MutRegionBlockOffset(g) == w[g].pos

RegionBlockOffset(g) == Item(g).off + w[g].pos

\* What the labeller leaves in unit u of the window: super-chunk j of it gets
\* chunk index (rbo + j * chunk_blocks) / chunk_blocks.
Labelled(rbo, u) ==
  <<cfg.seed, ((rbo + floor_to(u, Super)) \div Super) * Super + (u % Super)>>

\* Mutation of AfterWindows: only the last item is flushed.
MutAfterWindows(h) ==
  IF h.ok /\ ~cfg.dry /\ h.i = Len(h.items)
  THEN [h EXCEPT !.pc = "flush"] ELSE [h EXCEPT !.pc = "item", !.i = @ + 1]

\* Every item that was written is flushed.
AfterWindows(h) ==
  IF h.ok /\ ~cfg.dry THEN [h EXCEPT !.pc = "flush"] ELSE [h EXCEPT !.pc = "item", !.i = @ + 1]

\* The loop over windows goes on after a failed slice, labelling to no purpose;
\* a failed labelling ends the item.
LabelWindow(g, ok) ==
  /\ At(g, "label")
  /\ LET win == floor_to(Min({w[g].window, Item(g).len - w[g].pos}), Super)
         rbo == RegionBlockOffset(g)
     IN  Goto(g, IF win = 0 THEN AfterWindows(w[g])
                 ELSE IF ok
                 THEN [w[g] EXCEPT !.pc = "slice", !.win = win, !.s = 0,
                                   !.buf = [u \in 0 .. win - 1 |-> Labelled(rbo, u)]]
                 ELSE [w[g] EXCEPT !.pc = "item", !.i = @ + 1, !.ok = FALSE])
  /\ UNCHANGED storage

\* One slice of the window to the host, or the end of the loop over slices.
CopySlice(g, ok) ==
  /\ At(g, "slice")
  /\ LET h   == w[g]
         len == Min({h.stage, h.win - h.s})
     IN  Goto(g, IF h.s >= h.win \/ ~h.ok
                 THEN [h EXCEPT !.pc = "label", !.pos = @ + h.win]
                 ELSE IF ~ok THEN [h EXCEPT !.ok = FALSE]
                 ELSE IF cfg.dry THEN [h EXCEPT !.s = @ + h.stage]
                 ELSE [h EXCEPT !.pc = "write", !.done = 0,
                                !.slice = [u \in 0 .. len - 1 |-> h.buf[h.s + u]]])
  /\ UNCHANGED storage

Written(g, n) ==
  LET h   == w[g]
      dev == Item(g).dev
      at  == Item(g).off + h.pos + h.s + h.done
  IN  /\ disk' = [disk EXCEPT ![dev] =
                    [u \in DOMAIN @ |-> IF u \in at .. at + n - 1
                                        THEN h.slice[h.done + u - at] ELSE @[u]]]
      /\ medium' = IF dev \in Volatile THEN medium ELSE [medium EXCEPT ![dev] = disk'[dev]]

\* Mutation of WriteSome: the loop over slices does not advance.
MutWriteSome(g, n) ==
  /\ At(g, "write") /\ w[g].done + n <= Cardinality(DOMAIN w[g].slice)
  /\ Written(g, n)
  /\ LET len == Cardinality(DOMAIN w[g].slice)
     IN  Goto(g, IF w[g].done + n < len THEN [w[g] EXCEPT !.done = @ + n]
                 ELSE [w[g] EXCEPT !.pc = "slice"])

\* pwrite takes n units, maybe fewer than it was given; EINTR changes nothing.
WriteSome(g, n) ==
  /\ At(g, "write") /\ w[g].done + n <= Cardinality(DOMAIN w[g].slice)
  /\ Written(g, n)
  /\ LET len == Cardinality(DOMAIN w[g].slice)
     IN  Goto(g, IF w[g].done + n < len THEN [w[g] EXCEPT !.done = @ + n]
                 ELSE [w[g] EXCEPT !.pc = "slice", !.s = @ + w[g].stage])

\* pwrite fails or writes nothing, maybe in the middle of the slice.
WriteFails(g) ==
  /\ At(g, "write")
  /\ Goto(g, [w[g] EXCEPT !.pc = "slice", !.ok = FALSE])
  /\ UNCHANGED storage

\* fsync, whose result nobody looks at.
Flush(g, ok) ==
  /\ At(g, "flush")
  /\ Goto(g, [w[g] EXCEPT !.pc = "item", !.i = @ + 1, !.synced = @ /\ ok])
  /\ medium' = IF ok THEN [medium EXCEPT ![Item(g).dev] = disk[Item(g).dev]] ELSE medium
  /\ UNCHANGED disk

----------------------------------------------------------------------------
(* main, after the workers.                                                 *)

\* All workers have ended: g_render_stop is set.
JoinWorkers ==
  /\ mpc = "run" /\ \A g \in DOMAIN w : w[g].pc = "done"
  /\ mpc' = "join"
  /\ UNCHANGED <<storage, holder, runs, cfg, rc, gpus, targets, w, reporting>>

\* The renderer, which has drawn frames until now, draws the last one.
FinalFrame ==
  /\ mpc = "join" /\ render = "live"
  /\ render' = "gone"
  /\ UNCHANGED <<storage, holder, runs, mpc, cfg, rc, gpus, targets, w, vdisk, vk, mism, sampled>>

\* The renderer is joined; the report and the exit code.
Report ==
  /\ mpc = "join" /\ render # "live"
  /\ rc' = IF \A g \in DOMAIN w : w[g].ok THEN 0 ELSE 1
  /\ mpc' = IF cfg.verify_n > 0 /\ ~cfg.dry THEN "verify" ELSE "exit"
  /\ UNCHANGED <<storage, holder, runs, cfg, gpus, targets, w, reporting>>

NSuper   == targets[vdisk].wipe_len \div Super
Samples  == Min({cfg.verify_n, NSuper})

\* Mutation of SampleIndex: the spacing is that of one sample more.
MutSampleIndex(k) == (k * (NSuper - 1)) \div Samples

SampleIndex(k) == IF Samples = 1 THEN 0 ELSE (k * (NSuper - 1)) \div (Samples - 1)

\* pread of a sample and its comparison with the labels made on the CPU.
VerifySample ==
  /\ mpc = "verify" /\ vdisk <= Len(targets) /\ vk < Samples
  /\ LET J     == SampleIndex(vk)
         units == J * Super .. J * Super + Super - 1
     IN  /\ sampled' = sampled \cup {<<vdisk, J>>}
         /\ mism' = IF \A u \in units : disk[targets[vdisk].dev][u] = <<cfg.seed, u>>
                    THEN mism ELSE mism + 1
  /\ vk' = vk + 1
  /\ UNCHANGED <<storage, holder, runs, mpc, cfg, rc, gpus, targets, w, render, vdisk>>

\* The next disk; a mismatch, or an error on the way, fails the run.
VerifyNext(err) ==
  /\ mpc = "verify" /\ vdisk <= Len(targets)
  /\ err \/ vk = Samples
  /\ rc' = IF err \/ mism > 0 THEN 1 ELSE rc
  /\ vdisk' = vdisk + 1 /\ vk' = 0 /\ mism' = 0
  /\ UNCHANGED <<storage, holder, runs, mpc, cfg, gpus, targets, w, render, sampled>>

VerifyDone ==
  /\ mpc = "verify" /\ vdisk > Len(targets)
  /\ mpc' = "exit"
  /\ UNCHANGED <<storage, holder, runs, cfg, rc, gpus, targets, w, reporting>>

Gone ==
  /\ mpc' = "off" /\ cfg' = NoCfg /\ rc' = 0
  /\ gpus' = <<>> /\ targets' = <<>> /\ w' = <<>>
  /\ render' = "none" /\ vdisk' = 1 /\ vk' = 0 /\ mism' = 0 /\ sampled' = {}
  /\ UNCHANGED <<holder, runs>>

Exit  == mpc = "exit" /\ Gone /\ UNCHANGED storage
Crash == mpc # "off" /\ Gone /\ UNCHANGED storage

\* The units only a write cache holds.
Unsaved ==
  UNION {{<<d, u>> : u \in {v \in DOMAIN disk[d] : disk[d][v] # medium[d][v]}} : d \in Volatile}

\* The power fails, at any time: any of the unsaved units may be lost.
PowerLoss ==
  /\ Unsaved # {}
  /\ \E lost \in SUBSET Unsaved :
       disk' = [d \in DOMAIN disk |->
                  [u \in DOMAIN disk[d] |->
                     IF <<d, u>> \in lost THEN medium[d][u] ELSE disk[d][u]]]
  /\ medium' = disk'
  /\ Gone

MainStep ==
  \/ \E ndev \in 0 .. MaxDevs : Inventory(ndev)
  \/ \E b \in BOOLEAN : CheckDisk(b) \/ OpenDisk(b) \/ VerifyNext(b)
  \/ Plan \/ JoinWorkers \/ Report \/ VerifySample \/ VerifyDone \/ Exit

WorkerStep(g) ==
  \/ \E ok \in BOOLEAN : \/ \E avail \in 0 .. MaxAvail : WorkerSetup(g, avail, ok)
                         \/ LabelWindow(g, ok) \/ CopySlice(g, ok) \/ Flush(g, ok)
  \/ NextItem(g) \/ WriteFails(g)
  \/ At(g, "write") /\ \E n \in 1 .. w[g].stage : WriteSome(g, n)

Next ==
  \/ \E c \in Configs : BeginRun(c)
  \/ MainStep \/ FinalFrame \/ Crash \/ PowerLoss
  \/ \E g \in 0 .. MaxDevs - 1 : WorkerStep(g)
  \/ \E d \in Mountable : Release(d) \/ \E h \in {"mount", "other"} : Hold(d, h)

Spec == Init /\ [][Next]_vars

\* main, the renderer and the worker threads keep running, and CUDA, pwrite and
\* fsync calls return.
FairSpec ==
  Spec /\ WF_vars(MainStep) /\ WF_vars(FinalFrame)
       /\ \A g \in 0 .. MaxDevs - 1 : WF_vars(WorkerStep(g))

----------------------------------------------------------------------------
(* Properties.                                                              *)

Targets == {targets[i].dev : i \in DOMAIN targets}

\* The variables have their types, and every position a worker hands to
\* pwrite_all starts on a super-chunk, as O_DIRECT needs.
TypeOK ==
  /\ mpc \in {"off", "gpus", "check", "open", "plan", "run", "join", "verify", "exit"}
  /\ holder \in [DOMAIN Devices -> InUse]
  /\ rc \in 0 .. 2 /\ runs \in 0 .. MaxRuns
  /\ \A g \in DOMAIN w :
       /\ w[g].pos % Super = 0 /\ w[g].s % Super = 0
       /\ w[g].pc = "write" => w[g].done < Cardinality(DOMAIN w[g].slice)

\* While the workers run their items partition the super-chunks of every target:
\* none is given to two GPUs, none to nobody, whatever K, T and the remainder.
RangesPartition ==
  mpc = "run" =>
    \A i \in DOMAIN targets :
      LET items == {<<g, k>> : g \in DOMAIN w, k \in 1 .. Len(targets)}
          Of(x) == IF x[2] \in DOMAIN w[x[1]].items
                      /\ w[x[1]].items[x[2]].dev = targets[i].dev
                   THEN {w[x[1]].items[x[2]]} ELSE {}
      IN  \A u \in 0 .. Devices[targets[i].dev].size - 1 :
            Cardinality({x \in items : \E it \in Of(x) :
                           u \in it.off .. it.off + it.len - 1})
              = (IF u < targets[i].wipe_len THEN 1 ELSE 0)

\* Whatever was killed, failed or cut short, a unit of a disk is what it was or
\* the label of its own absolute position, and the tail is never written.
LabelsInPlace ==
  \A d \in DOMAIN Devices : \A u \in DOMAIN disk[d] :
    \/ disk[d][u] = Old
    \/ disk[d][u][2] = u /\ u < floor_to(Devices[d].size, Super)

\* Exit code 0 of a run that writes: every super-chunk of every target holds the
\* labels of this run's seed, no matter what earlier runs left.
ExitZeroMeansWiped ==
  mpc = "exit" /\ rc = 0 /\ ~cfg.only /\ ~cfg.dry =>
    \A i \in DOMAIN targets : \A u \in 0 .. targets[i].wipe_len - 1 :
      disk[targets[i].dev][u] = <<cfg.seed, u>>

\* Exit code 0 of a run that writes, and no fsync that failed unnoticed: the labels
\* are also on the media, safe from a power failure, whichever GPU wrote and
\* flushed which part of a disk, and when.
ExitZeroMeansDurable ==
  mpc = "exit" /\ rc = 0 /\ ~cfg.only /\ ~cfg.dry /\ (\A g \in DOMAIN w : w[g].synced) =>
    \A i \in DOMAIN targets : \A u \in 0 .. targets[i].wipe_len - 1 :
      medium[targets[i].dev][u] = <<cfg.seed, u>>

\* VERIFY OK after at least as many samples as super-chunks means the disks are
\* labelled completely: the samples are all different.
VerifyOkMeansWiped ==
  mpc = "exit" /\ rc = 0 /\ cfg.only =>
    \A i \in DOMAIN targets :
      cfg.verify_n * Super >= targets[i].wipe_len =>
        \A u \in 0 .. targets[i].wipe_len - 1 :
          disk[targets[i].dev][u] = <<cfg.seed, u>>

\* From the check until the descriptors are closed nobody else uses a target of a
\* wipe, its parent disk or a partition of it, and no two targets overlap, also
\* when a mount arrives between the look at /proc/mounts and the open.
Exclusive ==
  ~cfg.only =>
    /\ \A d \in Targets, o \in DOMAIN Devices :
         holder[o] # "no" => ~Overlaps(d, o)
    /\ \A i, j \in DOMAIN targets :
         i # j => ~Overlaps(targets[i].dev, targets[j].dev)

\* A disk gets new contents only when every target of the command line was opened
\* and validated, writing was confirmed and it is no rehearsal; otherwise it can
\* only fall back to what its medium holds.
ValidatedBeforeWrite ==
  [][(\E d \in DOMAIN disk : \E u \in DOMAIN disk[d] :
        disk'[d][u] \notin {disk[d][u], medium[d][u]}) =>
       /\ Len(targets) = Len(cfg.disks)
       /\ cfg.confirm /\ ~cfg.dry /\ ~cfg.only]_vars

\* Every run ends: the workers finish, also after an error in the middle.
RunEnds == (mpc # "off") ~> (mpc = "off")

\* disk_wipe_bench.cu, on verify_disk: the samples are "spread across the wiped
\* range (always the first and last)".
FirstAndLastSampled ==
  mpc = "verify" /\ vdisk <= Len(targets) /\ vk = Samples =>
    {<<vdisk, 0>>, <<vdisk, NSuper - 1>>} \subseteq sampled
============================================================================
