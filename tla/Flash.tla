-------------------------------- MODULE Flash --------------------------------
(***************************************************************************)
(* Firmware updates: the job queue and flash_worker of LXAIOBusServer      *)
(* (lxa_iobus/server/server.py), the boot loader protocol of CanIsp        *)
(* (lxa_iobus/lpc11xxcanisp/can_isp.py), and LxaBaseNode.invoke_isp.       *)
(*                                                                         *)
(* A step is an SDO write of the worker, which module SdoClient describes, *)
(* together with those before it that only prepare it and fail as it does: *)
(* the addresses that write_to_ram, copy_ram_to_flash and go send first,   *)
(* and the unlock of isp_exec.                                             *)
(*                                                                         *)
(* That a device which runs its firmware gets the lowest free node id, and *)
(* loses its place in the list when nobody answers to the id, is taken     *)
(* from module Network (Join, Drop).                                       *)
(*                                                                         *)
(* The devices are external: their boot loader answers to one fixed id,    *)
(* so a request reaches every device that is in its boot loader, and the   *)
(* first reply counts.                                                     *)
(***************************************************************************)
EXTENDS Integers, Sequences

CONSTANTS
    Nodes,      \* the devices
    NoNode,     \* stands for an id that is not listed
    MaxId,      \* node ids of devices that run their firmware
    Sectors,    \* flash sectors of a device (8), the last one for its config
    Blocks,     \* Blocks[n]: 4 KiB blocks of the firmware bundled for n
    Bootable,   \* devices whose firmware has the boot loader object
    MaxJobs,    \* bound: updates asked for
    MaxRepeats, \* bound: updates asked for before the device is back
    MaxLosses,  \* bound: lost messages
    MaxCycles,  \* bound: power cycles
    MaxFaults   \* bound: the last three together

(* Images are those that write accepts: one that reaches into the last     *)
(* sector makes it end the process, can_isp.py:405-417.                    *)
ASSUME FlashAssumption ==
    /\ NoNode \notin Nodes /\ Bootable \subseteq Nodes
    /\ Nodes \cap {"nothing", "factory", "loader", "garbage"} = {}
    /\ MaxId \in Nat \ {0} /\ Sectors \in Nat \ {0, 1}
    /\ Blocks \in [Nodes -> 1..(Sectors - 1)]
    /\ MaxJobs \in Nat /\ MaxFaults \in Nat /\ MaxRepeats \in Nat
    /\ MaxLosses \in Nat /\ MaxCycles \in Nat

Ids == 1..MaxId
Sector == 0..(Sectors - 1)
ConfigSector == Sectors - 1

VARIABLES
    list,     \* LxaNetwork.nodes: the listed device of each node id
    jobs,     \* LXAIOBusServer.flash_jobs
    job,      \* the job in the hands of flash_worker
    step,     \* the step it makes next, or "idle"
    block,    \* block_num of flash_image
    result,   \* how its last job ended
    mode,     \* mode[n]: what device n runs
    devId,    \* devId[n]: the node id device n answers to, or 0
    boot,     \* boot[n]: state of its boot loader
    flash,    \* flash[n]: contents of its sectors
    asked, repeats, losses, cycles

worker  == <<jobs, job, step, block, result>>
devices == <<mode, devId, boot, flash>>
bounds  == <<asked, repeats, losses, cycles>>
vars    == <<list, worker, devices, bounds>>

MayRepeat == repeats < MaxRepeats /\ repeats + losses + cycles < MaxFaults
MayLose   == losses < MaxLosses /\ repeats + losses + cycles < MaxFaults
MayCycle  == cycles < MaxCycles /\ repeats + losses + cycles < MaxFaults

-----------------------------------------------------------------------------
(* Contents of a sector or of the RAM: block nr of the firmware for a      *)
(* device, what was there at first, the loader/reset.bin program, or       *)
(* whatever writing to a sector that is not erased gives.                  *)
Content == [of: Nodes \cup {"nothing", "factory", "loader", "garbage"},
            nr: Sector]
Nothing == [of |-> "nothing", nr |-> 0]
Factory == [of |-> "factory", nr |-> 0]
Garbage == [of |-> "garbage", nr |-> 0]
Loader  == [of |-> "loader", nr |-> 0]
Image(n, b) == [of |-> n, nr |-> b]

Boot == [unlocked: BOOLEAN, prepared: SUBSET Sector, ram: Content]
NewBoot == [unlocked |-> FALSE, prepared |-> {}, ram |-> Nothing]

Job == [node: Nodes, id: Ids]
NoJob == [node |-> NoNode, id |-> 0]

Init ==
    /\ list = [i \in Ids |-> NoNode]
    /\ jobs = <<>> /\ job = NoJob
    /\ step = "idle" /\ block = 0 /\ result = "none"
    /\ mode = [n \in Nodes |-> "firmware"]
    /\ devId = [n \in Nodes |-> 0]
    /\ boot = [n \in Nodes |-> NewBoot]
    /\ flash = [n \in Nodes |-> [s \in Sector |-> Factory]]
    /\ asked = 0 /\ repeats = 0 /\ losses = 0 /\ cycles = 0

Hearing(i) == {n \in Nodes : mode[n] = "firmware" /\ devId[n] = i}
InBootLoader == {n \in Nodes : mode[n] = "bootloader"}

-----------------------------------------------------------------------------
(* The REST handler and the worker's queue.                                *)

Under(n) == job.node = n \/ \E k \in DOMAIN jobs : jobs[k].node = n

(* The job keeps the node object, with the id that the node has now.  A    *)
(* patient user does not ask while an update of the node is under way, nor *)
(* until the node is back in the list.                                     *)
FirmwareUpdate(n, i) ==
    /\ list[i] = n
    /\ asked < MaxJobs /\ asked' = asked + 1
    /\ \/ ~Under(n) /\ devId[n] = i /\ UNCHANGED repeats
       \/ /\ Under(n) \/ devId[n] # i
          /\ MayRepeat /\ repeats' = repeats + 1
    /\ jobs' = Append(jobs, [node |-> n, id |-> i])
    /\ UNCHANGED <<list, job, step, block, result, devices, losses, cycles>>

TakeJob ==
    /\ step = "idle" /\ jobs # <<>>
    /\ job' = Head(jobs) /\ jobs' = Tail(jobs)
    /\ step' = "invoke" /\ block' = 0 /\ result' = "none"
    /\ UNCHANGED <<list, devices, bounds>>

(* Mutant: the exception of a step is not caught.                          *)
FailForGood ==
    /\ step' = "ended" /\ result' = "failed"
    /\ UNCHANGED <<job, block>>

(* Any exception is logged, and the worker takes the next job.             *)
Fail ==
    /\ step' = "idle" /\ result' = "failed"
    /\ job' = NoJob /\ UNCHANGED block

GoOn(there) == step' = there /\ UNCHANGED <<job, block, result>>

(* invoke_isp: no reply is expected, so the worker goes on as well when    *)
(* the write timed out because it did not reach the device.                *)
Enter(ns) ==
    /\ mode' = [n \in Nodes |-> IF n \in ns THEN "bootloader" ELSE mode[n]]
    /\ devId' = [n \in Nodes |-> IF n \in ns THEN 0 ELSE devId[n]]
    /\ boot' = [n \in Nodes |-> IF n \in ns THEN NewBoot ELSE boot[n]]

InvokeIsp ==
    /\ step = "invoke" /\ job.node \in Bootable
    /\ Hearing(job.id) \subseteq Bootable
    /\ GoOn("unlock")
    /\ \/ Enter(Hearing(job.id)) /\ UNCHANGED losses
       \/ /\ MayLose /\ losses' = losses + 1
          /\ UNCHANGED <<mode, devId, boot>>
    /\ UNCHANGED <<list, jobs, flash, asked, repeats, cycles>>

(* The node has no boot loader object, or the device that has its id now   *)
(* refuses the write.                                                      *)
InvokeFails ==
    /\ step = "invoke"
    /\ job.node \notin Bootable \/ ~(Hearing(job.id) \subseteq Bootable)
    /\ Fail
    /\ UNCHANGED <<list, jobs, devices, bounds>>

-----------------------------------------------------------------------------
(* CanIsp.  Of the devices in the boot loader the takers do what they are  *)
(* asked, the others refuse; the request is answered (ok), refused, or     *)
(* times out.                                                              *)

Take(takers, newBoot, newFlash) ==
    /\ boot' = [n \in Nodes |-> IF n \in takers THEN newBoot[n] ELSE boot[n]]
    /\ flash' = [n \in Nodes |->
                    IF n \in takers THEN newFlash[n] ELSE flash[n]]

Write(takers, newBoot, newFlash, ok) ==
    \/ /\ Take(takers, newBoot, newFlash) /\ UNCHANGED losses
       /\ IF ok THEN takers # {} ELSE takers = {} \/ InBootLoader # takers
    \/ /\ ~ok /\ MayLose /\ losses' = losses + 1
       /\ Take(takers, newBoot, newFlash) \/ UNCHANGED <<boot, flash>>

IspStep(here, takers, newBoot, newFlash, go) ==
    /\ step = here
    /\ \/ Write(takers, newBoot, newFlash, TRUE) /\ go
       \/ Write(takers, newBoot, newFlash, FALSE) /\ Fail
    /\ UNCHANGED <<list, jobs, mode, devId, asked, repeats, cycles>>

Unlock ==
    IspStep("unlock", InBootLoader,
            [n \in Nodes |-> [boot[n] EXCEPT !.unlocked = TRUE]], flash,
            GoOn("prepare"))

(* Mutant: one sector too many.                                            *)
ImageSectorsAndOneMore == 0..Blocks[job.node]

(* The sectors of the image: it starts at sector 0 and is padded to whole  *)
(* blocks.                                                                 *)
ImageSectors == 0..(Blocks[job.node] - 1)

PrepareSectors ==
    IspStep("prepare", InBootLoader,
            [n \in Nodes |-> [boot[n] EXCEPT !.prepared = ImageSectors]],
            flash, GoOn("erase"))

(* Sectors are protected again once they are erased or written.            *)
Ready(sectors) ==
    {n \in InBootLoader :
        boot[n].unlocked /\ sectors \subseteq boot[n].prepared}

(* Mutant: the sectors are not erased.                                     *)
EraseNothing ==
    /\ step = "erase" /\ GoOn("ram")
    /\ UNCHANGED <<list, jobs, devices, bounds>>

EraseSectors ==
    IspStep("erase", Ready(ImageSectors),
            [n \in Nodes |-> [boot[n] EXCEPT !.prepared = {}]],
            [n \in Nodes |->
                [s \in Sector |->
                    IF s \in ImageSectors THEN Nothing ELSE flash[n][s]]],
            GoOn("ram"))

WriteToRam ==
    IspStep("ram", InBootLoader,
            [n \in Nodes |-> [boot[n] EXCEPT !.ram = Image(job.node, block)]],
            flash, GoOn("select"))

PrepareBlock ==
    IspStep("select", InBootLoader,
            [n \in Nodes |-> [boot[n] EXCEPT !.prepared = {block}]],
            flash, GoOn("copy"))

(* Mutant: the loop runs once too often.                                   *)
NextBlockToo ==
    IF block + 1 <= Blocks[job.node]
       THEN step' = "ram" /\ block' = block + 1 /\ UNCHANGED <<job, result>>
       ELSE GoOn("loader")

(* Mutant: the loop leaves out the last block.                             *)
NextBlockEarly ==
    IF block + 2 < Blocks[job.node]
       THEN step' = "ram" /\ block' = block + 1 /\ UNCHANGED <<job, result>>
       ELSE GoOn("loader")

NextBlock ==
    IF block + 1 < Blocks[job.node]
       THEN step' = "ram" /\ block' = block + 1 /\ UNCHANGED <<job, result>>
       ELSE GoOn("loader")

CopyRamToFlash ==
    IspStep("copy", Ready({block}),
            [n \in Nodes |-> [boot[n] EXCEPT !.prepared = {}]],
            [n \in Nodes |->
                [flash[n] EXCEPT ![block] =
                    IF @ = Nothing THEN boot[n].ram ELSE Garbage]],
            NextBlock)

(* CanIsp.reset: load a program that resets the device, and start it.      *)
WriteLoader ==
    IspStep("loader", InBootLoader,
            [n \in Nodes |-> [boot[n] EXCEPT !.unlocked = TRUE,
                                             !.ram = Loader]],
            flash, GoOn("go"))

(* A device starts its firmware if the first sector looks valid, and runs  *)
(* it if all of it is there.                                               *)
Started(n) ==
    LET first == flash[n][0].of IN
    IF first \in {"nothing", "garbage"} THEN "bootloader"
    ELSE IF first = "factory" THEN "firmware"
    ELSE IF \A b \in 0..(Blocks[first] - 1) : flash[n][b] = Image(first, b)
    THEN "firmware" ELSE "crashed"

Restart(ns) ==
    /\ mode' = [n \in Nodes |-> IF n \in ns THEN Started(n) ELSE mode[n]]
    /\ devId' = [n \in Nodes |-> IF n \in ns THEN 0 ELSE devId[n]]
    /\ boot' = [n \in Nodes |-> IF n \in ns THEN NewBoot ELSE boot[n]]

Runnable == {n \in InBootLoader : boot[n].unlocked /\ boot[n].ram = Loader}

Done ==
    /\ step' = "idle" /\ result' = "done"
    /\ job' = NoJob /\ UNCHANGED block

(* Mutant: the device is left in its boot loader.                          *)
NoReset ==
    /\ step = "go" /\ Done
    /\ UNCHANGED <<list, jobs, devices, bounds>>

Go ==
    /\ step = "go"
    /\ \/ Restart(Runnable) /\ Runnable # {} /\ Done /\ UNCHANGED losses
       \/ /\ Restart(Runnable) /\ InBootLoader # Runnable
          /\ Fail /\ UNCHANGED losses
       \/ /\ Runnable = {} /\ UNCHANGED <<mode, devId, boot>>
          /\ Fail /\ UNCHANGED losses
       \/ /\ MayLose /\ losses' = losses + 1 /\ Fail
          /\ Restart(Runnable) \/ UNCHANGED <<mode, devId, boot>>
    /\ UNCHANGED <<list, jobs, flash, asked, repeats, cycles>>

-----------------------------------------------------------------------------
(* The devices and the list.                                               *)

Join(n) ==
    LET free == {i \in Ids : list[i] = NoNode} IN
    /\ mode[n] = "firmware" /\ devId[n] = 0
    /\ \E i \in free :
          /\ \A j \in free : i <= j
          /\ devId' = [devId EXCEPT ![n] = i]
          /\ list' = [list EXCEPT ![i] = n]
    /\ UNCHANGED <<worker, mode, boot, flash, bounds>>

Drop(i) ==
    /\ list[i] # NoNode /\ Hearing(i) = {}
    /\ list' = [list EXCEPT ![i] = NoNode]
    /\ UNCHANGED <<worker, devices, bounds>>

PowerCycle(n) ==
    /\ MayCycle /\ cycles' = cycles + 1
    /\ Restart({n})
    /\ UNCHANGED <<list, worker, flash, asked, repeats, losses>>

Worker ==
    \/ TakeJob \/ InvokeIsp \/ InvokeFails
    \/ Unlock \/ PrepareSectors \/ EraseSectors
    \/ WriteToRam \/ PrepareBlock \/ CopyRamToFlash
    \/ WriteLoader \/ Go

Scan == \E n \in Nodes : Join(n)
Ping == \E i \in Ids : Drop(i)

Next ==
    \/ Worker \/ Scan \/ Ping
    \/ \E n \in Nodes : PowerCycle(n) \/ \E i \in Ids : FirmwareUpdate(n, i)

Spec == Init /\ [][Next]_vars

(* Every await of the worker ends, and the scan and the pings go on.       *)
FairSpec ==
    /\ Spec
    /\ WF_vars(Worker) /\ WF_vars(Scan) /\ WF_vars(Ping)

-----------------------------------------------------------------------------
TypeOK ==
    /\ list \in [Ids -> Nodes \cup {NoNode}]
    /\ jobs \in Seq(Job) /\ job \in Job \cup {NoJob}
    /\ step \in {"idle", "invoke", "unlock", "prepare", "erase", "ram",
                 "select", "copy", "loader", "go"}
    /\ step # "idle" => job \in Job
    /\ block \in Sector \ {ConfigSector}
    /\ result \in {"none", "done", "failed"}
    /\ mode \in [Nodes -> {"firmware", "bootloader", "crashed"}]
    /\ devId \in [Nodes -> {0} \cup Ids]
    /\ boot \in [Nodes -> Boot]
    /\ flash \in [Nodes -> [Sector -> Content]]
    /\ asked \in Nat /\ repeats \in Nat
    /\ losses \in Nat /\ cycles \in Nat

(* The configuration sector of a device survives every update, whatever    *)
(* goes wrong (write and flash_image, can_isp.py:309-427).                 *)
ConfigSurvives == \A n \in Nodes : flash[n][ConfigSector] = Factory

(* No block is ever written to a sector that was not erased before, nor to *)
(* the place of another block, even when a device takes part in the job of *)
(* another one (flash_image, can_isp.py:346-373).                          *)
BlocksInPlace ==
    \A n \in Nodes, s \in Sector :
        \/ flash[n][s] \in {Factory, Nothing}
        \/ flash[n][s].of \in Nodes /\ flash[n][s].nr = s

(* Nothing is lost, no power fails, and users wait for a device to return. *)
Undisturbed == repeats = 0 /\ losses = 0 /\ cycles = 0

(* An update that nothing disturbs changes the flash of no other device    *)
(* than the one it was asked for (flash_worker, server.py:161-191).        *)
OnlyTargetWritten ==
    [][Undisturbed =>
          \A n \in Nodes : flash'[n] # flash[n] => job.node = n]_vars

(* The button at the top of the page of a node updates that node           *)
(* (doc/source/upgrade.rst:48-50; firmware_update, server.py:750-781).     *)
ButtonUpdatesItsNode ==
    [][\A n \in Nodes : flash'[n] # flash[n] => job.node = n]_vars

(* An update that ends with "Flashing done" has put the whole image into   *)
(* the device, if nothing disturbs it (flash_worker, server.py:161-185).   *)
DoneMeansFlashed ==
    [][Undisturbed /\ result # "done" /\ result' = "done" =>
          \A b \in ImageSectors : flash'[job.node][b] = Image(job.node, b)]_vars

(* A device that entered its boot loader for an update that nothing        *)
(* disturbs runs a firmware again and gets back to the list.               *)
UpdatedComesBack ==
    \A n \in Nodes :
        mode[n] = "bootloader"
          ~> \/ \E i \in Ids : list[i] = n /\ devId[n] = i
             \/ ~Undisturbed

(* Every update that was asked for ends, whatever fails in it or in those  *)
(* before it (flash_worker, server.py:161-191).                            *)
JobsEnd == jobs # <<>> ~> jobs = <<>> /\ step = "idle"

=============================================================================
