--------------------------- MODULE FlashUpdateProofs ---------------------------
(***************************************************************************)
(* Proofs about what an update in module Flash does to the devices, for    *)
(* any devices, firmware sizes, losses and power cycles: blocks only reach *)
(* erased sectors and their own place, an update that nothing disturbs     *)
(* writes to no other device, and "Flashing done" means flashed.           *)
(***************************************************************************)
EXTENDS FlashProofs, SequenceTheorems

Copying == {"ram", "select", "copy"}
Working == {"unlock", "prepare", "erase", "loader", "go"} \cup Copying

(* The sectors of the image that block_num has not reached are erased.     *)
Untouched(n) ==
    \A s \in Sector : block <= s /\ s < Blocks[job.node] => flash[n][s] = Nothing

(* Whoever is unlocked has followed the job: a device that joins later or  *)
(* is restarted is locked until the next "unlock".                         *)
Follows(n) ==
    /\ step = "erase" => boot[n].prepared = ImageSectors
    /\ step \in Copying => Untouched(n)
    /\ step \in {"select", "copy"} => boot[n].ram = Image(job.node, block)

InStepWithJob ==
    /\ \A n \in InBootLoader : boot[n].unlocked => Follows(n)
    /\ step \in {"invoke", "unlock", "prepare", "erase"} => block = 0
    /\ step \in Working => block < Blocks[job.node]

PInv == FInv /\ BlocksInPlace /\ InStepWithJob

(* The device of the job is the only one in its boot loader, and an id     *)
(* that a device answers to is the one it is listed under.                 *)
Alone ==
    /\ \A n \in Nodes :
          mode[n] = IF n = job.node /\ step \in Working THEN "bootloader"
                                                        ELSE "firmware"
    /\ \A n \in InBootLoader : devId[n] = 0
    /\ \A n \in Nodes : devId[n] # 0 => list[devId[n]] = n

(* Every job waits for a device of its own that answers to the job's id.   *)
Queued ==
    /\ step = "idle" => job = NoJob
    /\ step = "invoke" => devId[job.node] = job.id
    /\ \A k \in DOMAIN jobs :
          devId[jobs[k].node] = jobs[k].id /\ jobs[k].node # job.node
    /\ \A k, l \in DOMAIN jobs : k # l => jobs[k].node # jobs[l].node

(* How far the device of the job is.                                       *)
Progress ==
    LET n == job.node IN
    step \in Working =>
        /\ step # "unlock" => boot[n].unlocked
        /\ step = "erase" => boot[n].prepared = ImageSectors
        /\ step = "copy" => boot[n].prepared = {block}
        /\ step = "go" => boot[n].ram = Loader
        /\ step \in Copying => \A b \in Sector : b < block => flash[n][b] = Image(n, b)
        /\ step \in {"loader", "go"} => \A b \in ImageSectors : flash[n][b] = Image(n, b)

UInv == PInv /\ (Undisturbed => Alone /\ Queued /\ Progress)

-----------------------------------------------------------------------------
(* Where the blocks go, whatever is lost or switched off.                  *)

LEMMA Contents ==
    /\ \A n \in Nodes, b \in Sector :
          /\ Image(n, b).of = n /\ Image(n, b).nr = b
          /\ Image(n, b) \notin {Nothing, Factory, Garbage}
    /\ Factory.of \notin Nodes /\ Nothing.of \notin Nodes
    /\ ~NewBoot.unlocked
  BY FlashAssumption DEF Image, Nothing, Factory, Garbage, NewBoot

LEMMA JobNode ==
    ASSUME FInv, step # "idle"
    PROVE  /\ job \in Job /\ job.node \in Nodes /\ job.id \in Ids
           /\ Blocks[job.node] \in Nat /\ Blocks[job.node] > 0
           /\ Blocks[job.node] <= Sectors - 1
           /\ block \in Nat /\ block \in Sector
  BY FlashAssumption DEF FInv, TypeOK, Job, Sector, ConfigSector

(* A step of the boot loader protocol either goes on or fails.             *)
LEMMA IspOutcome ==
    ASSUME NEW here, NEW takers, NEW newBoot, NEW newFlash, NEW go,
           IspStep(here, takers, newBoot, newFlash, go)
    PROVE  /\ step = here /\ UNCHANGED <<list, jobs, mode, devId>>
           /\ InBootLoader' = InBootLoader
           /\ \/ go /\ Take(takers, newBoot, newFlash)
              \/ Fail /\ Take(takers, newBoot, newFlash)
              \/ Fail /\ UNCHANGED <<boot, flash>>
  <1>1. \/ go /\ Take(takers, newBoot, newFlash)
        \/ Fail /\ Take(takers, newBoot, newFlash)
        \/ Fail /\ UNCHANGED <<boot, flash>>
    BY DEF IspStep, Write
  <1> QED
    BY <1>1 DEF IspStep, InBootLoader

LEMMA FailInStep ==
    ASSUME Fail PROVE InStepWithJob'
  BY DEF Fail, InStepWithJob, Follows, Working, Copying

LEMMA SameBlocks ==
    ASSUME BlocksInPlace, flash' = flash PROVE BlocksInPlace'
  BY DEF BlocksInPlace

(* Steps that write to no flash, and that all devices take.                *)
LEMMA TakesAll ==
    ASSUME FInv, NEW here, NEW newBoot, NEW there,
           IspStep(here, InBootLoader, newBoot, flash, GoOn(there))
    PROVE  /\ flash' = flash
           /\ \/ Fail
              \/ /\ GoOn(there)
                 /\ \A n \in InBootLoader' : n \in InBootLoader /\ boot'[n] = newBoot[n]
  <1>1. /\ InBootLoader' = InBootLoader
        /\ \/ GoOn(there) /\ Take(InBootLoader, newBoot, flash)
           \/ Fail /\ Take(InBootLoader, newBoot, flash)
           \/ Fail /\ UNCHANGED <<boot, flash>>
    BY IspOutcome
  <1>2. Take(InBootLoader, newBoot, flash) =>
           /\ flash' = flash
           /\ \A n \in InBootLoader : boot'[n] = newBoot[n]
    BY DEF Take, InBootLoader, FInv, TypeOK
  <1> QED
    BY <1>1, <1>2

LEMMA UnlockPInv ==
    ASSUME PInv, Unlock PROVE BlocksInPlace' /\ InStepWithJob'
  <1>1. flash' = flash /\ (Fail \/ GoOn("prepare")) /\ step = "unlock"
    BY TakesAll DEF PInv, Unlock, IspStep
  <1>2. CASE GoOn("prepare")
    BY <1>1, <1>2, SameBlocks DEF GoOn, PInv, InStepWithJob, Follows, Working, Copying
  <1> QED
    BY <1>1, <1>2, SameBlocks, FailInStep DEF PInv

LEMMA PrepareSectorsPInv ==
    ASSUME PInv, PrepareSectors PROVE BlocksInPlace' /\ InStepWithJob'
  <1> DEFINE newBoot == [n \in Nodes |->
                           [boot[n] EXCEPT !.prepared = ImageSectors]]
  <1>1. \A n \in Nodes : newBoot[n].prepared = ImageSectors
    BY DEF PInv, FInv, TypeOK, Boot
  <1> HIDE DEF newBoot
  <1>2. /\ flash' = flash /\ step = "prepare"
        /\ \/ Fail
           \/ /\ GoOn("erase")
              /\ \A n \in InBootLoader' : n \in InBootLoader /\ boot'[n] = newBoot[n]
    BY TakesAll DEF PInv, PrepareSectors, IspStep, newBoot
  <1>3. CASE Fail
    BY <1>2, <1>3, SameBlocks, FailInStep DEF PInv
  <1>4. CASE ~Fail
    <2>1. UNCHANGED <<job, block>> /\ step' = "erase"
      BY <1>2, <1>4 DEF GoOn
    <2>2. \A n \in InBootLoader' : boot'[n].prepared = ImageSectors'
      BY <1>1, <1>2, <1>4, <2>1 DEF InBootLoader, ImageSectors
    <2>3. InStepWithJob'
      BY <1>2, <2>1, <2>2 DEF PInv, InStepWithJob, Follows, Working, Copying
    <2> QED
      BY <1>2, <2>3, SameBlocks DEF PInv
  <1> QED
    BY <1>3, <1>4

LEMMA EraseSectorsPInv ==
    ASSUME PInv, EraseSectors PROVE BlocksInPlace' /\ InStepWithJob'
  <1> DEFINE newBoot == [n \in Nodes |-> [boot[n] EXCEPT !.prepared = {}]]
             newFlash == [n \in Nodes |->
                            [s \in Sector |-> IF s \in ImageSectors
                                              THEN Nothing ELSE flash[n][s]]]
             ready == Ready(ImageSectors)
  <1>1. \A n \in Nodes, s \in Sector :
            newFlash[n][s] = IF s \in ImageSectors THEN Nothing ELSE flash[n][s]
    OBVIOUS
  <1> HIDE DEF newBoot, newFlash, ready
  <1>2. /\ step = "erase" /\ InBootLoader' = InBootLoader
        /\ \/ GoOn("ram") /\ Take(ready, newBoot, newFlash)
           \/ Fail /\ Take(ready, newBoot, newFlash)
           \/ Fail /\ UNCHANGED <<boot, flash>>
    BY IspOutcome DEF EraseSectors, newBoot, newFlash, ready
  <1>3. BlocksInPlace'
    <2>1. CASE Take(ready, newBoot, newFlash)
      <3>1. \A n \in Nodes, s \in Sector :
                flash'[n][s] \in {flash[n][s], Nothing}
        BY <1>1, <2>1 DEF Take
      <3> QED
        BY <3>1 DEF PInv, BlocksInPlace
    <2>2. CASE flash' = flash
      BY <2>2, SameBlocks DEF PInv
    <2> QED
      BY <1>2, <2>1, <2>2
  <1>4. CASE GoOn("ram") /\ Take(ready, newBoot, newFlash)
    <2>1. UNCHANGED <<job, block>> /\ step' = "ram"
      BY <1>4 DEF GoOn
    <2>2. ASSUME NEW n \in InBootLoader, boot'[n].unlocked
          PROVE  Untouched(n)'
      <3>1. n \in Nodes
        BY DEF InBootLoader
      <3>2. CASE n \in ready
        <4>1. \A s \in Sector : s \in ImageSectors => flash'[n][s] = Nothing
          BY <1>1, <1>4, <3>1, <3>2 DEF Take
        <4>2. \A s \in Sector : s < Blocks[job.node] => s \in ImageSectors
          BY <1>2, JobNode DEF ImageSectors, Sector, PInv
        <4> QED
          BY <2>1, <4>1, <4>2 DEF Untouched
      <3>3. CASE n \notin ready
        <4>1. boot'[n] = boot[n]
          BY <1>4, <3>1, <3>3 DEF Take
        <4>2. boot[n].unlocked /\ boot[n].prepared = ImageSectors
          BY <1>2, <2>2, <4>1 DEF PInv, InStepWithJob, Follows
        <4> QED
          BY <3>3, <4>2 DEF ready, Ready
      <3> QED
        BY <3>2, <3>3
    <2>3. InStepWithJob'
      BY <1>2, <2>1, <2>2 DEF PInv, InStepWithJob, Follows, Working, Copying
    <2> QED
      BY <1>3, <2>3
  <1> QED
    BY <1>2, <1>3, <1>4, FailInStep

LEMMA WriteToRamPInv ==
    ASSUME PInv, WriteToRam PROVE BlocksInPlace' /\ InStepWithJob'
  <1> DEFINE newBoot == [n \in Nodes |->
                           [boot[n] EXCEPT !.ram = Image(job.node, block)]]
  <1>1. \A n \in Nodes : /\ newBoot[n].ram = Image(job.node, block)
                         /\ newBoot[n].unlocked <=> boot[n].unlocked
    BY DEF PInv, FInv, TypeOK, Boot
  <1> HIDE DEF newBoot
  <1>2. /\ flash' = flash /\ step = "ram"
        /\ \/ Fail
           \/ /\ GoOn("select")
              /\ \A n \in InBootLoader' : n \in InBootLoader /\ boot'[n] = newBoot[n]
    BY TakesAll DEF PInv, WriteToRam, IspStep, newBoot
  <1>3. CASE Fail
    BY <1>2, <1>3, SameBlocks, FailInStep DEF PInv
  <1>4. CASE ~Fail
    <2>1. UNCHANGED <<job, block>> /\ step' = "select"
      BY <1>2, <1>4 DEF GoOn
    <2>2. ASSUME NEW n \in InBootLoader', boot'[n].unlocked
          PROVE  Untouched(n)' /\ boot'[n].ram = Image(job.node, block)
      <3>1. n \in InBootLoader /\ boot[n].unlocked
            /\ boot'[n].ram = Image(job.node, block)
        BY <1>1, <1>2, <1>4, <2>2 DEF InBootLoader
      <3>2. Untouched(n)
        BY <1>2, <3>1 DEF PInv, InStepWithJob, Follows, Copying
      <3> QED
        BY <1>2, <2>1, <3>1, <3>2 DEF Untouched
    <2>3. InStepWithJob'
      BY <1>2, <2>1, <2>2 DEF PInv, InStepWithJob, Follows, Working, Copying, Image
    <2> QED
      BY <1>2, <2>3, SameBlocks DEF PInv
  <1> QED
    BY <1>3, <1>4

LEMMA PrepareBlockPInv ==
    ASSUME PInv, PrepareBlock PROVE BlocksInPlace' /\ InStepWithJob'
  <1> DEFINE newBoot == [n \in Nodes |-> [boot[n] EXCEPT !.prepared = {block}]]
  <1>1. \A n \in Nodes : /\ newBoot[n].ram = boot[n].ram
                         /\ newBoot[n].unlocked <=> boot[n].unlocked
    BY DEF PInv, FInv, TypeOK, Boot
  <1> HIDE DEF newBoot
  <1>2. /\ flash' = flash /\ step = "select"
        /\ \/ Fail
           \/ /\ GoOn("copy")
              /\ \A n \in InBootLoader' : n \in InBootLoader /\ boot'[n] = newBoot[n]
    BY TakesAll DEF PInv, PrepareBlock, IspStep, newBoot
  <1>3. CASE Fail
    BY <1>2, <1>3, SameBlocks, FailInStep DEF PInv
  <1>4. CASE ~Fail
    <2>1. UNCHANGED <<job, block>> /\ step' = "copy"
      BY <1>2, <1>4 DEF GoOn
    <2>2. ASSUME NEW n \in InBootLoader', boot'[n].unlocked
          PROVE  Untouched(n)' /\ boot'[n].ram = Image(job.node, block)
      <3>1. n \in InBootLoader /\ boot[n].unlocked /\ boot'[n].ram = boot[n].ram
        BY <1>1, <1>2, <1>4, <2>2 DEF InBootLoader
      <3>2. Untouched(n) /\ boot[n].ram = Image(job.node, block)
        BY <1>2, <3>1 DEF PInv, InStepWithJob, Follows, Copying
      <3> QED
        BY <1>2, <2>1, <3>1, <3>2 DEF Untouched
    <2>3. InStepWithJob'
      BY <1>2, <2>1, <2>2 DEF PInv, InStepWithJob, Follows, Working, Copying, Image
    <2> QED
      BY <1>2, <2>3, SameBlocks DEF PInv
  <1> QED
    BY <1>3, <1>4

(* What "copy" writes.                                                     *)
LEMMA Copied ==
    ASSUME PInv, step = "copy", NEW n \in Ready({block})
    PROVE  /\ n \in Nodes /\ flash[n][block] = Nothing
           /\ boot[n].ram = Image(job.node, block)
  <1>1. n \in InBootLoader /\ n \in Nodes /\ boot[n].unlocked
    BY DEF Ready, InBootLoader
  <1>2. Untouched(n) /\ boot[n].ram = Image(job.node, block)
        /\ block < Blocks[job.node]
    BY <1>1 DEF PInv, InStepWithJob, Follows, Copying, Working
  <1>3. block \in Sector /\ block <= block
    BY JobNode DEF PInv
  <1> QED
    BY <1>1, <1>2, <1>3 DEF Untouched

LEMMA CopyRamToFlashPInv ==
    ASSUME PInv, CopyRamToFlash PROVE BlocksInPlace' /\ InStepWithJob'
  <1> DEFINE newBoot == [n \in Nodes |-> [boot[n] EXCEPT !.prepared = {}]]
             newFlash == [n \in Nodes |->
                            [flash[n] EXCEPT ![block] =
                               IF @ = Nothing THEN boot[n].ram ELSE Garbage]]
             ready == Ready({block})
  <1>1. /\ step = "copy" /\ InBootLoader' = InBootLoader
        /\ \/ NextBlock /\ Take(ready, newBoot, newFlash)
           \/ Fail /\ Take(ready, newBoot, newFlash)
           \/ Fail /\ UNCHANGED <<boot, flash>>
    BY IspOutcome DEF CopyRamToFlash
  <1>2. /\ job.node \in Nodes /\ block \in Sector /\ block \in Nat
        /\ Blocks[job.node] \in Nat
    BY <1>1, JobNode DEF PInv
  <1>3. \A n \in Nodes, s \in Sector :
            newFlash[n][s] = IF s # block THEN flash[n][s]
                             ELSE IF flash[n][s] = Nothing THEN boot[n].ram
                             ELSE Garbage
    BY <1>2 DEF PInv, FInv, TypeOK
  <1>4. \A n \in Nodes : newBoot[n].unlocked <=> boot[n].unlocked
    BY DEF PInv, FInv, TypeOK, Boot
  <1> HIDE DEF newBoot, newFlash, ready
  <1>5. Take(ready, newBoot, newFlash) => BlocksInPlace'
    <2> SUFFICES ASSUME Take(ready, newBoot, newFlash),
                        NEW n \in Nodes, NEW s \in Sector
                 PROVE  \/ flash'[n][s] \in {Factory, Nothing}
                        \/ flash'[n][s].of \in Nodes /\ flash'[n][s].nr = s
      BY DEF BlocksInPlace
    <2>1. CASE n \in ready /\ s = block
      <3>1. flash'[n][s] = Image(job.node, block)
        BY <1>1, <1>2, <1>3, <2>1, Copied DEF Take, ready
      <3> QED
        BY <1>2, <2>1, <3>1, Contents
    <2>2. CASE ~(n \in ready /\ s = block)
      <3>1. flash'[n][s] = flash[n][s]
        BY <1>3, <2>2 DEF Take
      <3> QED
        BY <3>1 DEF PInv, BlocksInPlace
    <2> QED
      BY <2>1, <2>2
  <1>6. BlocksInPlace'
    BY <1>1, <1>5, SameBlocks DEF PInv
  <1>7. CASE NextBlock /\ Take(ready, newBoot, newFlash)
    <2>1. CASE block + 1 < Blocks[job.node]
      <3>1. job' = job /\ block' = block + 1 /\ step' = "ram"
        BY <1>7, <2>1 DEF NextBlock
      <3>2. ASSUME NEW n \in InBootLoader, boot'[n].unlocked
            PROVE  Untouched(n)'
        <4>1. n \in Nodes /\ boot[n].unlocked
          BY <1>4, <1>7, <3>2 DEF InBootLoader, Take
        <4>2. Untouched(n)
          BY <1>1, <4>1 DEF PInv, InStepWithJob, Follows, Copying
        <4>3. \A s \in Sector : s # block => flash'[n][s] = flash[n][s]
          BY <1>3, <1>7, <4>1 DEF Take
        <4>4. \A s \in Sector : block + 1 <= s => block <= s /\ s # block
          BY <1>2 DEF Sector
        <4> QED
          BY <3>1, <4>2, <4>3, <4>4 DEF Untouched
      <3> QED
        BY <1>1, <1>6, <2>1, <3>1, <3>2
           DEF InStepWithJob, Follows, Working, Copying
    <2>2. CASE ~(block + 1 < Blocks[job.node])
      BY <1>1, <1>6, <1>7, <2>2
         DEF NextBlock, GoOn, PInv, InStepWithJob, Follows, Working, Copying
    <2> QED
      BY <2>1, <2>2
  <1> QED
    BY <1>1, <1>6, <1>7, FailInStep

LEMMA WriteLoaderPInv ==
    ASSUME PInv, WriteLoader PROVE BlocksInPlace' /\ InStepWithJob'
  <1>1. flash' = flash /\ (Fail \/ GoOn("go")) /\ step = "loader"
    BY TakesAll DEF PInv, WriteLoader, IspStep
  <1>2. CASE GoOn("go")
    BY <1>1, <1>2, SameBlocks DEF GoOn, PInv, InStepWithJob, Follows, Working, Copying
  <1> QED
    BY <1>1, <1>2, SameBlocks, FailInStep DEF PInv

(* Devices that enter their boot loader or restart are locked.             *)
LEMMA ArrivesLocked ==
    ASSUME PInv, UNCHANGED <<job, step, block, flash>>,
           \A n \in InBootLoader' : \/ boot'[n] = NewBoot
                                    \/ n \in InBootLoader /\ boot'[n] = boot[n]
    PROVE  BlocksInPlace' /\ InStepWithJob'
  <1>1. BlocksInPlace'
    BY SameBlocks DEF PInv
  <1>2. ASSUME NEW n \in InBootLoader', boot'[n].unlocked
        PROVE  Follows(n)'
    <2>1. n \in InBootLoader /\ boot'[n] = boot[n]
      BY <1>2, Contents DEF InBootLoader
    <2>2. Follows(n)
      BY <1>2, <2>1 DEF PInv, InStepWithJob
    <2> QED
      BY <2>1, <2>2 DEF Follows, Untouched, ImageSectors, Image
  <1> QED
    BY <1>1, <1>2 DEF PInv, InStepWithJob

LEMMA RestartArrives ==
    ASSUME FInv, NEW ns, Restart(ns) \/ Enter(ns) \/ UNCHANGED <<mode, devId, boot>>,
           NEW n \in InBootLoader'
    PROVE  boot'[n] = NewBoot \/ (n \in InBootLoader /\ boot'[n] = boot[n])
  BY DEF Restart, Enter, InBootLoader, FInv, TypeOK

LEMMA OthersPInv ==
    ASSUME PInv,
           \/ TakeJob \/ InvokeIsp \/ InvokeFails \/ Go \/ Scan \/ Ping
           \/ \E n \in Nodes : PowerCycle(n) \/ \E i \in Ids : FirmwareUpdate(n, i)
           \/ UNCHANGED vars
    PROVE  BlocksInPlace' /\ InStepWithJob'
  <1>1. flash' = flash
    BY DEF TakeJob, InvokeIsp, InvokeFails, Go, Scan, Join, Ping, Drop,
           PowerCycle, FirmwareUpdate, vars, devices
  <1>2. BlocksInPlace'
    BY <1>1, SameBlocks DEF PInv
  <1>3. CASE TakeJob
    BY <1>2, <1>3 DEF TakeJob, InStepWithJob, Follows, Working, Copying
  <1>4. CASE InvokeIsp
    <2>1. step' = "unlock" /\ UNCHANGED <<job, block>> /\ step = "invoke"
      BY <1>4 DEF InvokeIsp, GoOn
    <2>2. block = 0 /\ block < Blocks[job.node]
      BY <2>1, JobNode DEF PInv, InStepWithJob
    <2> QED
      BY <1>2, <2>1, <2>2 DEF InStepWithJob, Follows, Working, Copying
  <1>5. CASE InvokeFails
    BY <1>2, <1>5, FailInStep DEF InvokeFails
  <1>6. CASE Go
    BY <1>2, <1>6 DEF Go, Done, Fail, InStepWithJob, Follows, Working, Copying
  <1>7. CASE \/ Scan \/ Ping
             \/ \E n \in Nodes : PowerCycle(n) \/ \E i \in Ids : FirmwareUpdate(n, i)
             \/ UNCHANGED vars
    <2>1. UNCHANGED <<job, step, block>>
      BY <1>7 DEF Scan, Join, Ping, Drop, PowerCycle, FirmwareUpdate, vars, worker
    <2>2. \E ns : Restart(ns) \/ UNCHANGED <<mode, boot>>
      BY <1>7 DEF Scan, Join, Ping, Drop, PowerCycle, FirmwareUpdate, vars, devices
    <2>3. \A n \in InBootLoader' : \/ boot'[n] = NewBoot
                                   \/ n \in InBootLoader /\ boot'[n] = boot[n]
      BY <2>2, RestartArrives DEF PInv, InBootLoader
    <2> QED
      BY <1>1, <2>1, <2>3, ArrivesLocked
  <1> QED
    BY <1>3, <1>4, <1>5, <1>6, <1>7

LEMMA InitPInv == Init => PInv
  <1> SUFFICES ASSUME Init PROVE PInv
    OBVIOUS
  <1>1. BlocksInPlace /\ InStepWithJob
    BY Contents DEF Init, BlocksInPlace, InStepWithJob, Follows, Working, Copying,
                    InBootLoader
  <1> QED
    BY <1>1, FInit DEF PInv

LEMMA NextPInv ==
    ASSUME PInv, [Next]_vars PROVE PInv'
  <1>1. FInv'
    BY FNext DEF PInv
  <1>2. BlocksInPlace' /\ InStepWithJob'
    BY OthersPInv, UnlockPInv, PrepareSectorsPInv, EraseSectorsPInv,
       WriteToRamPInv, PrepareBlockPInv, CopyRamToFlashPInv, WriteLoaderPInv
       DEF Next, Worker
  <1> QED
    BY <1>1, <1>2 DEF PInv

(* No block is written over anything but an erased sector, nor to the      *)
(* place of another block, whatever is lost, whichever device is switched  *)
(* off, and also in a device that takes part in the job of another one     *)
(* (flash_image, can_isp.py:346-373).                                      *)
THEOREM BlocksGoInPlace == Spec => []BlocksInPlace
  <1>1. PInv => BlocksInPlace
    BY DEF PInv
  <1>2. PInv /\ [Next]_vars => PInv'
    BY NextPInv
  <1> QED
    BY <1>1, <1>2, InitPInv, PTL DEF Spec

-----------------------------------------------------------------------------
(* What an update does that nothing disturbs.                              *)

Undone == Alone /\ Queued /\ Progress

LEMMA StaysUndisturbed ==
    ASSUME FInv, [Next]_vars, Undisturbed'
    PROVE  Undisturbed /\ UNCHANGED <<repeats, losses, cycles>>
  <1>1. repeats \in Nat /\ losses \in Nat /\ cycles \in Nat
    BY DEF FInv, TypeOK
  <1>2. /\ repeats' \in {repeats, repeats + 1}
        /\ losses' \in {losses, losses + 1}
        /\ cycles' \in {cycles, cycles + 1}
    <2>1. CASE TakeJob \/ InvokeIsp \/ InvokeFails \/ Go
      BY <2>1 DEF TakeJob, InvokeIsp, InvokeFails, Go, bounds
    <2>2. CASE \/ Unlock \/ PrepareSectors \/ EraseSectors \/ WriteToRam
               \/ PrepareBlock \/ CopyRamToFlash \/ WriteLoader
      <3>1. \E here, takers, newBoot, newFlash, go :
                IspStep(here, takers, newBoot, newFlash, go)
        BY <2>2 DEF Unlock, PrepareSectors, EraseSectors, WriteToRam,
                    PrepareBlock, CopyRamToFlash, WriteLoader
      <3> QED
        BY <3>1 DEF IspStep, Write
    <2>3. CASE Scan \/ Ping \/ UNCHANGED vars
      BY <2>3 DEF Scan, Join, Ping, Drop, bounds, vars
    <2>4. CASE \E n \in Nodes : PowerCycle(n) \/ \E i \in Ids : FirmwareUpdate(n, i)
      BY <2>4 DEF PowerCycle, FirmwareUpdate
    <2> QED
      BY <2>1, <2>2, <2>3, <2>4 DEF Next, Worker
  <1> QED
    BY <1>1, <1>2 DEF Undisturbed

LEMMA QueuedNodes ==
    ASSUME FInv, NEW k \in DOMAIN jobs
    PROVE  jobs[k].node \in Nodes /\ jobs[k].id # 0
  <1>1. jobs \in Seq(Job) /\ k \in 1..Len(jobs)
    BY DEF FInv, TypeOK
  <1>2. jobs[k] \in Job
    BY <1>1, ElementOfSeq
  <1> QED
    BY <1>2 DEF Job, Ids

(* The device of the job, and nobody else, takes a request that all who    *)
(* are in their boot loader can take.                                      *)
LEMMA TargetOnly ==
    ASSUME FInv, Alone, step \in Working
    PROVE  InBootLoader = {job.node} /\ job.node \in Nodes /\ job \in Job
  <1>1. job.node \in Nodes /\ job \in Job
    BY JobNode DEF Working, Copying
  <1> QED
    BY <1>1 DEF Alone, InBootLoader

LEMMA TargetGoesOn ==
    ASSUME FInv, Alone, NEW here \in Working, NEW takers, NEW newBoot,
           NEW newFlash, NEW go, takers = {job.node}, losses' = losses,
           IspStep(here, takers, newBoot, newFlash, go)
    PROVE  /\ go /\ UNCHANGED <<list, jobs, mode, devId>>
           /\ boot'[job.node] = newBoot[job.node]
           /\ flash'[job.node] = newFlash[job.node]
  <1>1. step = here /\ UNCHANGED <<list, jobs, mode, devId>>
    BY DEF IspStep
  <1>2. InBootLoader = {job.node} /\ job.node \in Nodes /\ losses \in Nat
    BY <1>1, TargetOnly DEF FInv, TypeOK
  <1>3. go /\ Take(takers, newBoot, newFlash)
    BY <1>2 DEF IspStep, Write
  <1> QED
    BY <1>1, <1>2, <1>3 DEF Take

(* Nothing but the step changes for the list, the queue and the others.    *)
LEMMA WorkGoesOn ==
    ASSUME FInv, Alone, Queued, step \in Working, step' \in Working,
           UNCHANGED <<list, jobs, mode, devId, job>>
    PROVE  Alone' /\ Queued'
  <1>1. InBootLoader' = InBootLoader
    BY DEF InBootLoader
  <1>2. Alone'
    BY <1>1 DEF Alone
  <1>3. step' # "idle" /\ step' # "invoke"
    BY DEF Working, Copying
  <1> QED
    BY <1>2, <1>3 DEF Queued

LEMMA UnlockUndone ==
    ASSUME PInv, Undone, losses' = losses, Unlock PROVE Undone'
  <1> DEFINE n == job.node
             newBoot == [m \in Nodes |-> [boot[m] EXCEPT !.unlocked = TRUE]]
  <1>1. step = "unlock" /\ InBootLoader = {n} /\ n \in Nodes
    BY TargetOnly DEF Unlock, IspStep, PInv, Undone, Working
  <1>2. newBoot[n].unlocked
    BY <1>1 DEF PInv, FInv, TypeOK, Boot
  <1> HIDE DEF newBoot
  <1>3. /\ GoOn("prepare") /\ UNCHANGED <<list, jobs, mode, devId>>
        /\ boot'[n] = newBoot[n]
    <2>1. IspStep("unlock", InBootLoader, newBoot, flash, GoOn("prepare"))
      BY DEF Unlock, newBoot
    <2> QED
      BY <1>1, <2>1, TargetGoesOn DEF PInv, Undone, Working
  <1>4. Alone' /\ Queued'
    BY <1>1, <1>3, WorkGoesOn DEF GoOn, PInv, Undone, Working
  <1>5. Progress'
    BY <1>2, <1>3 DEF GoOn, Progress, Working, Copying
  <1> QED
    BY <1>4, <1>5 DEF Undone

LEMMA PrepareSectorsUndone ==
    ASSUME PInv, Undone, losses' = losses, PrepareSectors PROVE Undone'
  <1> DEFINE n == job.node
             newBoot == [m \in Nodes |->
                           [boot[m] EXCEPT !.prepared = ImageSectors]]
  <1>1. step = "prepare" /\ InBootLoader = {n} /\ n \in Nodes
    BY TargetOnly DEF PrepareSectors, IspStep, PInv, Undone, Working
  <1>2. /\ newBoot[n].prepared = ImageSectors
        /\ newBoot[n].unlocked <=> boot[n].unlocked
    BY <1>1 DEF PInv, FInv, TypeOK, Boot
  <1> HIDE DEF newBoot
  <1>3. /\ GoOn("erase") /\ UNCHANGED <<list, jobs, mode, devId>>
        /\ boot'[n] = newBoot[n]
    <2>1. IspStep("prepare", InBootLoader, newBoot, flash, GoOn("erase"))
      BY DEF PrepareSectors, newBoot
    <2> QED
      BY <1>1, <2>1, TargetGoesOn DEF PInv, Undone, Working
  <1>4. Alone' /\ Queued'
    BY <1>1, <1>3, WorkGoesOn DEF GoOn, PInv, Undone, Working
  <1>5. boot[n].unlocked
    BY <1>1 DEF Undone, Progress, Working
  <1>6. Progress'
    BY <1>2, <1>3, <1>5 DEF GoOn, Progress, Working, Copying, ImageSectors
  <1> QED
    BY <1>4, <1>6 DEF Undone

LEMMA EraseSectorsUndone ==
    ASSUME PInv, Undone, losses' = losses, EraseSectors PROVE Undone'
  <1> DEFINE n == job.node
             newBoot == [m \in Nodes |-> [boot[m] EXCEPT !.prepared = {}]]
             newFlash == [m \in Nodes |->
                            [s \in Sector |-> IF s \in ImageSectors
                                              THEN Nothing ELSE flash[m][s]]]
  <1>1. step = "erase" /\ InBootLoader = {n} /\ n \in Nodes
    BY TargetOnly DEF EraseSectors, IspStep, PInv, Undone, Working
  <1>2. newBoot[n].unlocked <=> boot[n].unlocked
    BY <1>1 DEF PInv, FInv, TypeOK, Boot
  <1>3. boot[n].unlocked /\ boot[n].prepared = ImageSectors
    BY <1>1 DEF Undone, Progress, Working
  <1>4. Ready(ImageSectors) = {n}
    BY <1>1, <1>3 DEF Ready
  <1> HIDE DEF newBoot, newFlash
  <1>5. /\ GoOn("ram") /\ UNCHANGED <<list, jobs, mode, devId>>
        /\ boot'[n] = newBoot[n]
    <2>1. IspStep("erase", Ready(ImageSectors), newBoot, newFlash, GoOn("ram"))
      BY DEF EraseSectors, newBoot, newFlash
    <2> QED
      BY <1>1, <1>4, <2>1, TargetGoesOn DEF PInv, Undone, Working
  <1>6. Alone' /\ Queued'
    BY <1>1, <1>5, WorkGoesOn DEF GoOn, PInv, Undone, Working, Copying
  <1>7. ~\E b \in Sector : b < block
    BY <1>1 DEF PInv, InStepWithJob, Sector
  <1>8. Progress'
    BY <1>2, <1>3, <1>5, <1>7 DEF GoOn, Progress, Working, Copying
  <1> QED
    BY <1>6, <1>8 DEF Undone

LEMMA WriteToRamUndone ==
    ASSUME PInv, Undone, losses' = losses, WriteToRam PROVE Undone'
  <1> DEFINE n == job.node
             newBoot == [m \in Nodes |->
                           [boot[m] EXCEPT !.ram = Image(job.node, block)]]
  <1>1. step = "ram" /\ InBootLoader = {n} /\ n \in Nodes
    BY TargetOnly DEF WriteToRam, IspStep, PInv, Undone, Working, Copying
  <1>2. newBoot[n].unlocked <=> boot[n].unlocked
    BY <1>1 DEF PInv, FInv, TypeOK, Boot
  <1> HIDE DEF newBoot
  <1>3. /\ GoOn("select") /\ UNCHANGED <<list, jobs, mode, devId>>
        /\ boot'[n] = newBoot[n] /\ flash'[n] = flash[n]
    <2>1. IspStep("ram", InBootLoader, newBoot, flash, GoOn("select"))
      BY DEF WriteToRam, newBoot
    <2> QED
      BY <1>1, <2>1, TargetGoesOn DEF PInv, Undone, Working, Copying
  <1>4. Alone' /\ Queued'
    BY <1>1, <1>3, WorkGoesOn DEF GoOn, PInv, Undone, Working, Copying
  <1>5. boot[n].unlocked /\ \A b \in Sector : b < block => flash[n][b] = Image(n, b)
    BY <1>1 DEF Undone, Progress, Working, Copying
  <1>6. Progress'
    BY <1>2, <1>3, <1>5 DEF GoOn, Progress, Working, Copying, Image
  <1> QED
    BY <1>4, <1>6 DEF Undone

LEMMA PrepareBlockUndone ==
    ASSUME PInv, Undone, losses' = losses, PrepareBlock PROVE Undone'
  <1> DEFINE n == job.node
             newBoot == [m \in Nodes |-> [boot[m] EXCEPT !.prepared = {block}]]
  <1>1. step = "select" /\ InBootLoader = {n} /\ n \in Nodes
    BY TargetOnly DEF PrepareBlock, IspStep, PInv, Undone, Working, Copying
  <1>2. /\ newBoot[n].prepared = {block}
        /\ newBoot[n].unlocked <=> boot[n].unlocked
    BY <1>1 DEF PInv, FInv, TypeOK, Boot
  <1> HIDE DEF newBoot
  <1>3. /\ GoOn("copy") /\ UNCHANGED <<list, jobs, mode, devId>>
        /\ boot'[n] = newBoot[n] /\ flash'[n] = flash[n]
    <2>1. IspStep("select", InBootLoader, newBoot, flash, GoOn("copy"))
      BY DEF PrepareBlock, newBoot
    <2> QED
      BY <1>1, <2>1, TargetGoesOn DEF PInv, Undone, Working, Copying
  <1>4. Alone' /\ Queued'
    BY <1>1, <1>3, WorkGoesOn DEF GoOn, PInv, Undone, Working, Copying
  <1>5. boot[n].unlocked /\ \A b \in Sector : b < block => flash[n][b] = Image(n, b)
    BY <1>1 DEF Undone, Progress, Working, Copying
  <1>6. Progress'
    BY <1>2, <1>3, <1>5 DEF GoOn, Progress, Working, Copying, Image
  <1> QED
    BY <1>4, <1>6 DEF Undone

LEMMA CopyRamToFlashUndone ==
    ASSUME PInv, Undone, losses' = losses, CopyRamToFlash PROVE Undone'
  <1> DEFINE n == job.node
             newBoot == [m \in Nodes |-> [boot[m] EXCEPT !.prepared = {}]]
             newFlash == [m \in Nodes |->
                            [flash[m] EXCEPT ![block] =
                               IF @ = Nothing THEN boot[m].ram ELSE Garbage]]
  <1>1. step = "copy" /\ InBootLoader = {n} /\ n \in Nodes
    BY TargetOnly DEF CopyRamToFlash, IspStep, PInv, Undone, Working, Copying
  <1>2. newBoot[n].unlocked <=> boot[n].unlocked
    BY <1>1 DEF PInv, FInv, TypeOK, Boot
  <1>3. /\ boot[n].unlocked /\ boot[n].prepared = {block}
        /\ \A b \in Sector : b < block => flash[n][b] = Image(n, b)
    BY <1>1 DEF Undone, Progress, Working, Copying
  <1>4. Ready({block}) = {n}
    BY <1>1, <1>3 DEF Ready
  <1>5. flash[n][block] = Nothing /\ boot[n].ram = Image(n, block)
    BY <1>1, <1>4, Copied
  <1>6. /\ block \in Sector /\ block \in Nat /\ block < Blocks[n]
        /\ Blocks[n] \in Nat
    BY <1>1, JobNode DEF PInv, InStepWithJob, Working, Copying
  <1>7. /\ newFlash[n][block] = Image(n, block)
        /\ \A b \in Sector : b # block => newFlash[n][b] = flash[n][b]
    BY <1>1, <1>5, <1>6 DEF PInv, FInv, TypeOK
  <1> HIDE DEF newBoot, newFlash
  <1>8. /\ NextBlock /\ UNCHANGED <<list, jobs, mode, devId>>
        /\ boot'[n] = newBoot[n] /\ flash'[n] = newFlash[n]
    <2>1. IspStep("copy", Ready({block}), newBoot, newFlash, NextBlock)
      BY DEF CopyRamToFlash, newBoot, newFlash
    <2> QED
      BY <1>1, <1>4, <2>1, TargetGoesOn DEF PInv, Undone, Working, Copying
  <1>9. \A b \in Sector : b < block + 1 => flash'[n][b] = Image(n, b)
    BY <1>3, <1>6, <1>7, <1>8 DEF Sector
  <1>10. job' = job /\ step' \in {"ram", "loader"}
    BY <1>8 DEF NextBlock, GoOn
  <1>11. Alone' /\ Queued'
    BY <1>1, <1>8, <1>10, WorkGoesOn DEF PInv, Undone, Working, Copying
  <1>12. CASE block + 1 < Blocks[n]
    <2>1. step' = "ram" /\ block' = block + 1
      BY <1>8, <1>12 DEF NextBlock
    <2>2. Progress'
      BY <1>2, <1>3, <1>8, <1>9, <1>10, <2>1 DEF Progress, Working, Copying, Image
    <2> QED
      BY <1>11, <2>2 DEF Undone
  <1>13. CASE ~(block + 1 < Blocks[n])
    <2>1. step' = "loader"
      BY <1>8, <1>13 DEF NextBlock, GoOn
    <2>2. \A b \in ImageSectors : b \in Sector /\ b < block + 1
      BY <1>1, <1>6, <1>13, JobNode, Sectors1 DEF ImageSectors, PInv
    <2>3. \A b \in ImageSectors' : flash'[n][b] = Image(n, b)
      BY <1>9, <1>10, <2>2 DEF ImageSectors
    <2>4. Progress'
      BY <1>2, <1>3, <1>8, <1>10, <2>1, <2>3 DEF Progress, Working, Copying, Image
    <2> QED
      BY <1>11, <2>4 DEF Undone
  <1> QED
    BY <1>12, <1>13

LEMMA WriteLoaderUndone ==
    ASSUME PInv, Undone, losses' = losses, WriteLoader PROVE Undone'
  <1> DEFINE n == job.node
             newBoot == [m \in Nodes |->
                           [boot[m] EXCEPT !.unlocked = TRUE, !.ram = Loader]]
  <1>1. step = "loader" /\ InBootLoader = {n} /\ n \in Nodes
    BY TargetOnly DEF WriteLoader, IspStep, PInv, Undone, Working
  <1>2. newBoot[n].unlocked /\ newBoot[n].ram = Loader
    BY <1>1 DEF PInv, FInv, TypeOK, Boot
  <1> HIDE DEF newBoot
  <1>3. /\ GoOn("go") /\ UNCHANGED <<list, jobs, mode, devId>>
        /\ boot'[n] = newBoot[n] /\ flash'[n] = flash[n]
    <2>1. IspStep("loader", InBootLoader, newBoot, flash, GoOn("go"))
      BY DEF WriteLoader, newBoot
    <2> QED
      BY <1>1, <2>1, TargetGoesOn DEF PInv, Undone, Working
  <1>4. Alone' /\ Queued'
    BY <1>1, <1>3, WorkGoesOn DEF GoOn, PInv, Undone, Working
  <1>5. \A b \in ImageSectors : flash[n][b] = Image(n, b)
    BY <1>1 DEF Undone, Progress, Working
  <1>6. Progress'
    BY <1>2, <1>3, <1>5 DEF GoOn, Progress, Working, Copying, ImageSectors, Image, Loader
  <1> QED
    BY <1>4, <1>6 DEF Undone

(* The device that the reset program starts has its whole firmware.        *)
LEMMA GoUndone ==
    ASSUME PInv, Undone, losses' = losses, Go PROVE Undone'
  <1> DEFINE n == job.node
  <1>1. step = "go" /\ InBootLoader = {n} /\ n \in Nodes
    BY TargetOnly DEF Go, PInv, Undone, Working
  <1>2. /\ boot[n].unlocked /\ boot[n].ram = Loader
        /\ \A b \in ImageSectors : flash[n][b] = Image(n, b)
    BY <1>1 DEF Undone, Progress, Working
  <1>3. Runnable = {n}
    BY <1>1, <1>2 DEF Runnable
  <1>4. Restart({n}) /\ Done /\ UNCHANGED <<list, jobs>>
    <2>1. losses \in Nat
      BY DEF PInv, FInv, TypeOK
    <2>2. losses' # losses + 1
      BY <2>1
    <2> QED
      BY <1>1, <1>3, <2>2 DEF Go
  <1>5. Started(n) = "firmware"
    <2>1. 0 \in ImageSectors
      BY <1>1, JobNode DEF ImageSectors, PInv
    <2>2. flash[n][0].of = n /\ n \notin {"nothing", "garbage", "factory"}
      <3>1. flash[n][0] = Image(n, 0) /\ 0 \in Sector
        BY <1>2, <2>1, Sectors1
      <3>2. Image(n, 0).of = n
        BY <1>1, <3>1, Contents
      <3> QED
        BY <1>1, <3>1, <3>2, FlashAssumption
    <2> QED
      BY <1>2, <2>2 DEF Started, ImageSectors
  <1>6. /\ \A m \in Nodes : mode'[m] = "firmware"
        /\ \A m \in Nodes : m # n => devId'[m] = devId[m]
        /\ devId'[n] = 0
    BY <1>1, <1>4, <1>5 DEF Restart, Undone, Alone
  <1>7. job' = NoJob /\ step' = "idle"
    BY <1>4 DEF Done
  <1>8. Alone'
    BY <1>4, <1>6, <1>7 DEF Undone, Alone, InBootLoader, Working, Copying
  <1>9. Queued'
    <2>1. \A k \in DOMAIN jobs : jobs[k].node \in Nodes
      BY QueuedNodes DEF PInv
    <2>2. NoJob.node \notin Nodes
      BY FlashAssumption DEF NoJob
    <2> QED
      BY <1>4, <1>6, <1>7, <2>1, <2>2 DEF Undone, Queued
  <1> QED
    BY <1>7, <1>8, <1>9 DEF Undone, Progress, Working, Copying

LEMMA TakeJobUndone ==
    ASSUME PInv, Undone, TakeJob PROVE Undone'
  <1>1. /\ step = "idle" /\ step' = "invoke" /\ jobs # <<>>
        /\ job' = Head(jobs) /\ jobs' = Tail(jobs)
        /\ UNCHANGED <<list, mode, devId>>
    BY DEF TakeJob, devices
  <1>2. /\ jobs \in Seq(Job) /\ Len(jobs) \in Nat /\ DOMAIN jobs = 1..Len(jobs)
        /\ Head(jobs) = jobs[1] /\ 1 \in DOMAIN jobs
        /\ DOMAIN Tail(jobs) = 1..(Len(jobs) - 1)
        /\ \A k \in DOMAIN Tail(jobs) :
              /\ Tail(jobs)[k] = jobs[k + 1]
              /\ k + 1 \in DOMAIN jobs /\ k + 1 # 1
        /\ \A k, l \in DOMAIN Tail(jobs) : k # l => k + 1 # l + 1
    BY <1>1, HeadTailProperties, EmptySeq DEF PInv, FInv, TypeOK
  <1>3. Alone'
    BY <1>1 DEF Undone, Alone, InBootLoader, Working, Copying
  <1>4. Queued'
    BY <1>1, <1>2 DEF Undone, Queued
  <1> QED
    BY <1>1, <1>3, <1>4 DEF Undone, Progress, Working, Copying

LEMMA InvokeUndone ==
    ASSUME PInv, Undone, losses' = losses, InvokeIsp \/ InvokeFails PROVE Undone'
  <1> DEFINE n == job.node
  <1>1. step = "invoke" /\ UNCHANGED <<list, jobs, flash>>
    BY DEF InvokeIsp, InvokeFails, devices
  <1>2. n \in Nodes /\ job \in Job /\ job.id \in Ids /\ losses \in Nat
    BY <1>1, JobNode DEF PInv, FInv, TypeOK
  <1>3. devId[n] = job.id /\ job.id # 0
    BY <1>1, <1>2 DEF Undone, Queued, Ids
  <1>4. CASE InvokeFails
    <2>1. job' = NoJob /\ step' = "idle" /\ UNCHANGED <<mode, devId>>
      BY <1>4 DEF InvokeFails, Fail, devices
    <2>2. Alone'
      BY <1>1, <2>1 DEF Undone, Alone, InBootLoader, Working, Copying
    <2>3. \A k \in DOMAIN jobs : jobs[k].node \in Nodes
      BY QueuedNodes DEF PInv
    <2>4. NoJob.node \notin Nodes
      BY FlashAssumption DEF NoJob
    <2>5. Queued'
      BY <1>1, <2>1, <2>3, <2>4 DEF Undone, Queued
    <2> QED
      BY <2>1, <2>2, <2>5 DEF Undone, Progress, Working, Copying
  <1>5. CASE InvokeIsp
    <2>1. Enter(Hearing(job.id)) /\ job' = job /\ step' = "unlock"
      BY <1>2, <1>5 DEF InvokeIsp, GoOn
    <2>2. Hearing(job.id) = {n}
      <3>1. \A m \in Nodes : mode[m] = "firmware"
        BY <1>1 DEF Undone, Alone, Working, Copying
      <3>2. \A m \in Nodes : devId[m] = job.id => m = n
        BY <1>2, <1>3 DEF Undone, Alone
      <3> QED
        BY <1>2, <1>3, <3>1, <3>2 DEF Hearing
    <2>3. /\ \A m \in Nodes : mode'[m] = IF m = n THEN "bootloader" ELSE "firmware"
          /\ \A m \in Nodes : devId'[m] = IF m = n THEN 0 ELSE devId[m]
      BY <1>1, <2>1, <2>2 DEF Enter, Undone, Alone, Working, Copying
    <2>4. Alone'
      BY <1>1, <2>1, <2>3 DEF Undone, Alone, InBootLoader, Working
    <2>5. \A k \in DOMAIN jobs : jobs[k].node \in Nodes
      BY QueuedNodes DEF PInv
    <2>6. Queued'
      BY <1>1, <2>1, <2>3, <2>5 DEF Undone, Queued
    <2> QED
      BY <2>1, <2>4, <2>6 DEF Undone, Progress, Working, Copying
  <1> QED
    BY <1>4, <1>5

LEMMA ProgressKept ==
    ASSUME Progress, UNCHANGED <<job, step, block, boot, flash>>
    PROVE  Progress'
  BY DEF Progress, ImageSectors

LEMMA FirmwareUpdateUndone ==
    ASSUME PInv, Undone, repeats' = repeats,
           NEW n \in Nodes, NEW i \in Ids, FirmwareUpdate(n, i)
    PROVE  Undone'
  <1> DEFINE new == [node |-> n, id |-> i]
  <1>1. /\ jobs' = Append(jobs, new) /\ ~Under(n) /\ devId[n] = i
        /\ UNCHANGED <<list, job, step, block, mode, devId, boot, flash>>
    BY DEF FirmwareUpdate, devices, PInv, FInv, TypeOK
  <1>2. new.node = n /\ new.id = i
    OBVIOUS
  <1>3. new \in Job /\ jobs \in Seq(Job)
    BY DEF Job, PInv, FInv, TypeOK
  <1> HIDE DEF new
  <1>4. /\ Len(jobs) \in Nat /\ DOMAIN jobs = 1..Len(jobs)
        /\ DOMAIN jobs' = 1..(Len(jobs) + 1)
        /\ \A k \in 1..Len(jobs) : jobs'[k] = jobs[k]
        /\ jobs'[Len(jobs) + 1] = new
    BY <1>1, <1>3, AppendProperties
  <1>5. job.node # n /\ \A k \in DOMAIN jobs : jobs[k].node # n
    BY <1>1 DEF Under
  <1>6. \A k \in DOMAIN jobs' : \/ k \in DOMAIN jobs /\ jobs'[k] = jobs[k]
                                \/ k = Len(jobs) + 1 /\ jobs'[k] = new
    BY <1>4
  <1>7. Queued'
    <2>1. \A k \in DOMAIN jobs' :
              devId[jobs'[k].node] = jobs'[k].id /\ jobs'[k].node # job.node
      BY <1>1, <1>2, <1>5, <1>6 DEF Undone, Queued
    <2>2. \A k, l \in DOMAIN jobs' : k # l => jobs'[k].node # jobs'[l].node
      BY <1>2, <1>5, <1>6 DEF Undone, Queued
    <2> QED
      BY <1>1, <2>1, <2>2 DEF Undone, Queued
  <1>8. Alone'
    BY <1>1 DEF Undone, Alone, InBootLoader
  <1> QED
    BY <1>1, <1>7, <1>8, ProgressKept DEF Undone

LEMMA ListUndone ==
    ASSUME PInv, Undone, Scan \/ Ping PROVE Undone'
  <1>1. UNCHANGED <<jobs, job, step, block, mode, boot, flash>>
    BY DEF Scan, Join, Ping, Drop, worker, devices
  <1>2. \A k \in DOMAIN jobs : jobs[k].node \in Nodes /\ jobs[k].id # 0
    BY QueuedNodes DEF PInv
  <1>3. step = "invoke" => job.node \in Nodes /\ job.id # 0
    BY JobNode DEF PInv, Ids
  <1>4. ASSUME NEW n \in Nodes, Join(n)
        PROVE  Alone' /\ Queued'
    <2>1. PICK i \in Ids : /\ list[i] = NoNode /\ devId[n] = 0
                           /\ mode[n] = "firmware"
                           /\ devId' = [devId EXCEPT ![n] = i]
                           /\ list' = [list EXCEPT ![i] = n]
      BY <1>4 DEF Join
    <2>2. \A m \in Nodes : m # n => devId'[m] = devId[m]
      BY <2>1 DEF PInv, FInv, TypeOK
    <2>3. devId'[n] = i /\ list'[i] = n
      BY <2>1 DEF PInv, FInv, TypeOK
    <2>4. \A m \in Nodes : m # n /\ devId[m] # 0 => list'[devId[m]] = m
      <3> SUFFICES ASSUME NEW m \in Nodes, m # n, devId[m] # 0
                   PROVE  list'[devId[m]] = m
        OBVIOUS
      <3>1. list[devId[m]] = m /\ devId[m] \in Ids /\ m # NoNode
        BY FlashAssumption DEF Undone, Alone, PInv, FInv, TypeOK
      <3>2. devId[m] # i
        BY <2>1, <3>1
      <3> QED
        BY <2>1, <3>1, <3>2 DEF PInv, FInv, TypeOK
    <2>5. Alone'
      <3>1. n \notin InBootLoader
        BY <2>1 DEF InBootLoader
      <3>2. InBootLoader' = InBootLoader
        BY <1>1 DEF InBootLoader
      <3>3. \A m \in InBootLoader' : devId'[m] = 0
        BY <2>2, <3>1, <3>2 DEF Undone, Alone, InBootLoader
      <3> QED
        BY <1>1, <2>2, <2>3, <2>4, <3>3 DEF Undone, Alone
    <2>6. Queued'
      <3>1. \A k \in DOMAIN jobs : jobs[k].node # n
        BY <1>2, <2>1 DEF Undone, Queued
      <3>2. step = "invoke" => job.node # n
        BY <1>3, <2>1 DEF Undone, Queued
      <3> QED
        BY <1>1, <1>2, <1>3, <2>2, <3>1, <3>2 DEF Undone, Queued
    <2> QED
      BY <2>5, <2>6
  <1>5. ASSUME NEW i \in Ids, Drop(i)
        PROVE  Alone' /\ Queued'
    <2>1. /\ Hearing(i) = {} /\ list' = [list EXCEPT ![i] = NoNode]
          /\ UNCHANGED devId
      BY <1>5 DEF Drop, devices
    <2>2. \A m \in Nodes : devId[m] # i
      <3> SUFFICES ASSUME NEW m \in Nodes, devId[m] = i PROVE FALSE
        OBVIOUS
      <3>1. devId[m] # 0
        BY DEF Ids
      <3>2. mode[m] = "firmware"
        BY <3>1 DEF Undone, Alone, InBootLoader
      <3> QED
        BY <2>1, <3>2 DEF Hearing
    <2>3. \A m \in Nodes : devId[m] # 0 => list'[devId[m]] = m
      BY <2>1, <2>2 DEF Undone, Alone, PInv, FInv, TypeOK
    <2>4. Alone'
      BY <1>1, <2>1, <2>3 DEF Undone, Alone, InBootLoader
    <2> QED
      BY <1>1, <2>1, <2>4 DEF Undone, Queued
  <1>6. Alone' /\ Queued'
    BY <1>4, <1>5 DEF Scan, Ping
  <1> QED
    BY <1>1, <1>6, ProgressKept DEF Undone

LEMMA InitUInv == Init => UInv
  <1> SUFFICES ASSUME Init PROVE UInv
    OBVIOUS
  <1>1. Alone
    BY DEF Init, Alone, InBootLoader, Working, Copying
  <1>2. Queued /\ Progress
    BY DEF Init, Queued, Progress, Working, Copying
  <1> QED
    BY <1>1, <1>2, InitPInv DEF UInv

LEMMA NextUInv ==
    ASSUME UInv, [Next]_vars PROVE UInv'
  <1>1. PInv'
    BY NextPInv DEF UInv
  <1>2. ASSUME Undisturbed' PROVE Undone'
    <2>1. /\ PInv /\ Undone /\ UNCHANGED <<repeats, losses, cycles>>
          /\ cycles \in Nat
      BY <1>2, StaysUndisturbed DEF UInv, PInv, Undone, FInv, TypeOK
    <2>2. CASE Worker
      BY <2>1, <2>2, TakeJobUndone, InvokeUndone, UnlockUndone,
         PrepareSectorsUndone, EraseSectorsUndone, WriteToRamUndone,
         PrepareBlockUndone, CopyRamToFlashUndone, WriteLoaderUndone,
         GoUndone DEF Worker
    <2>3. CASE Scan \/ Ping
      BY <2>1, <2>3, ListUndone
    <2>4. CASE \E n \in Nodes, i \in Ids : FirmwareUpdate(n, i)
      BY <2>1, <2>4, FirmwareUpdateUndone
    <2>5. ~\E n \in Nodes : PowerCycle(n)
      <3> SUFFICES ASSUME NEW n \in Nodes, PowerCycle(n) PROVE FALSE
        OBVIOUS
      <3>1. cycles' = cycles + 1
        BY DEF PowerCycle
      <3> QED
        BY <2>1, <3>1
    <2>6. CASE UNCHANGED vars
      <3>1. UNCHANGED <<list, jobs, job, step, block, mode, devId, boot, flash>>
        BY <2>6 DEF vars, worker, devices
      <3>2. Alone' /\ Queued'
        BY <2>1, <3>1 DEF Undone, Alone, Queued, InBootLoader
      <3> QED
        BY <2>1, <3>1, <3>2, ProgressKept DEF Undone
    <2> QED
      BY <2>2, <2>3, <2>4, <2>5, <2>6 DEF Next
  <1> QED
    BY <1>1, <1>2 DEF UInv, Undone

(* Only "erase" and "copy" write, and only to devices in the boot loader.  *)
LEMMA OnlyBootLoadersWritten ==
    ASSUME FInv, [Next]_vars, NEW n \in Nodes, flash'[n] # flash[n]
    PROVE  n \in InBootLoader /\ step \in Working
  <1>1. ASSUME NEW here, NEW takers, NEW newBoot, NEW newFlash, NEW go,
               takers \subseteq InBootLoader, here \in Working,
               IspStep(here, takers, newBoot, newFlash, go)
        PROVE  n \in InBootLoader /\ step \in Working
    <2>1. step = here /\ (Take(takers, newBoot, newFlash) \/ flash' = flash)
      BY <1>1, IspOutcome
    <2> QED
      BY <1>1, <2>1 DEF Take
  <1>2. CASE EraseSectors
    <2>1. Ready(ImageSectors) \subseteq InBootLoader /\ "erase" \in Working
      BY DEF Ready, Working
    <2> QED
      BY <1>1, <1>2, <2>1 DEF EraseSectors
  <1>3. CASE CopyRamToFlash
    <2>1. Ready({block}) \subseteq InBootLoader /\ "copy" \in Working
      BY DEF Ready, Working, Copying
    <2> QED
      BY <1>1, <1>3, <2>1 DEF CopyRamToFlash
  <1>4. CASE Unlock \/ PrepareSectors \/ WriteToRam \/ PrepareBlock \/ WriteLoader
    <2>1. {"unlock", "prepare", "ram", "select", "loader"} \subseteq Working
      BY DEF Working, Copying
    <2> QED
      BY <1>1, <1>4, <2>1
         DEF Unlock, PrepareSectors, WriteToRam, PrepareBlock, WriteLoader
  <1>5. CASE flash' = flash
    BY <1>5
  <1> QED
    BY <1>2, <1>3, <1>4, <1>5
       DEF Next, Worker, TakeJob, InvokeIsp, InvokeFails, Go, Scan, Join, Ping,
           Drop, PowerCycle, FirmwareUpdate, vars, devices

(* An update that nothing disturbs writes to the flash of no other device  *)
(* than the one it was asked for, however many updates wait and whichever  *)
(* devices join or leave the list meanwhile (server.py:161-191).           *)
THEOREM OnlyItsNodeWritten == Spec => OnlyTargetWritten
  <1>1. UInv /\ [Next]_vars =>
          [Undisturbed =>
             \A n \in Nodes : flash'[n] # flash[n] => job.node = n]_vars
    <2> SUFFICES ASSUME UInv, [Next]_vars, Undisturbed,
                        NEW n \in Nodes, flash'[n] # flash[n]
                 PROVE  job.node = n
      OBVIOUS
    <2>1. n \in InBootLoader /\ step \in Working
      BY OnlyBootLoadersWritten DEF UInv, PInv
    <2> QED
      BY <2>1, TargetOnly DEF UInv, PInv
  <1>2. UInv /\ [Next]_vars => UInv'
    BY NextUInv
  <1> QED
    BY <1>1, <1>2, InitUInv, PTL DEF Spec, OnlyTargetWritten

(* An update that ends with "Flashing done" and that nothing disturbs has  *)
(* put the whole image into its device (server.py:161-185).                *)
THEOREM DoneIsFlashed == Spec => DoneMeansFlashed
  <1>1. UInv /\ [Next]_vars =>
          [Undisturbed /\ result # "done" /\ result' = "done" =>
             \A b \in ImageSectors : flash'[job.node][b] = Image(job.node, b)]_vars
    <2> SUFFICES ASSUME UInv, [Next]_vars, Undisturbed,
                        result # "done", result' = "done"
                 PROVE  \A b \in ImageSectors :
                            flash'[job.node][b] = Image(job.node, b)
      OBVIOUS
    <2>1. CASE Go
      <3>1. step = "go" /\ flash' = flash
        BY <2>1 DEF Go
      <3> QED
        BY <3>1 DEF UInv, Progress, Working
    <2>2. CASE \/ Unlock \/ PrepareSectors \/ EraseSectors \/ WriteToRam
               \/ PrepareBlock \/ CopyRamToFlash \/ WriteLoader
      <3>1. GoOn("prepare") \/ GoOn("erase") \/ GoOn("ram") \/ GoOn("select")
            \/ GoOn("copy") \/ NextBlock \/ GoOn("go") \/ Fail
        BY <2>2 DEF Unlock, PrepareSectors, EraseSectors, WriteToRam,
                    PrepareBlock, CopyRamToFlash, WriteLoader, IspStep
      <3> QED
        BY <3>1 DEF GoOn, NextBlock, Fail
    <2>3. CASE result' \in {result, "none", "failed"}
      BY <2>3
    <2> QED
      BY <2>1, <2>2, <2>3
         DEF Next, Worker, TakeJob, InvokeIsp, InvokeFails, GoOn, Fail, Scan,
             Join, Ping, Drop, PowerCycle, FirmwareUpdate, vars, worker
  <1>2. UInv /\ [Next]_vars => UInv'
    BY NextUInv
  <1> QED
    BY <1>1, <1>2, InitUInv, PTL DEF Spec, DoneMeansFlashed

=============================================================================
