----------------------------- MODULE FlashProofs -----------------------------
(***************************************************************************)
(* Proofs about module Flash, for any devices, firmware sizes, losses and  *)
(* power cycles.                                                           *)
(*                                                                         *)
(* That the configuration sector survives is inductive together with the   *)
(* types: an image has at most Sectors - 1 blocks, so neither the sectors  *)
(* to erase nor block_num ever reach the last sector, and a device that    *)
(* listens to a job meant for another one is told the same sectors.        *)
(***************************************************************************)
EXTENDS Flash, TLAPS

FInv == TypeOK /\ ConfigSurvives

-----------------------------------------------------------------------------
LEMMA ConstantRecords ==
    /\ Nothing \in Content /\ Factory \in Content /\ Garbage \in Content
    /\ Loader \in Content /\ NewBoot \in Boot
    /\ \A n \in Nodes, b \in Sector : Image(n, b) \in Content
  BY FlashAssumption
     DEF Nothing, Factory, Garbage, Loader, Image, Content, NewBoot, Boot,
         Sector

LEMMA Sectors1 ==
    /\ 0 \in Sector \ {ConfigSector} /\ ConfigSector \in Sector
    /\ \A n \in Nodes : \A s \in 0..(Blocks[n] - 1) :
          s \in Sector \ {ConfigSector}
  BY FlashAssumption DEF Sector, ConfigSector

LEMMA FInit == Init => FInv
  <1> SUFFICES ASSUME Init PROVE FInv
    OBVIOUS
  <1>1. TypeOK
    <2>1. jobs \in Seq(Job) /\ job \in Job \cup {NoJob}
      BY DEF Init
    <2> QED
      BY <2>1, ConstantRecords, Sectors1 DEF Init, TypeOK
  <1>2. ConfigSurvives
    BY Sectors1 DEF Init, ConfigSurvives
  <1> QED
    BY <1>1, <1>2 DEF FInv

(* A step that leaves flash alone.                                         *)
LEMMA SameFlash ==
    ASSUME FInv, flash' = flash
    PROVE  /\ flash' \in [Nodes -> [Sector -> Content]]
           /\ ConfigSurvives'
  BY DEF FInv, TypeOK, ConfigSurvives

(* What the devices do that take a request.                                *)
LEMMA Taking ==
    ASSUME FInv, NEW takers, NEW newBoot, NEW newFlash,
           \A n \in Nodes : newBoot[n] \in Boot,
           \A n \in Nodes : /\ newFlash[n] \in [Sector -> Content]
                            /\ newFlash[n][ConfigSector]
                                  = flash[n][ConfigSector],
           Take(takers, newBoot, newFlash)
    PROVE  /\ boot' \in [Nodes -> Boot]
           /\ flash' \in [Nodes -> [Sector -> Content]]
           /\ ConfigSurvives'
  BY DEF Take, FInv, TypeOK, ConfigSurvives

LEMMA Writing ==
    ASSUME FInv, NEW takers, NEW newBoot, NEW newFlash, NEW ok,
           \A n \in Nodes : newBoot[n] \in Boot,
           \A n \in Nodes : /\ newFlash[n] \in [Sector -> Content]
                            /\ newFlash[n][ConfigSector]
                                  = flash[n][ConfigSector],
           Write(takers, newBoot, newFlash, ok)
    PROVE  /\ boot' \in [Nodes -> Boot]
           /\ flash' \in [Nodes -> [Sector -> Content]]
           /\ ConfigSurvives'
           /\ losses' \in Nat
  <1>1. losses' \in Nat
    BY DEF Write, FInv, TypeOK
  <1>2. CASE Take(takers, newBoot, newFlash)
    BY <1>1, <1>2, Taking
  <1>3. CASE UNCHANGED <<boot, flash>>
    BY <1>1, <1>3 DEF FInv, TypeOK, ConfigSurvives
  <1> QED
    BY <1>2, <1>3 DEF Write

Steps == {"idle", "invoke", "unlock", "prepare", "erase", "ram", "select",
          "copy", "loader", "go"}

Wrote ==
    /\ boot' \in [Nodes -> Boot]
    /\ flash' \in [Nodes -> [Sector -> Content]]
    /\ ConfigSurvives'
    /\ losses' \in Nat

Went ==
    /\ job' \in Job \cup {NoJob} /\ step' \in Steps
    /\ step' # "idle" => job' \in Job
    /\ block' \in Sector \ {ConfigSector}
    /\ result' \in {"none", "done", "failed"}

LEMMA Going ==
    ASSUME FInv, job \in Job, NEW there \in Steps, GoOn(there) \/ Fail
    PROVE  Went
  BY DEF GoOn, Fail, Went, Steps, FInv, TypeOK

LEMMA NextBlockGoes ==
    ASSUME FInv, job \in Job, NextBlock \/ Fail PROVE Went
  <1>1. CASE Fail
    BY <1>1, Going DEF Steps
  <1>2. CASE NextBlock
    <2>1. CASE block + 1 < Blocks[job.node]
      <3>1. job.node \in Nodes
        BY DEF Job
      <3>2. block + 1 \in 0..(Blocks[job.node] - 1)
        BY <2>1, <3>1, FlashAssumption DEF FInv, TypeOK, Sector
      <3>3. block + 1 \in Sector \ {ConfigSector}
        BY <3>1, <3>2, Sectors1
      <3> QED
        BY <1>2, <2>1, <3>3 DEF NextBlock, Went, Steps, FInv, TypeOK
    <2>2. CASE ~(block + 1 < Blocks[job.node])
      BY <1>2, <2>2, Going DEF NextBlock, Steps
    <2> QED
      BY <2>1, <2>2
  <1> QED
    BY <1>1, <1>2

LEMMA IspStepKeeps ==
    ASSUME FInv, Wrote, Went,
           UNCHANGED <<list, jobs, mode, devId, asked, repeats, cycles>>
    PROVE  FInv'
  BY DEF FInv, TypeOK, Wrote, Went, Steps

(* The sectors of a job are sectors of the firmware.                       *)
LEMMA ImageFits ==
    ASSUME job \in Job
    PROVE  /\ ImageSectors \subseteq Sector /\ ConfigSector \notin ImageSectors
  BY Sectors1 DEF ImageSectors, Job

LEMMA UnlockStep ==
    ASSUME FInv, Unlock PROVE FInv'
  <1> DEFINE newBoot == [n \in Nodes |-> [boot[n] EXCEPT !.unlocked = TRUE]]
             newFlash == flash
  <1>1. job \in Job
    BY DEF Unlock, IspStep, FInv, TypeOK
  <1>2. \A n \in Nodes : newBoot[n] \in Boot
    BY DEF FInv, TypeOK, Boot
  <1>3. \A n \in Nodes : /\ newFlash[n] \in [Sector -> Content]
                         /\ newFlash[n][ConfigSector]
                               = flash[n][ConfigSector]
    BY DEF FInv, TypeOK, ConfigSurvives
  <1> HIDE DEF newBoot, newFlash
  <1>4. \E ok \in BOOLEAN : Write(InBootLoader, newBoot, newFlash, ok)
    BY DEF Unlock, IspStep, newBoot, newFlash
  <1>5. Wrote
    BY <1>2, <1>3, <1>4, Writing DEF Wrote
  <1>6. GoOn("prepare") \/ Fail
    BY DEF Unlock, IspStep
  <1>7. Went
    BY <1>1, <1>6, Going DEF Steps
  <1> QED
    BY <1>5, <1>7, IspStepKeeps DEF Unlock, IspStep

LEMMA PrepareSectorsStep ==
    ASSUME FInv, PrepareSectors PROVE FInv'
  <1> DEFINE newBoot == [n \in Nodes |->
                           [boot[n] EXCEPT !.prepared = ImageSectors]]
             newFlash == flash
  <1>1. job \in Job
    BY DEF PrepareSectors, IspStep, FInv, TypeOK
  <1>2. \A n \in Nodes : newBoot[n] \in Boot
    BY <1>1, ImageFits DEF FInv, TypeOK, Boot
  <1>3. \A n \in Nodes : /\ newFlash[n] \in [Sector -> Content]
                         /\ newFlash[n][ConfigSector]
                               = flash[n][ConfigSector]
    BY DEF FInv, TypeOK, ConfigSurvives
  <1> HIDE DEF newBoot, newFlash
  <1>4. \E ok \in BOOLEAN : Write(InBootLoader, newBoot, newFlash, ok)
    BY DEF PrepareSectors, IspStep, newBoot, newFlash
  <1>5. Wrote
    BY <1>2, <1>3, <1>4, Writing DEF Wrote
  <1>6. GoOn("erase") \/ Fail
    BY DEF PrepareSectors, IspStep
  <1>7. Went
    BY <1>1, <1>6, Going DEF Steps
  <1> QED
    BY <1>5, <1>7, IspStepKeeps DEF PrepareSectors, IspStep

LEMMA EraseSectorsStep ==
    ASSUME FInv, EraseSectors PROVE FInv'
  <1> DEFINE newBoot == [n \in Nodes |-> [boot[n] EXCEPT !.prepared = {}]]
             newFlash == [n \in Nodes |->
                            [s \in Sector |-> IF s \in ImageSectors
                                              THEN Nothing ELSE flash[n][s]]]
  <1>1. job \in Job
    BY DEF EraseSectors, IspStep, FInv, TypeOK
  <1>2. \A n \in Nodes : newBoot[n] \in Boot
    BY DEF FInv, TypeOK, Boot
  <1>3. \A n \in Nodes : /\ newFlash[n] \in [Sector -> Content]
                         /\ newFlash[n][ConfigSector]
                               = flash[n][ConfigSector]
    BY <1>1, ImageFits, Sectors1, ConstantRecords DEF FInv, TypeOK
  <1> HIDE DEF newBoot, newFlash
  <1>4. \E ok \in BOOLEAN : Write(Ready(ImageSectors), newBoot, newFlash, ok)
    BY DEF EraseSectors, IspStep, newBoot, newFlash
  <1>5. Wrote
    BY <1>2, <1>3, <1>4, Writing DEF Wrote
  <1>6. GoOn("ram") \/ Fail
    BY DEF EraseSectors, IspStep
  <1>7. Went
    BY <1>1, <1>6, Going DEF Steps
  <1> QED
    BY <1>5, <1>7, IspStepKeeps DEF EraseSectors, IspStep

LEMMA WriteToRamStep ==
    ASSUME FInv, WriteToRam PROVE FInv'
  <1> DEFINE newBoot == [n \in Nodes |->
                           [boot[n] EXCEPT !.ram = Image(job.node, block)]]
             newFlash == flash
  <1>1. job \in Job
    BY DEF WriteToRam, IspStep, FInv, TypeOK
  <1>2. \A n \in Nodes : newBoot[n] \in Boot
    <2>1. Image(job.node, block) \in Content
      BY <1>1, ConstantRecords DEF FInv, TypeOK, Job
    <2> QED
      BY <2>1 DEF FInv, TypeOK, Boot
  <1>3. \A n \in Nodes : /\ newFlash[n] \in [Sector -> Content]
                         /\ newFlash[n][ConfigSector]
                               = flash[n][ConfigSector]
    BY DEF FInv, TypeOK, ConfigSurvives
  <1> HIDE DEF newBoot, newFlash
  <1>4. \E ok \in BOOLEAN : Write(InBootLoader, newBoot, newFlash, ok)
    BY DEF WriteToRam, IspStep, newBoot, newFlash
  <1>5. Wrote
    BY <1>2, <1>3, <1>4, Writing DEF Wrote
  <1>6. GoOn("select") \/ Fail
    BY DEF WriteToRam, IspStep
  <1>7. Went
    BY <1>1, <1>6, Going DEF Steps
  <1> QED
    BY <1>5, <1>7, IspStepKeeps DEF WriteToRam, IspStep

LEMMA PrepareBlockStep ==
    ASSUME FInv, PrepareBlock PROVE FInv'
  <1> DEFINE newBoot == [n \in Nodes |-> [boot[n] EXCEPT !.prepared = {block}]]
             newFlash == flash
  <1>1. job \in Job
    BY DEF PrepareBlock, IspStep, FInv, TypeOK
  <1>2. \A n \in Nodes : newBoot[n] \in Boot
    BY DEF FInv, TypeOK, Boot
  <1>3. \A n \in Nodes : /\ newFlash[n] \in [Sector -> Content]
                         /\ newFlash[n][ConfigSector]
                               = flash[n][ConfigSector]
    BY DEF FInv, TypeOK, ConfigSurvives
  <1> HIDE DEF newBoot, newFlash
  <1>4. \E ok \in BOOLEAN : Write(InBootLoader, newBoot, newFlash, ok)
    BY DEF PrepareBlock, IspStep, newBoot, newFlash
  <1>5. Wrote
    BY <1>2, <1>3, <1>4, Writing DEF Wrote
  <1>6. GoOn("copy") \/ Fail
    BY DEF PrepareBlock, IspStep
  <1>7. Went
    BY <1>1, <1>6, Going DEF Steps
  <1> QED
    BY <1>5, <1>7, IspStepKeeps DEF PrepareBlock, IspStep

LEMMA CopyRamToFlashStep ==
    ASSUME FInv, CopyRamToFlash PROVE FInv'
  <1> DEFINE newBoot == [n \in Nodes |-> [boot[n] EXCEPT !.prepared = {}]]
             newFlash == [n \in Nodes |->
                            [flash[n] EXCEPT ![block] =
                               IF @ = Nothing THEN boot[n].ram ELSE Garbage]]
  <1>1. job \in Job
    BY DEF CopyRamToFlash, IspStep, FInv, TypeOK
  <1>2. \A n \in Nodes : newBoot[n] \in Boot
    BY DEF FInv, TypeOK, Boot
  <1>3. \A n \in Nodes : /\ newFlash[n] \in [Sector -> Content]
                         /\ newFlash[n][ConfigSector]
                               = flash[n][ConfigSector]
    <2>1. block \in Sector /\ block # ConfigSector
      BY DEF FInv, TypeOK
    <2>2. \A n \in Nodes : boot[n].ram \in Content
      BY DEF FInv, TypeOK, Boot
    <2> QED
      BY <2>1, <2>2, Sectors1, ConstantRecords DEF FInv, TypeOK
  <1> HIDE DEF newBoot, newFlash
  <1>4. \E ok \in BOOLEAN : Write(Ready({block}), newBoot, newFlash, ok)
    BY DEF CopyRamToFlash, IspStep, newBoot, newFlash
  <1>5. Wrote
    BY <1>2, <1>3, <1>4, Writing DEF Wrote
  <1>6. NextBlock \/ Fail
    BY DEF CopyRamToFlash, IspStep
  <1>7. Went
    BY <1>1, <1>6, NextBlockGoes
  <1> QED
    BY <1>5, <1>7, IspStepKeeps DEF CopyRamToFlash, IspStep

LEMMA WriteLoaderStep ==
    ASSUME FInv, WriteLoader PROVE FInv'
  <1> DEFINE newBoot == [n \in Nodes |->
                           [boot[n] EXCEPT !.unlocked = TRUE, !.ram = Loader]]
             newFlash == flash
  <1>1. job \in Job
    BY DEF WriteLoader, IspStep, FInv, TypeOK
  <1>2. \A n \in Nodes : newBoot[n] \in Boot
    BY ConstantRecords DEF FInv, TypeOK, Boot
  <1>3. \A n \in Nodes : /\ newFlash[n] \in [Sector -> Content]
                         /\ newFlash[n][ConfigSector]
                               = flash[n][ConfigSector]
    BY DEF FInv, TypeOK, ConfigSurvives
  <1> HIDE DEF newBoot, newFlash
  <1>4. \E ok \in BOOLEAN : Write(InBootLoader, newBoot, newFlash, ok)
    BY DEF WriteLoader, IspStep, newBoot, newFlash
  <1>5. Wrote
    BY <1>2, <1>3, <1>4, Writing DEF Wrote
  <1>6. GoOn("go") \/ Fail
    BY DEF WriteLoader, IspStep
  <1>7. Went
    BY <1>1, <1>6, Going DEF Steps
  <1> QED
    BY <1>5, <1>7, IspStepKeeps DEF WriteLoader, IspStep

-----------------------------------------------------------------------------
(* The steps that restart devices, and those of the server.                *)
Modes == {"firmware", "bootloader", "crashed"}

LEMMA Restarting ==
    ASSUME FInv, NEW ns, Restart(ns)
    PROVE  /\ mode' \in [Nodes -> Modes] /\ devId' \in [Nodes -> {0} \cup Ids]
           /\ boot' \in [Nodes -> Boot]
  <1>1. \A n \in Nodes : Started(n) \in Modes
    BY DEF Started, Modes
  <1> QED
    BY <1>1, ConstantRecords DEF Restart, Modes, FInv, TypeOK

LEMMA GoStep ==
    ASSUME FInv, Go PROVE FInv'
  <1>1. job \in Job
    BY DEF Go, FInv, TypeOK
  <1>2. /\ mode' \in [Nodes -> Modes] /\ devId' \in [Nodes -> {0} \cup Ids]
        /\ boot' \in [Nodes -> Boot]
    <2>1. CASE Restart(Runnable)
      BY <2>1, Restarting
    <2>2. CASE UNCHANGED <<mode, devId, boot>>
      BY <2>2 DEF Modes, FInv, TypeOK
    <2> QED
      BY <2>1, <2>2 DEF Go
  <1>3. losses' \in Nat
    BY DEF Go, FInv, TypeOK
  <1>4. Went
    BY DEF Go, Done, Fail, Went, Steps, FInv, TypeOK
  <1>5. flash' = flash /\ UNCHANGED <<list, jobs, asked, repeats, cycles>>
    BY DEF Go
  <1> QED
    BY <1>2, <1>3, <1>4, <1>5, SameFlash DEF FInv, TypeOK, Went, Steps, Modes

LEMMA InvokeStep ==
    ASSUME FInv, InvokeIsp \/ InvokeFails PROVE FInv'
  <1>1. job \in Job
    BY DEF InvokeIsp, InvokeFails, FInv, TypeOK
  <1>2. /\ mode' \in [Nodes -> Modes] /\ devId' \in [Nodes -> {0} \cup Ids]
        /\ boot' \in [Nodes -> Boot]
    <2>1. CASE Enter(Hearing(job.id))
      BY <2>1, ConstantRecords DEF Enter, Modes, FInv, TypeOK
    <2>2. CASE UNCHANGED <<mode, devId, boot>>
      BY <2>2 DEF Modes, FInv, TypeOK
    <2> QED
      BY <2>1, <2>2 DEF InvokeIsp, InvokeFails, devices
  <1>3. losses' \in Nat
    BY DEF InvokeIsp, InvokeFails, bounds, FInv, TypeOK
  <1>4. Went
    BY <1>1, Going DEF InvokeIsp, InvokeFails, Steps
  <1>5. flash' = flash /\ UNCHANGED <<list, jobs, asked, repeats, cycles>>
    BY DEF InvokeIsp, InvokeFails, devices, bounds
  <1> QED
    BY <1>2, <1>3, <1>4, <1>5, SameFlash DEF FInv, TypeOK, Went, Steps, Modes

LEMMA ServerStep ==
    ASSUME FInv,
           \/ \E n \in Nodes : Join(n) \/ PowerCycle(n)
           \/ \E i \in Ids : Drop(i)
    PROVE  FInv'
  <1>1. /\ mode' \in [Nodes -> Modes] /\ devId' \in [Nodes -> {0} \cup Ids]
        /\ boot' \in [Nodes -> Boot]
    <2>1. CASE \E n \in Nodes : PowerCycle(n)
      BY <2>1, Restarting DEF PowerCycle
    <2>2. CASE \E n \in Nodes : Join(n)
      BY <2>2 DEF Join, Modes, FInv, TypeOK
    <2>3. CASE \E i \in Ids : Drop(i)
      BY <2>3 DEF Drop, devices, Modes, FInv, TypeOK
    <2> QED
      BY <2>1, <2>2, <2>3
  <1>2. list' \in [Ids -> Nodes \cup {NoNode}]
    <2>0. list \in [Ids -> Nodes \cup {NoNode}]
      BY DEF FInv, TypeOK
    <2>1. CASE \E n \in Nodes : PowerCycle(n)
      BY <2>0, <2>1 DEF PowerCycle
    <2>2. CASE \E n \in Nodes : Join(n)
      BY <2>0, <2>2 DEF Join
    <2>3. CASE \E i \in Ids : Drop(i)
      BY <2>0, <2>3 DEF Drop
    <2> QED
      BY <2>1, <2>2, <2>3
  <1>3. flash' = flash /\ UNCHANGED <<jobs, job, step, block, result>>
    BY DEF Join, PowerCycle, Drop, devices, worker
  <1>4. asked' \in Nat /\ repeats' \in Nat /\ losses' \in Nat
        /\ cycles' \in Nat
    <2>1. CASE \E n \in Nodes : PowerCycle(n)
      BY <2>1 DEF PowerCycle, FInv, TypeOK
    <2>2. CASE UNCHANGED bounds
      BY <2>2 DEF bounds, FInv, TypeOK
    <2> QED
      BY <2>1, <2>2 DEF Join, Drop
  <1> QED
    BY <1>1, <1>2, <1>3, <1>4, SameFlash DEF FInv, TypeOK, Modes

LEMMA QueueStep ==
    ASSUME FInv, \/ TakeJob
                 \/ \E n \in Nodes, i \in Ids : FirmwareUpdate(n, i)
    PROVE  FInv'
  <1>1. UNCHANGED <<mode, devId, boot>> /\ flash' = flash /\ list' = list
    BY DEF TakeJob, FirmwareUpdate, devices
  <1>2. asked' \in Nat /\ repeats' \in Nat /\ losses' \in Nat
        /\ cycles' \in Nat
    <2>1. CASE UNCHANGED bounds
      BY <2>1 DEF bounds, FInv, TypeOK
    <2>2. CASE \E n \in Nodes, i \in Ids : FirmwareUpdate(n, i)
      BY <2>2 DEF FirmwareUpdate, FInv, TypeOK
    <2> QED
      BY <2>1, <2>2 DEF TakeJob
  <1>3. jobs' \in Seq(Job) /\ Went
    <2>1. CASE TakeJob
      <3>1. Head(jobs) \in Job /\ Tail(jobs) \in Seq(Job)
        BY <2>1 DEF TakeJob, FInv, TypeOK
      <3> QED
        BY <2>1, <3>1, Sectors1 DEF TakeJob, Went, Steps
    <2>2. CASE \E n \in Nodes, i \in Ids : FirmwareUpdate(n, i)
      <3>1. PICK n \in Nodes, i \in Ids : FirmwareUpdate(n, i)
        BY <2>2
      <3>2. [node |-> n, id |-> i] \in Job
        BY DEF Job
      <3> HIDE DEF Job
      <3>3. jobs' \in Seq(Job)
        BY <3>1, <3>2 DEF FirmwareUpdate, FInv, TypeOK
      <3> QED
        BY <3>1, <3>3 DEF FirmwareUpdate, Went, Steps, FInv, TypeOK
    <2> QED
      BY <2>1, <2>2
  <1> QED
    BY <1>1, <1>2, <1>3, SameFlash DEF FInv, TypeOK, Went, Steps

-----------------------------------------------------------------------------
(* The invariant, and what follows from it.                                *)
LEMMA FNext ==
    ASSUME FInv, [Next]_vars PROVE FInv'
  <1>1. CASE Worker
    BY <1>1, QueueStep, InvokeStep, UnlockStep, PrepareSectorsStep,
       EraseSectorsStep, WriteToRamStep, PrepareBlockStep,
       CopyRamToFlashStep, WriteLoaderStep, GoStep DEF Worker
  <1>2. CASE Scan \/ Ping
    BY <1>2, ServerStep DEF Scan, Ping
  <1>3. CASE \E n \in Nodes :
                PowerCycle(n) \/ \E i \in Ids : FirmwareUpdate(n, i)
    BY <1>3, ServerStep, QueueStep
  <1>4. CASE UNCHANGED vars
    <2>1. /\ UNCHANGED <<list, jobs, job, step, block, result>>
          /\ UNCHANGED <<mode, devId, boot, asked, repeats, losses, cycles>>
          /\ flash' = flash
      BY <1>4 DEF vars, worker, devices, bounds
    <2> QED
      BY <2>1, SameFlash DEF FInv, TypeOK
  <1> QED
    BY <1>1, <1>2, <1>3, <1>4 DEF Next

(* The worker, the devices and their flash stay in FInv.                   *)
THEOREM FlashInvariance == Spec => []FInv
  <1>1. FInv /\ [Next]_vars => FInv'
    BY FNext
  <1> QED
    BY <1>1, FInit, PTL DEF Spec

(* The worker, its queue and the devices stay well typed; block_num never  *)
(* reaches the last sector (server.py:161-191, can_isp.py:309-373).        *)
THEOREM FlashTypeCorrect == Spec => []TypeOK
  BY FlashInvariance, PTL DEF FInv

(* No update, failed update or power cycle changes the configuration       *)
(* sector of any device (can_isp.py:309-427).                              *)
THEOREM ConfigIsSafe == Spec => []ConfigSurvives
  BY FlashInvariance, PTL DEF FInv

=============================================================================
