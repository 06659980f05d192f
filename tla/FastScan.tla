------------------------------ MODULE FastScan -------------------------------
(***************************************************************************)
(* How LxaNetwork (lxa_iobus/network.py) finds nodes that have no node id  *)
(* yet and gives them one: lss_fast_scan with lss_request, the bit by bit  *)
(* search of _fast_scan, its three stages in fast_scan_known_range_all,    *)
(* and the cache of addresses seen before.                                 *)
(*                                                                         *)
(* An LSS address has parts 0..Last (vendor, product, revision, serial) of *)
(* bits 0..High; a part is the set of its bits that are one, so |= 1 << b  *)
(* adds b and ^ is the symmetric difference.                               *)
(*                                                                         *)
(* The LSS slaves in the nodes are external: they behave as CiA 305 says   *)
(* and as the requests of this code rely on.  All replies to fast scan     *)
(* requests look alike and the master does not look at them.               *)
(***************************************************************************)
EXTENDS Integers

CONSTANTS
    Last,       \* index of the last part of an address (3)
    High,       \* highest bit of a part (31)
    Addresses,  \* the addresses of the nodes that may be on the bus
    Cached,     \* lss_address_cache as load_lss_address_cache leaves it
    RangeMask,  \* the bits searched in the stage "range"
    Buses,      \* what the bus may be like (see bus)
    MaxUnplugs  \* bound: how often a node goes off the bus

Parts == 0..Last
Bits == 0..High
Address == [Parts -> SUBSET Bits]

ASSUME ParametersAssumption ==
    /\ Last \in Nat \ {0} /\ High \in Nat
    /\ Addresses \subseteq Address
    /\ Cached \subseteq Address
    /\ RangeMask \in Address
    /\ Buses \subseteq {"good", "lossy", "late"}
    /\ MaxUnplugs \in Nat

VARIABLES
    phase,    \* the request lss_fast_scan makes next
    stage,    \* which search of fast_scan_known_range_all is running
    lss,      \* the address as found so far (start, then lss_id)
    mask,     \* the bits to test
    sub, bit, \* lss_sub and bit_checked of the next request
    cache,    \* lss_address_cache
    lssState, \* lss_state, shown by the REST interface
    mode,     \* mode[n]: LSS mode of node n, or "off" the bus
    hasId,    \* nodes that have a node id
    pos,      \* pos[n]: the part of its address node n compares next
    late,     \* nodes whose reply is still under way
    bus,      \* "good", "lossy": requests and replies may vanish, or
              \* "late": replies may come after their time-out
    unplugs   \* history: how often a node went off the bus

master == <<phase, stage, lss, mask, sub, bit, cache, lssState>>
slaves == <<mode, hasId, pos>>
vars   == <<master, slaves, late, bus, unplugs>>

MayLose == bus = "lossy"
MayBeLate == bus = "late"

-----------------------------------------------------------------------------
(* The search space of each stage.                                         *)

Zero == [p \in Parts |-> {}]

(* Mutant: the default mask has one bit too many.                          *)
AllBitsAndOneMore == [p \in Parts |-> 0..(High + 1)]

AllBits == [p \in Parts |-> Bits]
Xor(a, b) == (a \ b) \cup (b \ a)

(* create_mask_from_list: the bits in which two known addresses differ,    *)
(* and the value of all others in the first of them.                       *)
KnownMask(known) ==
    [p \in Parts |-> UNION {Xor(a[p], b[p]) : a \in known, b \in known}]
KnownBits(known) ==
    LET first == CHOOSE a \in known : TRUE
    IN  [p \in Parts |-> first[p] \ KnownMask(known)[p]]

Init ==
    /\ phase = "enter" /\ stage = "all"
    /\ lss = Zero /\ mask = AllBits /\ sub = 0 /\ bit = 0
    /\ cache = Cached
    /\ lssState = "scanning"
    /\ mode \in [Addresses -> {"off", "waiting", "configuration"}]
    /\ hasId \in SUBSET {n \in Addresses : mode[n] # "off"}
    /\ pos = [n \in Addresses |-> 0]
    /\ late = {}
    /\ bus \in Buses
    /\ unplugs = 0

-----------------------------------------------------------------------------
(* The LSS slaves.                                                         *)

Configuring == {n \in Addresses : mode[n] = "configuration"}
Unconfigured == {n \in Addresses : mode[n] = "waiting" /\ n \notin hasId}

(* Fast scan: a node without a node id answers if it is at part s and the  *)
(* bits of that part from b upwards are those of id.  Having matched it    *)
(* whole it moves on to part next, or enters configuration mode.           *)
Matching(id, b, s) ==
    {n \in Unconfigured :
        pos[n] = s /\ \A i \in Bits : i >= b => (i \in n[s] <=> i \in id)}

SlavesScan(id, b, s, next) ==
    LET matching == Matching(id, b, s) IN
    /\ pos' = [n \in Addresses |->
                  IF n \in matching /\ b = 0 THEN next ELSE pos[n]]
    /\ mode' = [n \in Addresses |->
                  IF n \in matching /\ b = 0 /\ next < s
                     THEN "configuration" ELSE mode[n]]
    /\ UNCHANGED hasId

(* bit_checked 0x80: every node without a node id starts over.             *)
SlavesReset ==
    /\ pos' = [n \in Addresses |-> IF n \in Unconfigured THEN 0 ELSE pos[n]]
    /\ UNCHANGED <<mode, hasId>>

SlavesSwitch(from, to) ==
    /\ mode' = [n \in Addresses |-> IF mode[n] = from THEN to ELSE mode[n]]
    /\ UNCHANGED <<hasId, pos>>

SlavesSetId(ids) ==
    /\ hasId' = ids
    /\ UNCHANGED <<mode, pos>>

-----------------------------------------------------------------------------
(* lss_request: send, and wait for a reply until the time-out.  Whatever   *)
(* reply arrives meanwhile answers the request.  Either the request        *)
(* reaches the slaves and those in repliers reply, or it is lost.          *)

Arrive(air, yes) ==
    \E arrived \in SUBSET air :
        /\ yes <=> arrived # {}
        /\ late' \in SUBSET (air \ arrived)
        /\ ~MayLose => late' = air \ arrived
        /\ ~MayBeLate => late' = {}

LssRequest(repliers, effect, yes) ==
    \/ effect /\ Arrive(late \cup repliers, yes)
    \/ MayLose /\ UNCHANGED slaves /\ Arrive(late, yes)

(* fast_scan_request for a presence check and for a part of an address.    *)
AskPresent(yes) == LssRequest(Unconfigured, SlavesReset, yes)

AskPart(b, next, yes) ==
    LssRequest(Matching(lss[sub], b, sub),
               SlavesScan(lss[sub], b, sub, next), yes)

-----------------------------------------------------------------------------
(* lss_fast_scan begins by taking all node ids away, whatever an earlier   *)
(* run of the program has left behind.                                     *)

SwitchAllToConfiguration ==
    /\ phase = "enter" /\ phase' = "invalidate"
    /\ \E yes \in BOOLEAN :
          LssRequest({}, SlavesSwitch("waiting", "configuration"), yes)
    /\ UNCHANGED <<stage, lss, mask, sub, bit, cache, lssState, unplugs>>

InvalidateNodeIds ==
    /\ phase = "invalidate" /\ phase' = "leave"
    /\ \E yes \in BOOLEAN :
          LssRequest(Configuring, SlavesSetId(hasId \ Configuring), yes)
    /\ UNCHANGED <<stage, lss, mask, sub, bit, cache, lssState, unplugs>>

(* Mutant: nodes are left in configuration mode.                           *)
StayInConfiguration ==
    /\ phase \in {"leave", "operate"} /\ phase' = "present"
    /\ UNCHANGED <<slaves, stage, lss, mask, sub, bit, cache, lssState>>
    /\ UNCHANGED <<late, unplugs>>

SwitchAllToOperation ==
    /\ phase \in {"leave", "operate"} /\ phase' = "present"
    /\ \E yes \in BOOLEAN :
          LssRequest({}, SlavesSwitch("configuration", "waiting"), yes)
    /\ UNCHANGED <<stage, lss, mask, sub, bit, cache, lssState, unplugs>>

-----------------------------------------------------------------------------
(* fast_scan_known_range_all and _fast_scan.                               *)

StartStage(s, start, m) ==
    /\ stage' = s /\ phase' = "reset"
    /\ lss' = start /\ mask' = m
    /\ UNCHANGED <<sub, bit>>

StartRange == StartStage("range", Zero, RangeMask)

(* Mutant: a node that is not in the searched range ends the whole scan.   *)
FirstFailureEndsScan ==
    /\ phase' = "present"
    /\ UNCHANGED <<stage, lss, mask, sub, bit>>

(* _fast_scan returns None: the next stage takes over, after the last one  *)
(* the whole scan returns None and lss_fast_scan tries again.              *)
StageFails ==
    \/ stage = "known" /\ StartRange
    \/ stage = "range" /\ StartStage("all", Zero, AllBits)
    \/ /\ stage = "all" /\ phase' = "present"
       /\ UNCHANGED <<stage, lss, mask, sub, bit>>

(* The next bit of part s that is in the mask and below b, in descending   *)
(* order, or the request that closes the part.                             *)
GoTo(s, b) ==
    LET todo == {i \in mask[s] : i < b} IN
    /\ sub' = s
    /\ \/ /\ todo # {} /\ phase' = "bit"
          /\ \E i \in todo : bit' = i /\ \A j \in todo : j <= i
       \/ /\ todo = {} /\ bit' = 0
          /\ phase' = IF s = Last THEN "final" ELSE "next"

CheckPresent ==
    /\ phase = "present"
    /\ \E yes \in BOOLEAN :
          /\ AskPresent(yes)
          /\ lssState' = IF yes THEN "scanning" ELSE "idle"
          /\ \/ ~yes /\ UNCHANGED <<phase, stage, lss, mask, sub, bit>>
             \/ yes /\ cache = {} /\ StartRange
             \/ /\ yes /\ cache # {}
                /\ StartStage("known", KnownBits(cache), KnownMask(cache))
    /\ UNCHANGED <<cache, unplugs>>

(* Mutant: the slaves are not reset between two searches.                  *)
ScanWithoutReset ==
    /\ phase = "reset"
    /\ GoTo(0, High + 1)
    /\ UNCHANGED <<stage, lss, mask, slaves, late, cache, lssState, unplugs>>

ResetScan ==
    /\ phase = "reset"
    /\ \E yes \in BOOLEAN :
          /\ AskPresent(yes)
          /\ \/ ~yes /\ StageFails
             \/ yes /\ GoTo(0, High + 1) /\ UNCHANGED <<stage, lss, mask>>
    /\ UNCHANGED <<cache, lssState, unplugs>>

(* A bit that no node confirms as zero is one.                             *)
TestBit ==
    /\ phase = "bit"
    /\ \E yes \in BOOLEAN :
          /\ AskPart(bit, sub, yes)
          /\ lss' = IF yes THEN lss ELSE [lss EXCEPT ![sub] = @ \cup {bit}]
    /\ GoTo(sub, bit)
    /\ UNCHANGED <<stage, mask, cache, lssState, unplugs>>

NextPart ==
    /\ phase = "next"
    /\ \E yes \in BOOLEAN :
          /\ AskPart(0, sub + 1, yes)
          /\ \/ ~yes /\ StageFails
             \/ /\ yes /\ GoTo(sub + 1, High + 1)
                /\ UNCHANGED <<stage, lss, mask>>
    /\ UNCHANGED <<cache, lssState, unplugs>>

(* Mutant: the selection is not confirmed.                                 *)
SelectUnconfirmed ==
    /\ phase = "final" /\ phase' = "found"
    /\ \E yes \in BOOLEAN : AskPart(0, 0, yes)
    /\ UNCHANGED <<stage, lss, mask, sub, bit, cache, lssState, unplugs>>

FinalSelect ==
    /\ phase = "final"
    /\ \E yes \in BOOLEAN :
          /\ AskPart(0, 0, yes)
          /\ \/ ~yes /\ StageFails
             \/ /\ yes /\ phase' = "found"
                /\ UNCHANGED <<stage, lss, mask, sub, bit>>
    /\ UNCHANGED <<cache, lssState, unplugs>>

(* The address found goes to the cache, and every node in configuration    *)
(* mode takes the new node id; whether one confirms it is only logged.     *)
ConfigureNodeId ==
    /\ phase = "found" /\ phase' = "operate"
    /\ cache' = cache \cup {lss}
    /\ \E yes \in BOOLEAN :
          LssRequest(Configuring, SlavesSetId(hasId \cup Configuring), yes)
    /\ UNCHANGED <<stage, lss, mask, sub, bit, lssState, unplugs>>

-----------------------------------------------------------------------------
(* Nodes come and go at any moment.                                        *)

Plug(n) ==
    /\ mode[n] = "off"
    /\ mode' = [mode EXCEPT ![n] = "waiting"]
    /\ pos' = [pos EXCEPT ![n] = 0]
    /\ UNCHANGED <<master, hasId, late, unplugs>>

Unplug(n) ==
    /\ mode[n] # "off" /\ unplugs < MaxUnplugs
    /\ mode' = [mode EXCEPT ![n] = "off"]
    /\ hasId' = hasId \ {n}
    /\ unplugs' = unplugs + 1
    /\ UNCHANGED <<master, pos, late>>

Scan ==
    \/ SwitchAllToConfiguration \/ InvalidateNodeIds \/ SwitchAllToOperation
    \/ CheckPresent \/ ResetScan \/ TestBit \/ NextPart \/ FinalSelect
    \/ ConfigureNodeId

Next ==
    /\ Scan \/ \E n \in Addresses : Plug(n) \/ Unplug(n)
    /\ UNCHANGED bus

Spec == Init /\ [][Next]_vars

(* The scan task is a coroutine whose every await ends by a time-out.      *)
FairSpec == Spec /\ WF_vars(Scan /\ UNCHANGED bus)

-----------------------------------------------------------------------------
TypeOK ==
    /\ phase \in {"enter", "invalidate", "leave", "present", "reset", "bit",
                  "next", "final", "found", "operate"}
    /\ stage \in {"known", "range", "all"}
    /\ lss \in Address /\ mask \in Address
    /\ sub \in Parts /\ bit \in Bits
    /\ cache \subseteq Address
    /\ lssState \in {"idle", "scanning"}
    /\ mode \in [Addresses -> {"off", "waiting", "configuration"}]
    /\ hasId \subseteq Addresses
    /\ pos \in [Addresses -> Parts]
    /\ late \subseteq Addresses
    /\ bus \in Buses
    /\ unplugs \in Nat

(* An address that a scan returns is the address of a node on the bus,     *)
(* which is now in configuration mode, whatever frames were lost and       *)
(* whoever came or went during the scan, unless replies come late          *)
(* (docstring of _fast_scan, network.py:317-329).                          *)
FoundIsSelected ==
    [][~MayBeLate /\ phase # "found" /\ phase' = "found"
         => lss' \in Addresses /\ mode'[lss'] = "configuration"]_vars

(* On a good bus the node id goes to no other node than the one found      *)
(* (lss_fast_scan, network.py:474-486).                                    *)
OnlyFoundTakesId ==
    bus = "good" /\ phase = "found" => Configuring \subseteq {lss}

(* A full scan that has begun finds a node: on a good bus it never ends    *)
(* with None while all nodes stay (_fast_scan, network.py:343-377).        *)
FullScanFinds ==
    [][bus = "good" /\ unplugs = 0 /\ stage = "all" /\ phase' = "present"
         => phase \notin {"reset", "bit", "next", "final"}]_vars

(* On a good bus every node that stays gets a node id, whoever else comes  *)
(* and goes (lss_fast_scan, network.py:450-508).                           *)
EveryNodeGetsId ==
    \A n \in Addresses :
        bus = "good" /\ mode[n] = "waiting" ~> n \in hasId \/ mode[n] = "off"

=============================================================================
