--------------------------- MODULE FastScanProofs ----------------------------
(***************************************************************************)
(* Proofs about FastScan for addresses of any number of parts and bits,    *)
(* any nodes and any cache: its type invariant; that a scan never returns  *)
(* the address of a node that is not there, frames lost or not, as long as *)
(* no reply comes late; and, on a good bus, that no other node than the    *)
(* one found takes the node id and that a full scan never fails.           *)
(***************************************************************************)
EXTENDS FastScan, TLAPS

Searching == phase \in {"bit", "next", "final"}

(* Which request is due tells how far the search is.                       *)
Progress ==
    /\ phase \in {"next", "final"} => bit = 0
    /\ phase = "next" => sub # Last
    /\ phase = "final" => sub = Last

(* A node that has moved on to part k has the parts before k that the      *)
(* master has found, and no node is ahead of the master.                   *)
Agreement ==
    Searching =>
        \A n \in Unconfigured :
            /\ pos[n] <= sub
            /\ \A p \in Parts : p < pos[n] => n[p] = lss[p]

Prompt == ~MayBeLate => late = {}

SInv == TypeOK /\ Progress /\ Prompt /\ (~MayBeLate => Agreement)

-----------------------------------------------------------------------------
LEMMA PartsAndBits ==
    /\ 0 \in Parts /\ Last \in Parts /\ 0 \in Bits
    /\ Parts \subseteq Nat /\ Bits \subseteq Nat
    /\ \A s \in Parts : s # Last => s + 1 \in Parts
BY ParametersAssumption DEF Parts, Bits

(* Every search space is an address and a mask.                            *)
LEMMA SearchSpaces ==
    /\ Zero \in Address
    /\ AllBits \in Address
    /\ RangeMask \in Address
BY ParametersAssumption DEF Zero, AllBits, Address

LEMMA KnownSearchSpace ==
    ASSUME NEW known, known \subseteq Address, known # {}
    PROVE  KnownBits(known) \in Address /\ KnownMask(known) \in Address
<1>1. \A a \in known, b \in known, p \in Parts : Xor(a[p], b[p]) \subseteq Bits
  BY DEF Xor, Address
<1>2. KnownMask(known) \in Address
  BY <1>1 DEF KnownMask, Address
<1>3. (CHOOSE a \in known : TRUE) \in known
  OBVIOUS
<1>4. KnownBits(known) \in Address
  BY <1>3 DEF KnownBits, Address
<1> QED BY <1>2, <1>4

(* What may happen to the slaves and to the replies under way.             *)
SlavesOK ==
    /\ mode \in [Addresses -> {"off", "waiting", "configuration"}]
    /\ hasId \subseteq Addresses
    /\ pos \in [Addresses -> Parts]
    /\ late \subseteq Addresses
    /\ Prompt

LEMMA ArriveLate ==
    ASSUME NEW air, air \subseteq Addresses, NEW yes, Arrive(air, yes),
           UNCHANGED bus
    PROVE  late' \subseteq Addresses /\ Prompt'
BY DEF Arrive, Prompt, MayBeLate

(* A node that matches from bit 0 upwards matches the whole part.          *)
LEMMA MatchWhole ==
    ASSUME NEW a \in Address, NEW s \in Parts, NEW n \in Matching(a[s], 0, s)
    PROVE  pos[n] = s /\ n[s] = a[s]
<1>1. n \in Address
  BY ParametersAssumption DEF Matching, Unconfigured
<1>2. n[s] \subseteq Bits /\ a[s] \subseteq Bits
  BY <1>1 DEF Address
<1>3. \A i \in Bits : i \in n[s] <=> i \in a[s]
  BY PartsAndBits DEF Matching, Bits
<1> QED BY <1>2, <1>3 DEF Matching

LEMMA AskPresentStep ==
    ASSUME SInv, UNCHANGED bus, NEW yes \in BOOLEAN, AskPresent(yes)
    PROVE  /\ SlavesOK'
           /\ UNCHANGED <<mode, hasId>>
           /\ ~MayBeLate /\ yes => \A n \in Unconfigured : pos'[n] = 0
<1>1. late' \subseteq Addresses /\ Prompt'
  BY ArriveLate DEF SInv, TypeOK, AskPresent, LssRequest, Unconfigured
<1>2. SlavesReset \/ UNCHANGED slaves
  BY DEF AskPresent, LssRequest
<1>3. mode' = mode /\ hasId' = hasId /\ pos' \in [Addresses -> Parts]
  BY <1>2, PartsAndBits DEF SInv, TypeOK, SlavesReset, slaves
<1>4. ASSUME ~MayBeLate, yes PROVE \A n \in Unconfigured : pos'[n] = 0
  <2>1. late = {}
    BY <1>4 DEF SInv, Prompt
  <2>2. SlavesReset
    BY <1>4, <2>1 DEF AskPresent, LssRequest, Arrive
  <2> QED BY <2>2 DEF SlavesReset, Unconfigured
<1> QED BY <1>1, <1>3, <1>4 DEF SInv, TypeOK, SlavesOK

LEMMA AskPartStep ==
    ASSUME SInv, NEW b \in Bits, NEW next \in Parts, NEW yes \in BOOLEAN,
           AskPart(b, next, yes), UNCHANGED bus
    PROVE  /\ SlavesOK'
           /\ Unconfigured' \subseteq Unconfigured
           /\ \A n \in Unconfigured :
                 \/ pos'[n] = pos[n]
                 \/ /\ pos'[n] = next /\ b = 0
                    /\ n \in Matching(lss[sub], b, sub)
           /\ ~MayBeLate /\ yes =>
                 /\ Matching(lss[sub], b, sub) # {}
                 /\ SlavesScan(lss[sub], b, sub, next)
<1> DEFINE matching == Matching(lss[sub], b, sub)
           effect == SlavesScan(lss[sub], b, sub, next)
<1>1. matching \subseteq Unconfigured /\ Unconfigured \subseteq Addresses
  BY DEF Matching, Unconfigured
<1>2. late' \subseteq Addresses /\ Prompt'
  <2>1. late \subseteq Addresses /\ late \cup matching \subseteq Addresses
    BY <1>1 DEF SInv, TypeOK
  <2>2. Arrive(late \cup matching, yes) \/ Arrive(late, yes)
    BY DEF AskPart, LssRequest
  <2> HIDE DEF matching
  <2> QED BY <2>1, <2>2, ArriveLate
<1>3. effect \/ UNCHANGED slaves
  BY DEF AskPart, LssRequest
<1> DEFINE typed == /\ mode' \in [Addresses -> {"off", "waiting", "configuration"}]
                    /\ hasId' = hasId
                    /\ pos' \in [Addresses -> Parts]
           moved == \A n \in Unconfigured :
                       \/ pos'[n] = pos[n]
                       \/ pos'[n] = next /\ b = 0 /\ n \in matching
<1>4. ASSUME effect PROVE typed /\ Unconfigured' \subseteq Unconfigured /\ moved
  <2>1. typed
    BY <1>4 DEF SInv, TypeOK, SlavesScan
  <2>2. \A n \in Addresses : mode'[n] = mode[n] \/ mode'[n] = "configuration"
    BY <1>4 DEF SInv, TypeOK, SlavesScan
  <2>3. Unconfigured' \subseteq Unconfigured
    BY <2>1, <2>2 DEF Unconfigured
  <2>4. moved
    BY <1>1, <1>4 DEF SlavesScan
  <2> QED BY <2>1, <2>3, <2>4
<1>5. ASSUME UNCHANGED slaves
      PROVE  typed /\ Unconfigured' \subseteq Unconfigured /\ moved
  BY <1>5 DEF SInv, TypeOK, slaves, Unconfigured
<1>6. ASSUME ~MayBeLate, yes PROVE matching # {} /\ effect
  <2>1. late = {}
    BY <1>6 DEF SInv, Prompt
  <2> QED BY <1>6, <2>1 DEF AskPart, LssRequest, Arrive
<1>7. SlavesOK'
  BY <1>2, <1>3, <1>4, <1>5 DEF SInv, TypeOK, SlavesOK
<1> HIDE DEF effect
<1> QED BY <1>3, <1>4, <1>5, <1>6, <1>7 DEF effect

-----------------------------------------------------------------------------
(* The master's own state after it has moved to the next request.          *)

MasterOK ==
    /\ phase \in {"enter", "invalidate", "leave", "present", "reset", "bit",
                  "next", "final", "found", "operate"}
    /\ stage \in {"known", "range", "all"}
    /\ lss \in Address /\ mask \in Address
    /\ sub \in Parts /\ bit \in Bits
    /\ Progress

LEMMA GoToStep ==
    ASSUME TypeOK, NEW s \in Parts, NEW b, GoTo(s, b)
    PROVE  /\ sub' = s /\ bit' \in Bits
           /\ phase' \in {"bit", "next", "final"}
           /\ Progress'
<1>1. mask[s] \subseteq Bits
  BY DEF TypeOK, Address
<1> QED BY <1>1, PartsAndBits DEF GoTo, Progress

LEMMA StageFailsStep ==
    ASSUME TypeOK, StageFails
    PROVE  MasterOK' /\ ~Searching' /\ phase' # "found"
BY SearchSpaces
DEF TypeOK, StageFails, StartRange, StartStage, MasterOK, Searching, Progress

(* The parts of the invariant put together.                                *)
LEMMA Together ==
    ASSUME SlavesOK', MasterOK', cache' \subseteq Address,
           lssState' \in {"idle", "scanning"}, unplugs' \in Nat,
           UNCHANGED bus, bus \in Buses,
           ~MayBeLate => Agreement'
    PROVE  SInv'
BY DEF SlavesOK, MasterOK, SInv, TypeOK, MayBeLate

-----------------------------------------------------------------------------
LEMMA InitSInv == Init => SInv
<1> SUFFICES ASSUME Init PROVE SInv
  OBVIOUS
<1>1. TypeOK
  BY SearchSpaces, PartsAndBits, ParametersAssumption DEF Init, TypeOK
<1> QED BY <1>1 DEF Init, SInv, Progress, Prompt, Agreement, Searching

(* The requests outside the search.                                        *)
LEMMA OtherRequestsSInv ==
    ASSUME SInv, UNCHANGED bus,
           \/ SwitchAllToConfiguration \/ InvalidateNodeIds
           \/ SwitchAllToOperation \/ ConfigureNodeId
    PROVE  SInv' /\ phase' # "found"
<1> DEFINE switched == \E a, b \in {"waiting", "configuration"} : SlavesSwitch(a, b)
           named == \E ids \in SUBSET Addresses : SlavesSetId(ids)
<1>1. Configuring \subseteq Addresses /\ late \subseteq Addresses
  BY DEF Configuring, SInv, TypeOK
<1>2. PICK r \in {{}, Configuring}, yes \in BOOLEAN :
        Arrive(late \cup r, yes)
  <2>1. late \cup {} = late
    OBVIOUS
  <2> QED
    BY <2>1 DEF SwitchAllToConfiguration, InvalidateNodeIds,
                SwitchAllToOperation, ConfigureNodeId, LssRequest
<1>3. late' \subseteq Addresses /\ Prompt'
  BY <1>1, <1>2, ArriveLate
<1>4. switched \/ named \/ UNCHANGED slaves
  BY <1>1 DEF SwitchAllToConfiguration, InvalidateNodeIds, SInv, TypeOK,
              SwitchAllToOperation, ConfigureNodeId, LssRequest
<1>5. SlavesOK'
  <2>1. CASE switched
    BY <1>3, <2>1 DEF SInv, TypeOK, SlavesOK, SlavesSwitch
  <2>2. CASE named
    BY <1>3, <2>2 DEF SInv, TypeOK, SlavesOK, SlavesSetId
  <2>3. CASE UNCHANGED slaves
    BY <1>3, <2>3 DEF SInv, TypeOK, SlavesOK, slaves
  <2> QED BY <1>4, <2>1, <2>2, <2>3
<1>6. /\ phase' \in {"invalidate", "leave", "present", "operate"}
      /\ UNCHANGED <<stage, lss, mask, sub, bit, lssState, unplugs>>
      /\ cache' \in {cache, cache \cup {lss}}
  BY DEF SwitchAllToConfiguration, InvalidateNodeIds, SwitchAllToOperation,
         ConfigureNodeId
<1>7. MasterOK' /\ ~Searching' /\ phase' # "found"
  BY <1>6 DEF SInv, TypeOK, MasterOK, Searching, Progress
<1>8. cache' \subseteq Address
  BY <1>6 DEF SInv, TypeOK
<1> QED BY <1>5, <1>6, <1>7, <1>8, Together DEF SInv, TypeOK, Agreement

LEMMA CheckPresentSInv ==
    ASSUME SInv, UNCHANGED bus, CheckPresent
    PROVE  SInv' /\ phase' # "found"
<1>1. PICK yes \in BOOLEAN :
        /\ AskPresent(yes)
        /\ lssState' = IF yes THEN "scanning" ELSE "idle"
        /\ \/ ~yes /\ UNCHANGED <<phase, stage, lss, mask, sub, bit>>
           \/ yes /\ cache = {} /\ StartRange
           \/ /\ yes /\ cache # {}
              /\ StartStage("known", KnownBits(cache), KnownMask(cache))
  BY DEF CheckPresent
<1>2. SlavesOK'
  BY <1>1, AskPresentStep
<1>3. MasterOK' /\ ~Searching' /\ phase' # "found"
  <2>1. CASE UNCHANGED <<phase, stage, lss, mask, sub, bit>>
    BY <2>1 DEF CheckPresent, SInv, TypeOK, MasterOK, Searching, Progress
  <2>2. CASE StartRange
    BY <2>2, SearchSpaces
    DEF StartRange, StartStage, SInv, TypeOK, MasterOK, Searching, Progress
  <2>3. CASE cache # {} /\ StartStage("known", KnownBits(cache), KnownMask(cache))
    <3>1. KnownBits(cache) \in Address /\ KnownMask(cache) \in Address
      BY <2>3, KnownSearchSpace DEF SInv, TypeOK
    <3> QED BY <2>3, <3>1
            DEF StartStage, SInv, TypeOK, MasterOK, Searching, Progress
  <2> QED BY <1>1, <2>1, <2>2, <2>3
<1>4. cache' = cache /\ unplugs' = unplugs /\ lssState' \in {"idle", "scanning"}
  BY <1>1 DEF CheckPresent
<1> QED BY <1>2, <1>3, <1>4, Together DEF SInv, TypeOK, Agreement

LEMMA ResetScanSInv ==
    ASSUME SInv, UNCHANGED bus, ResetScan
    PROVE  SInv' /\ phase' # "found"
<1>1. PICK yes \in BOOLEAN :
        /\ AskPresent(yes)
        /\ \/ ~yes /\ StageFails
           \/ yes /\ GoTo(0, High + 1) /\ UNCHANGED <<stage, lss, mask>>
  BY DEF ResetScan
<1>2. /\ SlavesOK' /\ UNCHANGED <<mode, hasId>>
      /\ ~MayBeLate /\ yes => \A n \in Unconfigured : pos'[n] = 0
  BY <1>1, AskPresentStep
<1>3. UNCHANGED <<cache, lssState, unplugs>>
  BY DEF ResetScan
<1>4. CASE StageFails
  BY <1>2, <1>3, <1>4, StageFailsStep, Together DEF SInv, TypeOK, Agreement
<1>5. CASE yes /\ GoTo(0, High + 1) /\ UNCHANGED <<stage, lss, mask>>
  <2>1. /\ sub' = 0 /\ bit' \in Bits /\ Progress'
        /\ phase' \in {"bit", "next", "final"}
    BY <1>5, GoToStep, PartsAndBits DEF SInv
  <2>2. MasterOK'
    BY <1>5, <2>1, PartsAndBits DEF SInv, TypeOK, MasterOK
  <2>3. Unconfigured' = Unconfigured
    BY <1>2 DEF Unconfigured
  <2>4. ~MayBeLate => Agreement'
    BY <1>2, <1>5, <2>1, <2>3, PartsAndBits DEF Agreement, Parts
  <2> QED BY <1>2, <1>3, <2>1, <2>2, <2>4, Together DEF SInv, TypeOK
<1> QED BY <1>1, <1>4, <1>5

LEMMA TestBitSInv ==
    ASSUME SInv, UNCHANGED bus, TestBit
    PROVE  SInv' /\ phase' # "found"
<1>1. PICK yes \in BOOLEAN :
        /\ AskPart(bit, sub, yes)
        /\ lss' = IF yes THEN lss ELSE [lss EXCEPT ![sub] = @ \cup {bit}]
  BY DEF TestBit
<1>2. /\ SlavesOK' /\ Unconfigured' \subseteq Unconfigured
      /\ \A n \in Unconfigured :
            \/ pos'[n] = pos[n]
            \/ pos'[n] = sub /\ n \in Matching(lss[sub], bit, sub)
  BY <1>1, AskPartStep DEF SInv, TypeOK
<1>3. /\ phase = "bit" /\ GoTo(sub, bit)
      /\ UNCHANGED <<stage, mask, cache, lssState, unplugs>>
  BY DEF TestBit
<1>4. /\ sub' = sub /\ bit' \in Bits /\ Progress'
      /\ phase' \in {"bit", "next", "final"}
  BY <1>3, GoToStep DEF SInv, TypeOK
<1>5. lss' \in Address /\ \A p \in Parts : p # sub => lss'[p] = lss[p]
  BY <1>1 DEF SInv, TypeOK, Address
<1>6. MasterOK'
  BY <1>3, <1>4, <1>5 DEF SInv, TypeOK, MasterOK
<1>7. \A n \in Unconfigured : pos'[n] = pos[n]
  BY <1>2 DEF Matching
<1>8. ASSUME ~MayBeLate PROVE Agreement'
  <2>1. \A n \in Unconfigured :
          pos[n] <= sub /\ \A p \in Parts : p < pos[n] => n[p] = lss[p]
    BY <1>3, <1>8 DEF SInv, Agreement, Searching
  <2>2. \A n \in Unconfigured : \A p \in Parts : p < pos[n] => p # sub
    <3> SUFFICES ASSUME NEW n \in Unconfigured, NEW p \in Parts, p < pos[n]
                 PROVE  p # sub
      OBVIOUS
    <3>1. pos[n] \in Nat /\ sub \in Nat /\ p \in Nat
      BY PartsAndBits DEF SInv, TypeOK, Unconfigured
    <3> QED BY <2>1, <3>1
  <2>3. \A n \in Unconfigured :
          pos'[n] <= sub' /\ \A p \in Parts : p < pos'[n] => n[p] = lss'[p]
    BY <1>4, <1>5, <1>7, <2>1, <2>2
  <2> QED BY <1>2, <2>3 DEF Agreement
<1> QED BY <1>2, <1>3, <1>4, <1>6, <1>8, Together DEF SInv, TypeOK

LEMMA NextPartSInv ==
    ASSUME SInv, UNCHANGED bus, NextPart
    PROVE  SInv' /\ phase' # "found"
<1>1. PICK yes \in BOOLEAN :
        /\ AskPart(0, sub + 1, yes)
        /\ \/ ~yes /\ StageFails
           \/ /\ yes /\ GoTo(sub + 1, High + 1)
              /\ UNCHANGED <<stage, lss, mask>>
  BY DEF NextPart
<1>2. sub \in Parts /\ sub + 1 \in Parts /\ sub \in Nat
  BY PartsAndBits DEF NextPart, SInv, TypeOK, Progress
<1>3. /\ SlavesOK' /\ Unconfigured' \subseteq Unconfigured
      /\ \A n \in Unconfigured :
            \/ pos'[n] = pos[n]
            \/ pos'[n] = sub + 1 /\ n \in Matching(lss[sub], 0, sub)
  BY <1>1, <1>2, AskPartStep, PartsAndBits
<1>4. UNCHANGED <<cache, lssState, unplugs>> /\ phase = "next"
  BY DEF NextPart
<1>5. CASE StageFails
  BY <1>3, <1>4, <1>5, StageFailsStep, Together DEF SInv, TypeOK, Agreement
<1>6. CASE GoTo(sub + 1, High + 1) /\ UNCHANGED <<stage, lss, mask>>
  <2>1. /\ sub' = sub + 1 /\ bit' \in Bits /\ Progress'
        /\ phase' \in {"bit", "next", "final"}
    BY <1>2, <1>6, GoToStep DEF SInv
  <2>2. MasterOK'
    BY <1>2, <1>6, <2>1 DEF SInv, TypeOK, MasterOK
  <2>3. ASSUME ~MayBeLate PROVE Agreement'
    <3>1. SUFFICES ASSUME NEW n \in Unconfigured
                   PROVE  /\ pos'[n] <= sub + 1
                          /\ \A p \in Parts : p < pos'[n] => n[p] = lss[p]
      BY <1>3, <1>6, <2>1 DEF Agreement
    <3>2. /\ pos[n] <= sub /\ pos[n] \in Nat
          /\ \A p \in Parts : p < pos[n] => n[p] = lss[p]
      BY <1>4, <2>3, PartsAndBits
      DEF SInv, TypeOK, Agreement, Searching, Unconfigured
    <3>3. CASE pos'[n] = pos[n]
      BY <1>2, <3>2, <3>3
    <3>4. CASE pos'[n] = sub + 1 /\ n \in Matching(lss[sub], 0, sub)
      <4>1. pos[n] = sub /\ n[sub] = lss[sub]
        BY <1>2, <3>4, MatchWhole DEF SInv, TypeOK
      <4>2. \A p \in Parts : p < sub + 1 => p < sub \/ p = sub
        BY <1>2, PartsAndBits
      <4>3. pos'[n] <= sub + 1
        BY <1>2, <3>4
      <4>4. \A p \in Parts : p < pos'[n] => n[p] = lss[p]
        BY <3>2, <3>4, <4>1, <4>2
      <4> QED BY <4>3, <4>4
    <3> QED BY <1>3, <3>3, <3>4
  <2> QED BY <1>3, <1>4, <2>1, <2>2, <2>3, Together DEF SInv, TypeOK
<1> QED BY <1>1, <1>5, <1>6

(* By Agreement, a node that confirms the last part has the whole address. *)
LEMMA FoundIsMatched ==
    ASSUME SInv, ~MayBeLate, phase = "final",
           NEW n \in Matching(lss[sub], 0, sub)
    PROVE  n = lss
<1>1. sub = Last /\ n \in Unconfigured
  BY DEF SInv, Progress, Matching
<1>2. n \in Address /\ lss \in Address
  BY <1>1, ParametersAssumption DEF Unconfigured, SInv, TypeOK
<1>3. pos[n] = Last /\ n[Last] = lss[Last]
  BY <1>1, MatchWhole, PartsAndBits DEF SInv, TypeOK
<1>4. \A p \in Parts : p < Last => n[p] = lss[p]
  BY <1>1, <1>3 DEF SInv, Agreement, Searching
<1>5. \A p \in Parts : p = Last \/ p < Last
  BY ParametersAssumption DEF Parts
<1>6. \A p \in Parts : n[p] = lss[p]
  BY <1>3, <1>4, <1>5
<1> QED BY <1>2, <1>6 DEF Address

(* The step that returns an address: some node has confirmed the last part *)
(* and, by Agreement, all parts before it, so the address is its own.      *)
LEMMA FinalSelectSInv ==
    ASSUME SInv, UNCHANGED bus, FinalSelect
    PROVE  /\ SInv'
           /\ ~MayBeLate /\ phase' = "found"
                => lss' \in Addresses /\ mode'[lss'] = "configuration"
<1>1. PICK yes \in BOOLEAN :
        /\ AskPart(0, 0, yes)
        /\ \/ ~yes /\ StageFails
           \/ /\ yes /\ phase' = "found"
              /\ UNCHANGED <<stage, lss, mask, sub, bit>>
  BY DEF FinalSelect
<1>2. /\ SlavesOK'
      /\ ~MayBeLate /\ yes => /\ Matching(lss[sub], 0, sub) # {}
                              /\ SlavesScan(lss[sub], 0, sub, 0)
  BY <1>1, AskPartStep, PartsAndBits
<1>3. UNCHANGED <<cache, lssState, unplugs>> /\ phase = "final" /\ sub = Last
  BY DEF FinalSelect, SInv, Progress
<1>4. CASE StageFails
  BY <1>2, <1>3, <1>4, StageFailsStep, Together DEF SInv, TypeOK, Agreement
<1>5. CASE yes /\ phase' = "found" /\ UNCHANGED <<stage, lss, mask, sub, bit>>
  <2>1. SInv'
    <3>1. MasterOK' /\ ~Searching'
      BY <1>5 DEF SInv, TypeOK, MasterOK, Progress, Searching
    <3> QED BY <1>2, <1>3, <1>5, <3>1, Together DEF SInv, TypeOK, Agreement
  <2>2. ASSUME ~MayBeLate
        PROVE  lss' \in Addresses /\ mode'[lss'] = "configuration"
    <3>1. PICK n \in Unconfigured : n \in Matching(lss[sub], 0, sub)
      BY <1>2, <1>5, <2>2 DEF Matching
    <3>2. n \in Addresses
      BY <3>1 DEF Unconfigured
    <3>3. n = lss
      BY <1>3, <2>2, <3>1, FoundIsMatched
    <3>4. mode'[n] = "configuration"
      BY <1>2, <1>3, <1>5, <2>2, <3>1, <3>2, ParametersAssumption
      DEF SlavesScan
    <3> QED BY <1>5, <3>2, <3>3, <3>4
  <2> QED BY <2>1, <2>2
<1> QED
  <2>1. StageFails => phase' # "found"
    BY StageFailsStep DEF SInv
  <2> QED BY <1>1, <1>4, <1>5, <2>1

LEMMA PlugSInv ==
    ASSUME SInv, UNCHANGED bus, NEW n \in Addresses, Plug(n) \/ Unplug(n)
    PROVE  SInv' /\ phase' = phase
<1>1. CASE Plug(n)
  <2>1. SlavesOK'
    BY <1>1, PartsAndBits DEF Plug, SInv, TypeOK, SlavesOK, Prompt,
                    MayBeLate
  <2>2. MasterOK' /\ UNCHANGED <<cache, lssState, unplugs>>
    BY <1>1 DEF Plug, SInv, TypeOK, MasterOK, master, Progress
  <2>3. ASSUME ~MayBeLate PROVE Agreement'
    <3>1. \A m \in Unconfigured' : m # n => m \in Unconfigured /\ pos'[m] = pos[m]
      BY <1>1 DEF Plug, Unconfigured, SInv, TypeOK
    <3>2. pos'[n] = 0
      BY <1>1 DEF Plug, SInv, TypeOK
    <3>3. UNCHANGED <<lss, sub, phase>>
      BY <1>1 DEF Plug, master
    <3>4. 0 <= sub /\ \A p \in Parts : ~(p < 0)
      BY PartsAndBits DEF SInv, TypeOK, Parts
    <3> QED BY <2>3, <3>1, <3>2, <3>3, <3>4 DEF SInv, Agreement, Searching
  <2> QED BY <1>1, <2>1, <2>2, <2>3, Together DEF SInv, TypeOK, Plug, master
<1>2. CASE Unplug(n)
  <2>1. SlavesOK'
    BY <1>2 DEF Unplug, SInv, TypeOK, SlavesOK, Prompt,
                    MayBeLate
  <2>2. MasterOK' /\ UNCHANGED <<cache, lssState>> /\ unplugs' \in Nat
    BY <1>2 DEF Unplug, SInv, TypeOK, MasterOK, master, Progress
  <2>3. Unconfigured' \subseteq Unconfigured
    BY <1>2 DEF Unplug, Unconfigured, SInv, TypeOK
  <2>4. ~MayBeLate => Agreement'
    BY <1>2, <2>3 DEF SInv, Agreement, Searching, Unplug, master
  <2> QED BY <1>2, <2>1, <2>2, <2>4, Together DEF SInv, TypeOK, Unplug, master
<1> QED BY <1>1, <1>2

-----------------------------------------------------------------------------
FoundStep ==
    ~MayBeLate /\ phase # "found" /\ phase' = "found"
        => lss' \in Addresses /\ mode'[lss'] = "configuration"

LEMMA NextSInv ==
    SInv /\ [Next]_vars => SInv' /\ FoundStep
<1> SUFFICES ASSUME SInv, [Next]_vars
             PROVE  SInv' /\ FoundStep
  OBVIOUS
<1>0. UNCHANGED bus
  BY DEF Next, vars
<1>1. CASE \/ SwitchAllToConfiguration \/ InvalidateNodeIds
           \/ SwitchAllToOperation \/ ConfigureNodeId
  BY <1>0, <1>1, OtherRequestsSInv DEF FoundStep
<1>2. CASE CheckPresent \/ ResetScan \/ TestBit \/ NextPart
  BY <1>0, <1>2, CheckPresentSInv, ResetScanSInv, TestBitSInv, NextPartSInv
  DEF FoundStep
<1>3. CASE FinalSelect
  BY <1>0, <1>3, FinalSelectSInv DEF FoundStep
<1>4. CASE \E n \in Addresses : Plug(n) \/ Unplug(n)
  BY <1>0, <1>4, PlugSInv DEF FoundStep
<1>5. CASE UNCHANGED vars
  BY <1>5 DEF vars, master, slaves, SInv, TypeOK, Progress, Prompt, Agreement,
              Searching, Unconfigured, FoundStep, MayBeLate
<1> QED BY <1>1, <1>2, <1>3, <1>4, <1>5 DEF Next, Scan

THEOREM ScanInvariance == Spec => []SInv
<1>1. SInv /\ [Next]_vars => SInv'
  BY NextSInv
<1> QED BY InitSInv, <1>1, PTL DEF Spec

(* Every variable keeps its type; in particular the search never leaves    *)
(* the parts of an address or the bits of a part.                          *)
THEOREM ScanTypeCorrect == Spec => []TypeOK
<1>1. SInv => TypeOK
  BY DEF SInv
<1> QED BY <1>1, ScanInvariance, PTL

(* If no reply is late, _fast_scan never returns an address that is not    *)
(* that of a node on the bus, whatever is lost and whoever comes or goes   *)
(* during the scan, and leaves that node in configuration mode.            *)
THEOREM ScanIsSound == Spec => FoundIsSelected
<1>1. SInv /\ [Next]_vars => FoundStep
  BY NextSInv
<1>2. SInv /\ [Next]_vars => [FoundStep]_vars
  BY <1>1
<1>3. Spec => [][FoundStep]_vars
  BY <1>2, ScanInvariance, PTL DEF Spec
<1> QED BY <1>3 DEF FoundIsSelected, FoundStep

-----------------------------------------------------------------------------
(* On a good bus every request takes effect and every reply arrives in     *)
(* time, so the answer tells exactly whether some node replied.            *)
LEMMA GoodArrive ==
    ASSUME SInv, bus = "good", NEW repliers, NEW yes \in BOOLEAN,
           Arrive(late \cup repliers, yes)
    PROVE  yes <=> repliers # {}
BY DEF SInv, Prompt, MayBeLate, MayLose, Arrive

LEMMA GoodPresent ==
    ASSUME SInv, bus = "good", NEW yes \in BOOLEAN, AskPresent(yes)
    PROVE  SlavesReset /\ (yes <=> Unconfigured # {})
BY GoodArrive DEF AskPresent, LssRequest, MayLose

LEMMA GoodPart ==
    ASSUME SInv, bus = "good", NEW b, NEW next, NEW yes \in BOOLEAN,
           AskPart(b, next, yes)
    PROVE  /\ SlavesScan(lss[sub], b, sub, next)
           /\ yes <=> Matching(lss[sub], b, sub) # {}
BY GoodArrive DEF AskPart, LssRequest, MayLose

(* A part that is asked for without going back selects nobody.             *)
LEMMA NoSelection ==
    ASSUME SInv, NEW b, NEW next, ~(next < sub),
           SlavesScan(lss[sub], b, sub, next)
    PROVE  mode' = mode /\ hasId' = hasId
BY DEF SInv, TypeOK, SlavesScan

-----------------------------------------------------------------------------
(* During a search no node is in configuration mode, and then only the one *)
(* whose address was found.                                                *)
Exact ==
    /\ phase \in {"present", "reset"} \/ Searching => Configuring = {}
    /\ OnlyFoundTakesId

LEMMA RequestsExact ==
    ASSUME SInv, bus = "good", Exact, UNCHANGED bus,
           \/ SwitchAllToConfiguration \/ InvalidateNodeIds
           \/ SwitchAllToOperation \/ ConfigureNodeId
    PROVE  Exact'
<1>1. CASE SwitchAllToConfiguration \/ InvalidateNodeIds \/ ConfigureNodeId
  <2>1. phase' \in {"invalidate", "leave", "operate"}
    BY <1>1 DEF SwitchAllToConfiguration, InvalidateNodeIds, ConfigureNodeId
  <2> QED BY <2>1 DEF Exact, OnlyFoundTakesId, Searching
<1>2. CASE SwitchAllToOperation
  <2>1. phase' = "present" /\ SlavesSwitch("configuration", "waiting")
    BY <1>2 DEF SwitchAllToOperation, LssRequest, MayLose
  <2>2. Configuring' = {}
    BY <2>1 DEF SlavesSwitch, Configuring
  <2> QED BY <2>1, <2>2 DEF Exact, OnlyFoundTakesId
<1> QED BY <1>1, <1>2

LEMMA SearchExact ==
    ASSUME SInv, bus = "good", Exact, UNCHANGED bus,
           CheckPresent \/ ResetScan \/ TestBit \/ NextPart
    PROVE  Exact'
<1>1. phase' # "found"
  BY CheckPresentSInv, ResetScanSInv, TestBitSInv, NextPartSInv
<1>2. Configuring = {}
  BY DEF Exact, CheckPresent, ResetScan, TestBit, NextPart, Searching
<1>3. mode' = mode
  <2>1. CASE CheckPresent \/ ResetScan
    BY <2>1, AskPresentStep DEF CheckPresent, ResetScan
  <2>2. CASE TestBit
    <3>1. SlavesScan(lss[sub], bit, sub, sub)
      BY <2>2, GoodPart DEF TestBit
    <3>2. ~(sub < sub)
      BY PartsAndBits DEF SInv, TypeOK
    <3> QED BY <3>1, <3>2, NoSelection
  <2>3. CASE NextPart
    <3>1. SlavesScan(lss[sub], 0, sub, sub + 1)
      BY <2>3, GoodPart DEF NextPart
    <3>2. ~(sub + 1 < sub)
      BY PartsAndBits DEF SInv, TypeOK
    <3> QED BY <3>1, <3>2, NoSelection
  <2> QED BY <2>1, <2>2, <2>3
<1> QED BY <1>1, <1>2, <1>3 DEF Exact, OnlyFoundTakesId, Configuring

LEMMA FinalSelectExact ==
    ASSUME SInv, bus = "good", Exact, UNCHANGED bus, FinalSelect
    PROVE  Exact'
<1>1. PICK yes \in BOOLEAN :
        /\ AskPart(0, 0, yes)
        /\ \/ ~yes /\ StageFails
           \/ /\ yes /\ phase' = "found"
              /\ UNCHANGED <<stage, lss, mask, sub, bit>>
  BY DEF FinalSelect
<1>2. /\ SlavesScan(lss[sub], 0, sub, 0)
      /\ yes <=> Matching(lss[sub], 0, sub) # {}
  BY <1>1, GoodPart
<1>3. Configuring = {} /\ phase = "final"
  BY DEF Exact, FinalSelect, Searching
<1>4. Configuring' \subseteq Configuring \cup Matching(lss[sub], 0, sub)
  BY <1>2 DEF Configuring, SlavesScan
<1>5. CASE ~yes /\ StageFails
  <2>1. Configuring' = {}
    BY <1>2, <1>3, <1>4, <1>5
  <2>2. phase' # "found"
    BY <1>5, StageFailsStep DEF SInv
  <2> QED BY <2>1, <2>2 DEF Exact, OnlyFoundTakesId
<1>6. CASE yes /\ phase' = "found" /\ UNCHANGED <<stage, lss, mask, sub, bit>>
  <2>1. \A n \in Matching(lss[sub], 0, sub) : n = lss
    BY <1>3, FoundIsMatched DEF MayBeLate
  <2>2. Configuring' \subseteq {lss'}
    BY <1>3, <1>4, <1>6, <2>1
  <2> QED BY <1>6, <2>2 DEF Exact, OnlyFoundTakesId, Searching
<1> QED BY <1>1, <1>5, <1>6

LEMMA ExactStep ==
    ASSUME SInv, bus = "good", Exact, [Next]_vars
    PROVE  Exact'
<1>0. UNCHANGED bus
  BY DEF Next, vars
<1>1. CASE \E n \in Addresses : Plug(n) \/ Unplug(n)
  <2>1. Configuring' \subseteq Configuring /\ UNCHANGED master
    BY <1>1 DEF Plug, Unplug, Configuring, SInv, TypeOK
  <2> QED BY <2>1 DEF Exact, OnlyFoundTakesId, Searching, master
<1>2. CASE UNCHANGED vars
  BY <1>2 DEF vars, master, slaves, Exact, OnlyFoundTakesId, Searching,
              Configuring
<1> QED
  BY <1>0, <1>1, <1>2, RequestsExact, SearchExact, FinalSelectExact
  DEF Next, Scan

(* On a good bus the node id goes to no other node than the one found: the *)
(* slaves that an earlier run left in configuration mode have left it when *)
(* the search begins, and the last request selects only the node whose     *)
(* address the search has found (lss_fast_scan, network.py:474-486).       *)
THEOREM IdGoesToFound == Spec => []OnlyFoundTakesId
<1> DEFINE EInv == SInv /\ (bus = "good" => Exact)
<1>1. Init => EInv
  BY InitSInv DEF Init, Exact, OnlyFoundTakesId, Searching
<1>2. EInv /\ [Next]_vars => EInv'
  <2>1. [Next]_vars => bus' = bus
    BY DEF Next, vars
  <2> QED BY <2>1, NextSInv, ExactStep
<1>3. EInv => OnlyFoundTakesId
  BY DEF Exact, OnlyFoundTakesId
<1> QED BY <1>1, <1>2, <1>3, PTL DEF Spec

-----------------------------------------------------------------------------
(* Why a full scan does not fail on a good bus.  While nobody leaves, the  *)
(* nodes that made the master search are still there; and in the stage     *)
(* "all", which tests every bit, some node has every bit found so far.     *)
Tested == IF phase = "bit" THEN {i \in Bits : i > bit} ELSE Bits

Candidate(n) == pos[n] = sub /\ \A i \in Tested : i \in n[sub] <=> i \in lss[sub]

StillThere == phase = "reset" \/ Searching => Unconfigured # {}

AllIsSearched ==
    stage = "all" /\ (phase = "reset" \/ Searching) => mask = AllBits

SomeFits ==
    stage = "all" =>
        /\ phase = "reset" => lss = Zero
        /\ Searching =>
              /\ lss[sub] \subseteq Tested
              /\ \A p \in Parts : p > sub => lss[p] = {}
              /\ \E n \in Unconfigured : Candidate(n)

Full == StillThere /\ AllIsSearched /\ SomeFits

FullStep ==
    bus = "good" /\ unplugs = 0 /\ stage = "all" /\ phase' = "present"
        => phase \notin {"reset", "bit", "next", "final"}

(* The request that is due next leaves no bit out.                         *)
LEMMA GoToNext ==
    ASSUME SInv, mask = AllBits, NEW s \in Parts, NEW b \in Nat, GoTo(s, b)
    PROVE  Searching' /\ sub' = s /\ Tested' = {i \in Bits : i >= b}
<1>1. mask[s] = Bits /\ Bits \subseteq Nat
  BY PartsAndBits DEF AllBits
<1>2. Searching' /\ sub' = s
  BY DEF GoTo, Searching
<1>3. CASE phase' = "bit"
  <2>1. bit' \in Bits /\ bit' < b /\ \A j \in Bits : j < b => j <= bit'
    BY <1>1, <1>3 DEF GoTo
  <2>2. \A i \in Bits : i > bit' <=> i >= b
    <3> SUFFICES ASSUME NEW i \in Bits PROVE i > bit' <=> i >= b
      OBVIOUS
    <3>1. i \in Nat /\ bit' \in Nat /\ bit' < b /\ (i < b => i <= bit')
      BY <1>1, <2>1
    <3> QED BY <3>1
  <2> QED BY <1>2, <1>3, <2>2 DEF Tested
<1>4. CASE phase' # "bit"
  <2>1. \A i \in Bits : ~(i < b)
    BY <1>1, <1>4 DEF GoTo
  <2>2. \A i \in Bits : i >= b
    BY <1>1, <2>1
  <2>3. Tested' = Bits
    BY <1>4 DEF Tested
  <2> QED BY <1>2, <2>2, <2>3
<1> QED BY <1>3, <1>4

(* A stage that fails is followed by one that starts anew.                 *)
LEMMA NextStage ==
    ASSUME Full, StageFails, Unconfigured' = Unconfigured, Unconfigured # {},
           stage # "all"
    PROVE  Full' /\ phase' = "reset"
BY DEF Full, StillThere, AllIsSearched, SomeFits, StageFails, StartRange,
       StartStage, Searching

LEMMA CheckPresentFull ==
    ASSUME SInv, bus = "good", Full, CheckPresent, UNCHANGED bus
    PROVE  Full' /\ FullStep
<1>1. PICK yes \in BOOLEAN :
        /\ AskPresent(yes)
        /\ \/ ~yes /\ UNCHANGED <<phase, stage, lss, mask, sub, bit>>
           \/ yes /\ cache = {} /\ StartRange
           \/ /\ yes /\ cache # {}
              /\ StartStage("known", KnownBits(cache), KnownMask(cache))
  BY DEF CheckPresent
<1>2. Unconfigured' = Unconfigured /\ (yes <=> Unconfigured # {})
  BY <1>1, GoodPresent DEF SlavesReset, Unconfigured
<1>3. phase = "present"
  BY DEF CheckPresent
<1>4. CASE ~yes /\ UNCHANGED <<phase, stage, lss, mask, sub, bit>>
  BY <1>3, <1>4
  DEF Full, StillThere, AllIsSearched, SomeFits, Searching, FullStep
<1>5. CASE yes /\ StartRange
  BY <1>2, <1>3, <1>5
  DEF StartRange, StartStage, Full, StillThere, AllIsSearched, SomeFits,
      Searching, FullStep
<1>6. CASE yes /\ StartStage("known", KnownBits(cache), KnownMask(cache))
  BY <1>2, <1>3, <1>6
  DEF StartStage, Full, StillThere, AllIsSearched, SomeFits, Searching,
      FullStep
<1> QED BY <1>1, <1>4, <1>5, <1>6

LEMMA ResetScanFull ==
    ASSUME SInv, bus = "good", Full, ResetScan, UNCHANGED bus
    PROVE  Full' /\ FullStep
<1>1. PICK yes \in BOOLEAN :
        /\ AskPresent(yes)
        /\ \/ ~yes /\ StageFails
           \/ yes /\ GoTo(0, High + 1) /\ UNCHANGED <<stage, lss, mask>>
  BY DEF ResetScan
<1>2. /\ Unconfigured' = Unconfigured /\ (yes <=> Unconfigured # {})
      /\ \A n \in Unconfigured : pos'[n] = 0
  BY <1>1, GoodPresent DEF SlavesReset, Unconfigured
<1>3. phase = "reset" /\ Unconfigured # {}
  BY DEF ResetScan, Full, StillThere
<1>4. yes /\ GoTo(0, High + 1) /\ UNCHANGED <<stage, lss, mask>>
  BY <1>1, <1>2, <1>3
<1>5. Searching' /\ phase' # "present"
  BY <1>4 DEF GoTo, Searching
<1>6. ASSUME stage = "all"
      PROVE  /\ mask' = AllBits
             /\ lss'[sub'] \subseteq Tested'
             /\ \A p \in Parts : p > sub' => lss'[p] = {}
             /\ \E n \in Unconfigured' : Candidate(n)'
  <2>1. mask = AllBits /\ lss = Zero
    BY <1>3, <1>6 DEF Full, AllIsSearched, SomeFits
  <2>2. High + 1 \in Nat
    BY ParametersAssumption
  <2>3. sub' = 0 /\ Tested' = {i \in Bits : i >= High + 1}
    BY <1>4, <2>1, <2>2, GoToNext, PartsAndBits
  <2>4. Tested' = {}
    BY <2>3, ParametersAssumption DEF Bits
  <2>5. \A p \in Parts : lss'[p] = {}
    BY <1>4, <2>1 DEF Zero
  <2>6. \A n \in Unconfigured' : Candidate(n)'
    BY <1>2, <2>3, <2>4 DEF Candidate
  <2> QED BY <1>2, <1>3, <1>4, <2>1, <2>3, <2>5, <2>6, PartsAndBits
<1>7. ~(phase' = "reset") /\ stage' = stage
  BY <1>4, <1>5 DEF Searching
<1> QED
  BY <1>2, <1>3, <1>5, <1>6, <1>7
  DEF Full, StillThere, AllIsSearched, SomeFits, FullStep

(* If some node confirms the bit as zero it is the one that fits, else the *)
(* bit becomes one and every node that fitted still does.                  *)
LEMMA TestBitFull ==
    ASSUME SInv, bus = "good", Full, TestBit, UNCHANGED bus
    PROVE  Full' /\ FullStep
<1>1. PICK yes \in BOOLEAN :
        /\ AskPart(bit, sub, yes)
        /\ lss' = IF yes THEN lss ELSE [lss EXCEPT ![sub] = @ \cup {bit}]
  BY DEF TestBit
<1>2. phase = "bit" /\ GoTo(sub, bit) /\ UNCHANGED <<stage, mask>>
  BY DEF TestBit
<1>3. sub \in Parts /\ bit \in Bits /\ bit \in Nat /\ lss \in Address
  BY PartsAndBits DEF SInv, TypeOK
<1>4. /\ SlavesScan(lss[sub], bit, sub, sub)
      /\ yes <=> Matching(lss[sub], bit, sub) # {}
  BY <1>1, GoodPart
<1>5. mode' = mode /\ hasId' = hasId /\ \A n \in Unconfigured : pos'[n] = pos[n]
  <2>1. ~(sub < sub)
    BY <1>3, PartsAndBits
  <2>2. mode' = mode /\ hasId' = hasId
    BY <1>4, <2>1, NoSelection
  <2> QED BY <1>4, <2>2 DEF SlavesScan, Matching, Unconfigured
<1>6. Unconfigured' = Unconfigured /\ Unconfigured # {}
  BY <1>2, <1>5 DEF Unconfigured, Full, StillThere, Searching
<1>7. Searching' /\ phase' \notin {"present", "reset"}
  BY <1>2 DEF GoTo, Searching
<1>8. ASSUME stage = "all"
      PROVE  /\ mask' = AllBits
             /\ lss'[sub'] \subseteq Tested'
             /\ \A p \in Parts : p > sub' => lss'[p] = {}
             /\ \E n \in Unconfigured' : Candidate(n)'
  <2>1. /\ mask = AllBits /\ lss[sub] \subseteq Tested
        /\ \A p \in Parts : p > sub => lss[p] = {}
        /\ \E n \in Unconfigured : Candidate(n)
    BY <1>2, <1>8 DEF Full, AllIsSearched, SomeFits, Searching
  <2>2. sub' = sub /\ Tested' = {i \in Bits : i >= bit}
    BY <1>2, <1>3, <2>1, GoToNext
  <2>3. Tested = {i \in Bits : i > bit}
    BY <1>2 DEF Tested
  <2>4. Tested' = Tested \cup {bit} /\ bit \notin Tested
    <3>1. \A i \in Bits : i >= bit <=> i > bit \/ i = bit
      BY <1>3, PartsAndBits
    <3>2. ~(bit > bit)
      BY <1>3
    <3> QED BY <1>3, <2>2, <2>3, <3>1, <3>2
  <2>5. \A n \in Unconfigured :
          n \in Matching(lss[sub], bit, sub)
            <=> pos[n] = sub /\ \A i \in Tested' : i \in n[sub] <=> i \in lss[sub]
    BY <2>2 DEF Matching
  <2>6. lss'[sub] = IF yes THEN lss[sub] ELSE lss[sub] \cup {bit}
    BY <1>1, <1>3 DEF Address
  <2>7. \A p \in Parts : p # sub => lss'[p] = lss[p]
    BY <1>1, <1>3 DEF Address
  <2>8. lss'[sub'] \subseteq Tested'
    BY <2>1, <2>2, <2>4, <2>6
  <2>9. \A p \in Parts : p > sub' => lss'[p] = {}
    <3>1. \A p \in Parts : p > sub => p # sub
      BY <1>3, PartsAndBits
    <3> QED BY <2>1, <2>2, <2>7, <3>1
  <2>10. \E n \in Unconfigured' : Candidate(n)'
    <3>1. CASE yes
      <4>1. PICK n \in Unconfigured : n \in Matching(lss[sub], bit, sub)
        BY <1>4, <3>1 DEF Matching
      <4>2. pos'[n] = sub' /\ \A i \in Tested' : i \in n[sub'] <=> i \in lss'[sub']
        BY <1>5, <2>2, <2>5, <2>6, <3>1, <4>1
      <4>3. Candidate(n)'
        BY <4>2 DEF Candidate
      <4> QED BY <1>6, <4>3
    <3>2. CASE ~yes
      <4>1. PICK n \in Unconfigured : Candidate(n)
        BY <2>1
      <4>2. /\ pos[n] = sub
            /\ \A i \in Tested : i \in n[sub] <=> i \in lss[sub]
            /\ n \notin Matching(lss[sub], bit, sub)
        BY <1>4, <3>2, <4>1 DEF Candidate
      <4>3. bit \in n[sub]
        BY <2>1, <2>4, <2>5, <4>2
      <4>4. \A i \in Tested' : i \in n[sub] <=> i \in lss'[sub]
        BY <2>4, <2>6, <3>2, <4>2, <4>3
      <4>5. Candidate(n)'
        BY <1>5, <2>2, <4>2, <4>4 DEF Candidate
      <4> QED BY <1>6, <4>5
    <3> QED BY <3>1, <3>2
  <2> QED BY <1>2, <2>1, <2>8, <2>9, <2>10
<1> QED
  BY <1>2, <1>6, <1>7, <1>8
  DEF Full, StillThere, AllIsSearched, SomeFits, FullStep

LEMMA NextPartFull ==
    ASSUME SInv, bus = "good", Full, NextPart, UNCHANGED bus
    PROVE  Full' /\ FullStep
<1>1. PICK yes \in BOOLEAN :
        /\ AskPart(0, sub + 1, yes)
        /\ \/ ~yes /\ StageFails
           \/ /\ yes /\ GoTo(sub + 1, High + 1)
              /\ UNCHANGED <<stage, lss, mask>>
  BY DEF NextPart
<1>2. /\ phase = "next" /\ sub \in Parts /\ sub \in Nat
      /\ sub + 1 \in Parts /\ lss \in Address
  BY PartsAndBits DEF NextPart, SInv, Progress, TypeOK
<1>3. /\ SlavesScan(lss[sub], 0, sub, sub + 1)
      /\ yes <=> Matching(lss[sub], 0, sub) # {}
  BY <1>1, GoodPart
<1>4. mode' = mode /\ hasId' = hasId
  BY <1>2, <1>3, NoSelection
<1>5. Unconfigured' = Unconfigured /\ Unconfigured # {}
  BY <1>2, <1>4 DEF Unconfigured, Full, StillThere, Searching
<1>6. ASSUME stage = "all"
      PROVE  /\ mask = AllBits
             /\ \A p \in Parts : p > sub => lss[p] = {}
             /\ \E n \in Matching(lss[sub], 0, sub) : TRUE
  <2>1. PICK n \in Unconfigured : Candidate(n)
    BY <1>2, <1>6 DEF Full, SomeFits, Searching
  <2>2. Tested = Bits
    BY <1>2 DEF Tested
  <2>3. n \in Matching(lss[sub], 0, sub)
    BY <2>1, <2>2 DEF Candidate, Matching
  <2> QED BY <1>2, <1>6, <2>3 DEF Full, AllIsSearched, SomeFits, Searching
<1>7. CASE ~yes /\ StageFails
  <2>1. stage # "all"
    BY <1>3, <1>6, <1>7
  <2> QED BY <1>5, <1>7, <2>1, NextStage DEF FullStep
<1>8. CASE yes /\ GoTo(sub + 1, High + 1) /\ UNCHANGED <<stage, lss, mask>>
  <2>1. Searching' /\ phase' \notin {"present", "reset"}
    BY <1>8 DEF GoTo, Searching
  <2>2. ASSUME stage = "all"
        PROVE  /\ mask' = AllBits
               /\ lss'[sub'] \subseteq Tested'
               /\ \A p \in Parts : p > sub' => lss'[p] = {}
               /\ \E n \in Unconfigured' : Candidate(n)'
    <3>1. mask = AllBits /\ High + 1 \in Nat
      BY <1>6, <2>2, ParametersAssumption
    <3>2. sub' = sub + 1 /\ Tested' = {i \in Bits : i >= High + 1}
      BY <1>2, <1>8, <3>1, GoToNext
    <3>3. Tested' = {}
      BY <3>2, ParametersAssumption DEF Bits
    <3>4. \A p \in Parts : p >= sub + 1 => lss'[p] = {}
      <4>1. \A p \in Parts : p >= sub + 1 => p > sub
        BY <1>2, PartsAndBits
      <4> QED BY <1>6, <1>8, <2>2, <4>1
    <3>5. lss'[sub'] = {} /\ \A p \in Parts : p > sub' => lss'[p] = {}
      <4>1. sub + 1 >= sub + 1 /\ \A p \in Parts : p > sub + 1 => p >= sub + 1
        BY <1>2, PartsAndBits
      <4> QED BY <1>2, <3>2, <3>4, <4>1
    <3>6. PICK n \in Matching(lss[sub], 0, sub) : TRUE
      BY <1>6, <2>2
    <3>7. n \in Unconfigured' /\ pos'[n] = sub + 1
      BY <1>3, <1>5, <3>6 DEF SlavesScan, Matching, Unconfigured
    <3>8. Candidate(n)'
      BY <3>2, <3>3, <3>7 DEF Candidate
    <3> QED BY <1>8, <3>1, <3>5, <3>7, <3>8
  <2> QED
    BY <1>2, <1>5, <1>8, <2>1, <2>2
    DEF Full, StillThere, AllIsSearched, SomeFits, FullStep
<1> QED BY <1>1, <1>7, <1>8

(* The node that fits answers the last request too.                        *)
LEMMA FinalSelectFull ==
    ASSUME SInv, bus = "good", Full, FinalSelect, UNCHANGED bus
    PROVE  Full' /\ FullStep
<1>1. PICK yes \in BOOLEAN :
        /\ AskPart(0, 0, yes)
        /\ \/ ~yes /\ StageFails
           \/ /\ yes /\ phase' = "found"
              /\ UNCHANGED <<stage, lss, mask, sub, bit>>
  BY DEF FinalSelect
<1>2. /\ SlavesScan(lss[sub], 0, sub, 0)
      /\ yes <=> Matching(lss[sub], 0, sub) # {}
  BY <1>1, GoodPart
<1>3. phase = "final"
  BY DEF FinalSelect
<1>4. CASE yes /\ phase' = "found"
  BY <1>4
  DEF Full, StillThere, AllIsSearched, SomeFits, Searching, FullStep
<1>5. CASE ~yes /\ StageFails
  <2>1. stage # "all"
    <3> SUFFICES ASSUME stage = "all" PROVE Matching(lss[sub], 0, sub) # {}
      BY <1>2, <1>5
    <3>1. PICK n \in Unconfigured : Candidate(n)
      BY <1>3 DEF Full, SomeFits, Searching
    <3>2. Tested = Bits
      BY <1>3 DEF Tested
    <3> QED BY <3>1, <3>2 DEF Candidate, Matching
  <2>2. mode' = mode /\ hasId' = hasId
    BY <1>2, <1>5 DEF SlavesScan, SInv, TypeOK
  <2>3. Unconfigured' = Unconfigured /\ Unconfigured # {}
    BY <1>3, <2>2 DEF Unconfigured, Full, StillThere, Searching
  <2> QED BY <1>5, <2>1, <2>3, NextStage DEF FullStep
<1> QED BY <1>1, <1>4, <1>5

LEMMA FullKept ==
    ASSUME Full, UNCHANGED master, Unconfigured \subseteq Unconfigured',
           \A n \in Unconfigured : pos'[n] = pos[n]
    PROVE  Full' /\ FullStep
<1>1. Tested' = Tested /\ (Searching' <=> Searching)
  BY DEF master, Tested, Searching
<1>2. \A n \in Unconfigured : Candidate(n) => Candidate(n)'
  BY <1>1 DEF master, Candidate
<1>3. UNCHANGED <<phase, stage, lss, mask, sub>>
  BY DEF master
<1>4. AllIsSearched' /\ StillThere'
  BY <1>1, <1>3 DEF Full, AllIsSearched, StillThere
<1>5. SomeFits'
  BY <1>1, <1>2, <1>3 DEF Full, SomeFits
<1>6. FullStep
  BY <1>3 DEF FullStep
<1> QED BY <1>4, <1>5, <1>6 DEF Full

LEMMA FullScanStep ==
    ASSUME SInv, bus = "good", Full, [Next]_vars,
           \A n \in Addresses : ~Unplug(n)
    PROVE  Full' /\ FullStep
<1>0. UNCHANGED bus
  BY DEF Next, vars
<1>1. CASE \/ SwitchAllToConfiguration \/ InvalidateNodeIds
           \/ SwitchAllToOperation \/ ConfigureNodeId
  <2>1. /\ phase' \in {"invalidate", "leave", "present", "operate"}
        /\ phase \in {"enter", "invalidate", "leave", "operate", "found"}
    BY <1>1 DEF SwitchAllToConfiguration, InvalidateNodeIds,
                SwitchAllToOperation, ConfigureNodeId
  <2> QED BY <2>1 DEF Full, StillThere, AllIsSearched, SomeFits, Searching,
                      FullStep
<1>2. CASE \E n \in Addresses : Plug(n)
  <2>1. PICK n \in Addresses : Plug(n)
    BY <1>2
  <2>2. /\ Unconfigured \subseteq Unconfigured' /\ n \notin Unconfigured
        /\ \A m \in Unconfigured : pos'[m] = pos[m]
    BY <2>1 DEF Plug, Unconfigured, SInv, TypeOK
  <2>3. UNCHANGED master
    BY <2>1 DEF Plug
  <2> QED BY <2>2, <2>3, FullKept
<1>3. CASE UNCHANGED vars
  <2>1. UNCHANGED master /\ Unconfigured' = Unconfigured /\ pos' = pos
    BY <1>3 DEF vars, slaves, Unconfigured
  <2> QED BY <2>1, FullKept
<1> QED
  BY <1>0, <1>1, <1>2, <1>3, CheckPresentFull, ResetScanFull, TestBitFull,
     NextPartFull, FinalSelectFull
  DEF Next, Scan

(* On a good bus a full scan that has begun never ends with None while all *)
(* nodes stay: after every bit some node has all bits found so far, so it  *)
(* confirms each part and the last request (_fast_scan,                    *)
(* network.py:343-377).                                                    *)
THEOREM FullScanAlwaysFinds == Spec => FullScanFinds
<1> DEFINE Undisturbed == bus = "good" /\ unplugs = 0
           AInv == SInv /\ (Undisturbed => Full)
<1>1. Init => AInv
  BY InitSInv
  DEF Init, Full, StillThere, AllIsSearched, SomeFits, Searching
<1>2. SInv /\ [Next]_vars /\ Undisturbed' => Undisturbed
  BY DEF Next, vars, Scan, SwitchAllToConfiguration, InvalidateNodeIds,
         SwitchAllToOperation, CheckPresent, ResetScan, TestBit, NextPart,
         FinalSelect, ConfigureNodeId, Plug, Unplug, SInv, TypeOK
<1>3. AInv /\ [Next]_vars => AInv' /\ FullStep
  <2> SUFFICES ASSUME AInv, [Next]_vars
               PROVE  AInv' /\ FullStep
    OBVIOUS
  <2>1. SInv'
    BY NextSInv
  <2>2. CASE \E n \in Addresses : Unplug(n)
    <3>1. phase' = phase /\ unplugs' = unplugs + 1 /\ unplugs \in Nat
      BY <2>2 DEF Unplug, master, SInv, TypeOK
    <3> QED BY <2>1, <3>1 DEF FullStep
  <2>3. CASE \A n \in Addresses : ~Unplug(n)
    <3>1. Undisturbed => Full' /\ FullStep
      BY <2>3, FullScanStep
    <3>2. ~Undisturbed => FullStep
      BY DEF FullStep
    <3> QED BY <1>2, <2>1, <3>1, <3>2
  <2> QED BY <2>2, <2>3
<1>4. AInv /\ [Next]_vars => [FullStep]_vars
  BY <1>3
<1>5. Spec => [][FullStep]_vars
  <2>1. AInv /\ [Next]_vars => AInv'
    BY <1>3
  <2> HIDE DEF AInv, Undisturbed
  <2> QED BY <1>1, <2>1, <1>4, PTL DEF Spec
<1> QED BY <1>5 DEF FullScanFinds, FullStep

=============================================================================
