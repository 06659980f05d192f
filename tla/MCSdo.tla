-------------------------------- MODULE MCSdo --------------------------------
(***************************************************************************)
(* Small instances of SdoClient for TLC.  A frame carries one byte         *)
(* (initiate) or two (segment), so that "short" is an expedited transfer,  *)
(* "long" and "other" are segmented ones of three bytes (two segments, the *)
(* last one not full) and "even" fills its last segment exactly.           *)
(***************************************************************************)
EXTENDS SdoClient

CONSTANTS t1, t2, o1, o2, short, brief, long, even, other, none

TwoTasks == {t1, t2}
OneTask == {t1}
OneObject == {o1}
TwoObjects == {o1, o2}

ShortEven == {short, even}
LongOther == {long, other}
ShortBrief == {short, brief}
MCSize == [v \in Values |-> CASE v \in {short, brief} -> 1
                              [] v = even  -> 4
                              [] OTHER     -> 3]
=============================================================================
