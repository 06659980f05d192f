------------------------------ MODULE SdoStore ------------------------------
(***************************************************************************)
(* What LxaBusNode.sdo_read and sdo_write (lxa_iobus/node/bus_node.py)     *)
(* promise to the rest of the server, without frames, lock or time-outs:   *)
(* the node is a store of objects.  A write puts its whole content into    *)
(* the object at one moment between its call and its end; a read returns   *)
(* a whole content that the object had at one such moment; a call that     *)
(* fails says nothing, so the content of a failed write may be stored.     *)
(***************************************************************************)
CONSTANTS
    Tasks,           \* callers
    Objects,         \* <index, sub index> pairs
    Contents(_),     \* what an object may hold
    Volatile         \* objects that the node changes by itself

VARIABLES
    od,      \* the objects
    active,  \* the tasks with a call under way
    call,    \* call[t]: the arguments of the last call of t
    seen,    \* seen[t]: what its object has held since the call
    ret      \* ret[t]: how the last call ended

vars == <<od, active, call, seen, ret>>

Init ==
    /\ od \in [Objects -> UNION {Contents(o) : o \in Objects}]
    /\ \A o \in Objects : od[o] \in Contents(o)
    /\ active = {}
    /\ seen = [t \in Tasks |-> {}]

Ask(t) ==
    \E o \in Objects, op \in {"read", "write"} : \E d \in Contents(o) :
        /\ t \notin active /\ active' = active \cup {t}
        /\ call' = [call EXCEPT
                      ![t] = [op |-> op, obj |-> o,
                              data |-> IF op = "read" THEN <<>> ELSE d]]
        /\ seen' = [seen EXCEPT ![t] = IF op = "read" THEN {od[o]} ELSE {}]
        /\ ret' = [ret EXCEPT ![t] = [kind |-> "none", data |-> <<>>]]
        /\ UNCHANGED od

Take(o, d) ==
    /\ od' = [od EXCEPT ![o] = d]
    /\ seen' = [t \in Tasks |-> IF t \in active /\ call[t].obj = o
                                   THEN seen[t] \cup {d} ELSE seen[t]]
    /\ UNCHANGED <<active, call, ret>>

(* The moment of a write.                                                  *)
Write(t) ==
    /\ t \in active /\ call[t].op = "write"
    /\ Take(call[t].obj, call[t].data)

Change(o) == o \in Volatile /\ \E d \in Contents(o) : Take(o, d)

Answers(t) ==
    {[kind |-> k, data |-> <<>>] : k \in {"timeout", "abort", "wrong"}}
    \cup IF call[t].op = "read"
            THEN {[kind |-> "value", data |-> d] : d \in seen[t]}
            ELSE {[kind |-> "stored", data |-> <<>>] :
                     d \in {call[t].data} \cap seen[t]}

Answer(t) ==
    /\ t \in active /\ active' = active \ {t}
    /\ \E r \in Answers(t) : ret' = [ret EXCEPT ![t] = r]
    /\ UNCHANGED <<od, call, seen>>

Next ==
    \/ \E t \in Tasks : Ask(t) \/ Write(t) \/ Answer(t)
    \/ \E o \in Objects : Change(o)

Spec == Init /\ [][Next]_vars

=============================================================================
