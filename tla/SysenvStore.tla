---------------------------- MODULE SysenvStore ----------------------------
(***************************************************************************)
(* What the system-environment layer (sysenv/sysenv.c) promises its        *)
(* callers: a persistent map from small indices to payloads.  It changes   *)
(* only when a requested write takes effect, which it does at once and at  *)
(* its own index (a payload of size 0 deletes), and when the operator      *)
(* erases the whole area.  A request may be refused or abandoned; a reset  *)
(* changes nothing.                                                        *)
(***************************************************************************)
CONSTANTS Ids,       \* the indices a variable may be stored under
          Payloads,  \* what may be stored
          Empty      \* "nothing stored": a payload of size 0

VARIABLES store,     \* index -> payload or Empty
          pending    \* the write in progress, if there is one

Request == [id : Ids, data : Payloads \cup {Empty}]

\* At most one write is in progress.
TypeOK ==
    /\ store \in [Ids -> Payloads \cup {Empty}]
    /\ pending = {} \/ \E w \in Request : pending = {w}

Init == store = [i \in Ids |-> Empty] /\ pending = {}

Accept == pending = {} /\ (\E w \in Request : pending' = {w}) /\ UNCHANGED store

TakeEffect ==
    \E w \in pending :
        /\ store' = [store EXCEPT ![w.id] = w.data]
        /\ pending' = {}

Abandon == pending' = {} /\ UNCHANGED store

EraseAll == pending = {} /\ store' = [i \in Ids |-> Empty] /\ UNCHANGED pending

Next == Accept \/ TakeEffect \/ Abandon \/ EraseAll

Spec == Init /\ [][Next]_<<store, pending>>
=============================================================================
