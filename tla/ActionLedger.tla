---------------------------- MODULE ActionLedger ----------------------------
(***************************************************************************)
(* What a managed run promises about its input, without models, machines,  *)
(* locks, the daemon's queue, its sessions or restarts of the process: a   *)
(* ledger of the run's actions, decided, begun and counted in turn.        *)
(***************************************************************************)
EXTENDS Naturals

CONSTANTS Acts, None

VARIABLES
    cursor,     \* actions counted as done
    pending,    \* the action decided on
    begun,      \* actions begun and not counted
    forgiven,   \* something that may have been done was given up
    closed      \* the run has ended

vars == <<cursor, pending, begun, forgiven, closed>>

Init == cursor = 0 /\ pending = None /\ begun = {} /\ forgiven = FALSE /\ closed = FALSE

Decide(act) ==
    /\ pending = None /\ ~closed
    /\ pending' = [index |-> cursor, act |-> act]
    /\ UNCHANGED <<cursor, begun, closed>>

(* Only what is pending begins, once, and nothing begins beside an action  *)
(* whose outcome is still open.                                            *)
Begin ==
    /\ pending # None /\ pending \notin begun
    /\ begun = {} \/ forgiven
    /\ begun' = begun \cup {pending}
    /\ UNCHANGED <<cursor, pending, closed>>

(* Only what has begun is counted.                                         *)
Count ==
    /\ pending \in begun
    /\ cursor' = cursor + 1 /\ pending' = None /\ begun' = begun \ {pending}
    /\ UNCHANGED closed

(* Nothing is pending for a run that ends, or comes back.                  *)
GiveUp == pending' = None /\ closed' \in BOOLEAN /\ UNCHANGED <<cursor, begun>>

(* In a new session all may begin again. If something has begun before and *)
(* was not counted, giving it up is on record.                             *)
Move ==
    /\ begun = {} \/ forgiven'
    /\ pending' = None /\ begun' = {} /\ closed' = FALSE
    /\ UNCHANGED cursor

Next ==
    /\ forgiven' \in {forgiven, TRUE}
    /\ \/ \E act \in Acts : Decide(act)
       \/ Begin \/ Count \/ GiveUp \/ Move
       \/ UNCHANGED <<cursor, pending, begun, closed>>

Spec == Init /\ [][Next]_vars
=============================================================================
