---------------------------- MODULE BurstLedger ----------------------------
(***************************************************************************)
(* What run_burst promises about executions, without requests, receipts,   *)
(* claims or awaits: a ledger of the executions of a session, each for one *)
(* idempotency key and one list of actions (a digest).                     *)
(***************************************************************************)
CONSTANTS Runs, Keys, Digests

VARIABLES
    log,        \* executions that have begun
    running,    \* those that have not ended
    burnt       \* digests whose uncertain effect the daemon has retained

Entries == [id: Runs, key: Keys, digest: Digests, approved: BOOLEAN]

Init == log = {} /\ running = {} /\ burnt = {}

(* No twin may be running, nothing burnt is repeated, and only a human     *)
(* approval lets a key run beside another execution of it.                 *)
Begin(e) ==
    /\ \A f \in log : f.id # e.id
    /\ \A f \in log : f.id \in running => f.key # e.key /\ f.digest # e.digest
    /\ e.digest \notin burnt
    /\ e.approved \/ \A f \in log : f.key = e.key => f.approved
    /\ log' = log \cup {e}
    /\ running' = running \cup {e.id}
    /\ UNCHANGED burnt

(* It ends, well or not.                                                   *)
End(e) ==
    /\ e \in log /\ e.id \in running
    /\ running' = running \ {e.id}
    /\ burnt' \in {burnt, burnt \cup {e.digest}}
    /\ UNCHANGED log

Next == \E e \in Entries : Begin(e) \/ End(e)

Spec == Init /\ [][Next]_<<log, running, burnt>>
=============================================================================
