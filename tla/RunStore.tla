------------------------------ MODULE RunStore ------------------------------
(***************************************************************************)
(* The durable record of one run, harness/agent_store.py: one state        *)
(* document and an append-only history of events.                          *)
(*                                                                         *)
(* Whoever works on the run holds a copy of it, loaded whole or with a     *)
(* window on the end of its history, and saves that copy again and again;  *)
(* the verifier and the speculative controller do so from two tasks over   *)
(* one copy. Copies may be stale, or forks of each other: save has to      *)
(* refuse those. An event is its serial number, which no two share; a      *)
(* state document is the sequence of the events whose changes it contains. *)
(***************************************************************************)
EXTENDS Integers, Sequences

CONSTANTS
    Copies,         \* RunSnapshot objects
    Tasks,          \* coroutines that save one copy
    Window,         \* event_limit of get_control
    MaxEvents,      \* bound: events recorded
    None

ASSUME StoreConstants ==
    /\ Window \in Nat \ {0} /\ MaxEvents \in Nat
    /\ None \notin Copies \X Tasks

VARIABLES
    history, state,     \* the rows of the run
    reserved,           \* who holds SQLite's write reservation
    staged,             \* what its transaction has written
    phase,              \* of each copy: whether it is loaded
    copy,               \* RunSnapshot: events before the window, window, state
    made,               \* events recorded so far
    seen,               \* history: the events a copy descends from
    torn,               \* history: copies loaded across a commit
    lagging             \* history: such a copy has been saved

durableVars == <<history, state>>
copyVars == <<phase, copy, seen, torn>>
vars == <<durableVars, reserved, staged, copyVars, made, lagging>>

Savers == Copies \X Tasks
Ids == 1 .. MaxEvents
NoCopy == [base |-> 0, events |-> <<>>, state |-> <<>>]
NoStage == [history |-> <<>>, state |-> <<>>, open |-> FALSE]

\* One type invariant: every variable has its shape.
TypeOK ==
    /\ history \in Seq(Ids) /\ state \in Seq(Ids)
    /\ reserved \in Savers \cup {None}
    /\ staged \in [history : Seq(Ids), state : Seq(Ids), open : BOOLEAN]
    /\ phase \in [Copies -> {"none", "half", "loaded"}]
    /\ copy \in [Copies -> [base : Nat, events : Seq(Ids), state : Seq(Ids)]]
    /\ made \in 0 .. MaxEvents
    /\ seen \in [Copies -> Seq(Ids)]
    /\ torn \subseteq Copies /\ lagging \in BOOLEAN

Init ==
    /\ history = <<>> /\ state = <<>>
    /\ reserved = None /\ staged = NoStage
    /\ phase = [c \in Copies |-> "none"] /\ copy = [c \in Copies |-> NoCopy]
    /\ made = 0
    /\ seen = [c \in Copies |-> <<>>] /\ torn = {} /\ lagging = FALSE

-----------------------------------------------------------------------------
(* Loading.                                                                *)

(* get_state: one row, and no event of the history.                        *)
GetState(c) ==
    /\ phase[c] = "none"
    /\ phase' = [phase EXCEPT ![c] = "loaded"]
    /\ copy' = [copy EXCEPT ![c] = [base |-> Len(history), events |-> <<>>, state |-> state]]
    /\ seen' = [seen EXCEPT ![c] = history]
    /\ UNCHANGED <<durableVars, reserved, staged, made, torn, lagging>>

(* get and get_control: the row, then by a second statement the events     *)
(* past the window's start. No transaction holds the two together.         *)
GetControl(c) ==
    /\ phase[c] = "none"
    /\ phase' = [phase EXCEPT ![c] = "half"]
    /\ \E limit \in {Window, Len(history)} :
          copy' = [copy EXCEPT ![c] =
                      [base |-> IF limit < Len(history) THEN Len(history) - limit ELSE 0,
                       events |-> <<>>, state |-> state]]
    /\ UNCHANGED <<durableVars, reserved, staged, made, seen, torn, lagging>>

GetEvents(c) ==
    /\ phase[c] = "half"
    /\ phase' = [phase EXCEPT ![c] = "loaded"]
    /\ copy' = [copy EXCEPT ![c].events = SubSeq(history, copy[c].base + 1, Len(history))]
    /\ seen' = [seen EXCEPT ![c] = history]
    /\ torn' = IF copy[c].state # state THEN torn \cup {c} ELSE torn
    /\ UNCHANGED <<durableVars, reserved, staged, made, lagging>>

(* RunSnapshot.record: the change and its event.                           *)
Record(c) ==
    /\ phase[c] = "loaded" /\ made < MaxEvents
    /\ made' = made + 1
    /\ copy' = [copy EXCEPT ![c].events = Append(@, made'), ![c].state = Append(@, made')]
    /\ seen' = [seen EXCEPT ![c] = Append(@, made')]
    /\ UNCHANGED <<durableVars, reserved, staged, phase, torn, lagging>>

(* The copy is given up: its owner has ended, or was cancelled.            *)
Discard(c) ==
    /\ phase[c] # "none" /\ reserved \notin {c} \X Tasks
    /\ phase' = [phase EXCEPT ![c] = "none"]
    /\ copy' = [copy EXCEPT ![c] = NoCopy]
    /\ seen' = [seen EXCEPT ![c] = <<>>]
    /\ torn' = torn \ {c}
    /\ UNCHANGED <<durableVars, reserved, staged, made, lagging>>

-----------------------------------------------------------------------------
(* Saving.                                                                 *)

\* A mutant: the reservation does not say for which copy.
BeginByTask(c, t) ==
    /\ phase[c] = "loaded" /\ reserved = None
    /\ reserved' = t /\ staged' = NoStage
    /\ UNCHANGED <<durableVars, copyVars, made, lagging>>

(* BEGIN IMMEDIATE: one write transaction at a time, readers go on.        *)
Begin(c, t) ==
    /\ phase[c] = "loaded" /\ reserved = None
    /\ reserved' = <<c, t>> /\ staged' = NoStage
    /\ UNCHANGED <<durableVars, copyVars, made, lagging>>

Cursor(r) == r.base + Len(r.events)

(* _new_event_jsons: the events of a copy that the history lacks, and the  *)
(* four ways in which they can fail to continue it.                        *)
NewEvents(r, h) ==
    SubSeq(r.events, (IF Len(h) > r.base THEN Len(h) - r.base ELSE 0) + 1, Len(r.events))

ReplacesEvent(r, h) ==
    /\ r.base < Len(h) /\ Len(h) <= Cursor(r)
    /\ r.events[Len(h) - r.base] # h[Len(h)]
LeavesGap(r, h) == NewEvents(r, h) # <<>> /\ r.base > Len(h)
MissesCursor(r, h) == Cursor(r) # Len(h) + Len(NewEvents(r, h))

\* A mutant: events are only counted.
ConflictsByCursor(r, h) == LeavesGap(r, h) \/ MissesCursor(r, h)
\* A mutant: a copy that lacks events is not refused.
ConflictsByEvent(r, h) == LeavesGap(r, h) \/ ReplacesEvent(r, h)
Conflicts(r, h) == ReplacesEvent(r, h) \/ LeavesGap(r, h) \/ MissesCursor(r, h)

(* The copy is written as it is at this moment, which may be after another *)
(* task has recorded more in it; a conflicting copy raises.                *)
Write(c, t) ==
    /\ reserved = <<c, t>> /\ ~staged.open
    /\ ~Conflicts(copy[c], history)
    /\ staged' = [history |-> history \o NewEvents(copy[c], history),
                  state |-> copy[c].state, open |-> TRUE]
    /\ UNCHANGED <<durableVars, reserved, copyVars, made, lagging>>

Commit(c, t) ==
    /\ reserved = <<c, t>> /\ staged.open
    /\ history' = staged.history /\ state' = staged.state
    /\ reserved' = None /\ staged' = NoStage
    /\ lagging' = (c \in torn \/ lagging)
    /\ UNCHANGED <<copyVars, made>>

(* A conflict, an error, or the cancellation of the task before its commit. *)
Rollback(c, t) ==
    /\ reserved = <<c, t>>
    /\ reserved' = None /\ staged' = NoStage
    /\ UNCHANGED <<durableVars, copyVars, made, lagging>>

(* The process dies: an open transaction is undone, the copies are gone.   *)
Crash ==
    /\ reserved' = None /\ staged' = NoStage
    /\ phase' = [c \in Copies |-> "none"] /\ copy' = [c \in Copies |-> NoCopy]
    /\ seen' = [c \in Copies |-> <<>>] /\ torn' = {}
    /\ UNCHANGED <<durableVars, made, lagging>>

Next ==
    \/ \E c \in Copies :
          \/ GetState(c) \/ GetControl(c) \/ GetEvents(c) \/ Record(c) \/ Discard(c)
          \/ \E t \in Tasks : Begin(c, t) \/ Write(c, t) \/ Commit(c, t) \/ Rollback(c, t)
    \/ Crash

Spec == Init /\ [][Next]_vars

-----------------------------------------------------------------------------
(* Properties.                                                             *)

Prefix(g, h) == Len(g) <= Len(h) /\ \A i \in 1 .. Len(g) : g[i] = h[i]

(* No saved event is ever lost or replaced, and what is saved descends     *)
(* from everything saved before: a copy that has not seen the whole        *)
(* history, or has gone another way from some point of it, is refused,     *)
(* although only the last saved event is compared with it.                 *)
NothingLost ==
    [][durableVars' # durableVars =>
          /\ Prefix(history, history')
          /\ \E c \in Copies : phase[c] = "loaded" /\ Prefix(history', seen[c])]_vars

(* The state document contains every change of the history beside it and   *)
(* no other, unless a copy that was loaded across a commit has been saved: *)
(* verifier, controller and supervisor never undo one another's changes.   *)
StateIsNewest == ~lagging => state = history
=============================================================================
