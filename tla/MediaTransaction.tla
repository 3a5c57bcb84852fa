-------------------------- MODULE MediaTransaction --------------------------
(***************************************************************************)
(* Read-only virtual media lent to a target: the coordinator of            *)
(* harness/media_transaction.py and the daemon adapter it sends through,   *)
(* harness/daemon_media.py.                                                *)
(*                                                                         *)
(* A run owns one transaction. Its operations take the run's lock, so at   *)
(* most one is under way: task holds its locals, record what the run store *)
(* last saved. Two runs have two locks and may share one drive. A          *)
(* mutation of the drive is confirmed, refused, or lost, and a lost one    *)
(* may still land later.                                                   *)
(***************************************************************************)
EXTENDS Naturals

CONSTANTS
    Runs,
    Name,           \* media_name of each run's image, addressed by content
    Nobody

ASSUME MediaConstants == Nobody \notin Runs

VARIABLES
    record,         \* media_transaction.state in the run store
    artifact,       \* the private copy of the image exists
    task,           \* the operation under way
    drive,          \* the target's mass storage drive
    swapped,        \* the session now shows another machine or control epoch
    late,           \* a lost mutation that may still land
    sent,           \* history: how often each mutation was sent
    lost            \* history: a mutation's outcome became unknown

historyVars == <<sent, lost>>
vars == <<record, artifact, task, drive, swapped, late, historyVars>>

States == {"none", "prepared", "awaiting_approval", "rejected", "uploading", "selected",
           "attached", "detaching", "rolling_back", "released", "cleanup_required"}
Mutations == {"upload", "select", "connect", "disconnect", "clear", "remove"}

Idle == [mode |-> "none", pc |-> "idle", state |-> "none", step |-> "none"]

TypeOK ==
    /\ record \in [Runs -> States]
    /\ artifact \in [Runs -> BOOLEAN]
    /\ task \in [Runs -> [mode : {"none", "stage", "decide", "attach", "release", "rollback"},
                          pc : {"idle", "save", "preflight", "start", "send", "inspect",
                                "latch", "settle", "discard"},
                          state : States, step : Mutations \cup {"none"}]]
    /\ \A r \in Runs : task[r].pc \in {"start", "send"} => task[r].step # "none"
    /\ drive \in [images : SUBSET Runs, selected : Runs \cup {Nobody}, connected : BOOLEAN]
    /\ swapped \in BOOLEAN
    /\ late \in [Runs -> Mutations \cup {"none"}]
    /\ sent \in [Runs -> [Mutations -> Nat]]
    /\ lost \in [Runs -> BOOLEAN]

Init ==
    /\ record = [r \in Runs |-> "none"]
    /\ artifact = [r \in Runs |-> FALSE]
    /\ task = [r \in Runs |-> Idle]
    /\ drive = [images |-> {}, selected |-> Nobody, connected |-> FALSE]
    /\ swapped = FALSE
    /\ late = [r \in Runs |-> "none"]
    /\ sent = [r \in Runs |-> [m \in Mutations |-> 0]]
    /\ lost = [r \in Runs |-> FALSE]

-----------------------------------------------------------------------------
(* The drive, which names images and does not know who uploaded them.      *)

SameName(q, r) == q # Nobody /\ Name[q] = Name[r]
Present(r) == \E q \in drive.images : SameName(q, r)
Selected(r) == SameName(drive.selected, r)
Free(r) == ~drive.connected /\ drive.selected = Nobody /\ ~Present(r)

\* What the drive accepts, and what becomes of it.
Accepts(r, m) ==
    CASE m = "upload" -> ~Present(r)
      [] m = "select" -> ~drive.connected /\ Present(r)
      [] m = "connect" -> ~drive.connected /\ drive.selected # Nobody
      [] m = "disconnect" -> drive.connected
      [] m = "clear" -> ~drive.connected
      [] m = "remove" -> Present(r) /\ ~(drive.connected /\ Selected(r))

Effect(r, m) ==
    CASE m = "upload" -> [drive EXCEPT !.images = @ \cup {r}]
      [] m = "select" -> [drive EXCEPT !.selected = CHOOSE q \in drive.images : SameName(q, r)]
      [] m = "connect" -> [drive EXCEPT !.connected = TRUE]
      [] m = "disconnect" -> [drive EXCEPT !.connected = FALSE]
      [] m = "clear" -> [drive EXCEPT !.selected = Nobody]
      [] m = "remove" -> [drive EXCEPT !.images = {q \in @ : ~SameName(q, r)},
                                       !.selected = IF Selected(r) THEN Nobody ELSE @]

\* What an inspection must show once the mutation was confirmed.
Shows(r, m) ==
    CASE m = "none" -> TRUE
      [] m = "upload" -> Present(r)
      [] m = "select" -> Selected(r)
      [] m = "connect" -> drive.connected /\ Selected(r)
      [] m = "disconnect" -> ~drive.connected
      [] m = "clear" -> drive.selected = Nobody
      [] m = "remove" -> ~Present(r)

-----------------------------------------------------------------------------
(* Locals of an operation.                                                 *)

At(r, pc) == task[r].pc = pc
In(r, mode) == task[r].mode = mode
Sets(r, mode, pc, state, step) ==
    task' = [task EXCEPT ![r] = [mode |-> mode, pc |-> pc, state |-> state, step |-> step]]
Goes(r, pc) == task' = [task EXCEPT ![r].pc = pc]
Ends(r) == task' = [task EXCEPT ![r] = Idle]
Saves(r) == record' = [record EXCEPT ![r] = task[r].state]
Latches(r) == Sets(r, task[r].mode, "latch", "cleanup_required", task[r].step)

-----------------------------------------------------------------------------
(* stage_artifact: inspect the target, keep the image, save twice.         *)

StageArtifact(r) ==
    /\ At(r, "idle") /\ record[r] = "none" /\ Free(r) /\ ~swapped
    /\ artifact' = [artifact EXCEPT ![r] = TRUE]
    /\ Sets(r, "stage", "save", "prepared", "none")
    /\ UNCHANGED <<record, drive, swapped, late, historyVars>>

Staged(r) ==
    /\ At(r, "save") /\ In(r, "stage") /\ Saves(r)
    /\ IF task[r].state = "prepared"
       THEN Sets(r, "stage", "save", "awaiting_approval", "none")
       ELSE Ends(r)
    /\ UNCHANGED <<artifact, drive, swapped, late, historyVars>>

-----------------------------------------------------------------------------
(* resolve_approval.                                                       *)

Reject(r) ==
    /\ At(r, "idle") /\ record[r] = "awaiting_approval"
    /\ Sets(r, "decide", "settle", "rejected", "none")
    /\ UNCHANGED <<record, artifact, drive, swapped, late, historyVars>>

Approve(r) ==
    /\ At(r, "idle") /\ record[r] = "awaiting_approval"
    /\ Sets(r, "attach", "preflight", "awaiting_approval", "none")
    /\ UNCHANGED <<record, artifact, drive, swapped, late, historyVars>>

\* A mutant: the copy is dropped before the refusal is on record.
RefusedDiscarding(r) ==
    /\ At(r, "preflight") /\ In(r, "attach")
    /\ Sets(r, "decide", "settle", "rejected", "none")
    /\ artifact' = [artifact EXCEPT ![r] = FALSE]
    /\ UNCHANGED <<record, drive, swapped, late, historyVars>>

\* The inspection fails, the target is not as approved, or the lease ran out.
_refuse_before_mutation(r) ==
    /\ At(r, "preflight") /\ In(r, "attach")
    /\ Sets(r, "decide", "settle", "rejected", "none")
    /\ UNCHANGED <<record, artifact, drive, swapped, late, historyVars>>

_attach(r) ==
    /\ At(r, "preflight") /\ In(r, "attach") /\ Free(r) /\ ~swapped
    /\ Sets(r, "attach", "start", "uploading", "upload")
    /\ UNCHANGED <<record, artifact, drive, swapped, late, historyVars>>

-----------------------------------------------------------------------------
(* release, at the operator's word or when the lease has expired.          *)

Release(r) ==
    /\ At(r, "idle") /\ record[r] = "attached"
    /\ Sets(r, "release", "preflight", "attached", "none")
    /\ UNCHANGED <<record, artifact, drive, swapped, late, historyVars>>

ReleaseStarts(r) ==
    /\ At(r, "preflight") /\ In(r, "release")
    /\ ~swapped /\ drive.connected /\ Selected(r)
    /\ Sets(r, "release", "start", "detaching", "disconnect")
    /\ UNCHANGED <<record, artifact, drive, swapped, late, historyVars>>

ReleaseRefused(r) ==
    /\ At(r, "preflight") /\ In(r, "release")
    /\ Latches(r)
    /\ UNCHANGED <<record, artifact, drive, swapped, late, historyVars>>

-----------------------------------------------------------------------------
(* One mutation: checkpoint, send, inspect.                                *)

\* A mutant: nothing is saved until the mutation was verified.
CheckpointUnsaved(r) ==
    /\ At(r, "start") /\ Goes(r, "send")
    /\ sent' = [sent EXCEPT ![r][task[r].step] = @ + 1]
    /\ UNCHANGED <<record, artifact, drive, swapped, late, lost>>

\* The checkpoint is saved before the mutation it announces.
Checkpoint(r) ==
    /\ At(r, "start") /\ Saves(r) /\ Goes(r, "send")
    /\ sent' = [sent EXCEPT ![r][task[r].step] = @ + 1]
    /\ UNCHANGED <<artifact, drive, swapped, late, lost>>

\* A mutation sent after the target was swapped reaches another drive.
Confirmed(r) ==
    /\ At(r, "send") /\ Goes(r, "inspect")
    /\ IF swapped THEN UNCHANGED drive
                  ELSE Accepts(r, task[r].step) /\ drive' = Effect(r, task[r].step)
    /\ UNCHANGED <<record, artifact, swapped, late, historyVars>>

\* A definite failure is rolled back only while attaching.
Refused(r) ==
    /\ At(r, "send")
    /\ IF In(r, "attach") THEN Sets(r, "rollback", "save", "rolling_back", "none")
                          ELSE Latches(r)
    /\ UNCHANGED <<record, artifact, drive, swapped, late, historyVars>>

ResponseLost(r) ==
    /\ At(r, "send") /\ Latches(r)
    /\ late' = [late EXCEPT ![r] = IF swapped THEN "none" ELSE task[r].step]
    /\ lost' = [lost EXCEPT ![r] = TRUE]
    /\ UNCHANGED <<record, artifact, drive, swapped, sent>>

_latch_cleanup_required(r) ==
    /\ At(r, "latch") /\ Saves(r) /\ Ends(r)
    /\ UNCHANGED <<artifact, drive, swapped, late, historyVars>>

\* The inspection fails, or shows another target or another outcome.
Unproven(r) ==
    /\ At(r, "inspect") /\ Latches(r)
    /\ UNCHANGED <<record, artifact, drive, swapped, late, historyVars>>

Proves(r) == At(r, "inspect") /\ ~swapped /\ Shows(r, task[r].step)

\* A verified step is saved with the state it reached, then the next one starts.
Reached(r) ==
    CASE task[r].step = "select" -> "selected"
      [] task[r].step = "connect" -> "attached"
      [] task[r].step = "remove" -> "released"
      [] OTHER -> task[r].state

Verified(r) ==
    /\ Proves(r) /\ task[r].mode \in {"attach", "release"}
    /\ Sets(r, task[r].mode, IF task[r].step = "remove" THEN "settle" ELSE "save",
            Reached(r), task[r].step)
    /\ UNCHANGED <<record, artifact, drive, swapped, late, historyVars>>

Then(r) ==
    CASE task[r].step = "upload" -> "select"
      [] task[r].step = "select" -> "connect"
      [] task[r].step = "disconnect" -> "clear"
      [] task[r].step = "clear" -> "remove"

SavedStep(r) ==
    /\ At(r, "save") /\ task[r].mode \in {"attach", "release"} /\ Saves(r)
    /\ IF task[r].step = "connect" THEN Ends(r)
       ELSE Sets(r, task[r].mode, "start", task[r].state, Then(r))
    /\ UNCHANGED <<artifact, drive, swapped, late, historyVars>>

-----------------------------------------------------------------------------
(* _rollback_after_definite_failure: undo what the inspections still show. *)

\* A mutant: the rollback does not look before it acts.
RollbackBlind(r) ==
    /\ At(r, "save") /\ In(r, "rollback") /\ Saves(r) /\ Goes(r, "start")
    /\ UNCHANGED <<artifact, drive, swapped, late, historyVars>>

RollbackBegins(r) ==
    /\ At(r, "save") /\ In(r, "rollback") /\ Saves(r) /\ Goes(r, "inspect")
    /\ UNCHANGED <<artifact, drive, swapped, late, historyVars>>

\* Media of another name is in the way.
Unrelated(r) ==
    /\ task[r].step \in {"none", "disconnect"}
    /\ drive.selected # Nobody /\ ~Selected(r)

\* The undoing steps that follow m.
After(m) ==
    CASE m = "none" -> {"disconnect", "clear", "remove"}
      [] m = "disconnect" -> {"clear", "remove"}
      [] m = "clear" -> {"remove"}
      [] OTHER -> {}

\* A mutant: an image that is no longer selected counts as cleaned.
StillSelected(r) ==
    {m \in After(task[r].step) :
        (m = "disconnect" /\ drive.connected) \/ (m = "clear" /\ Selected(r))}

StillNeeded(r) ==
    {m \in After(task[r].step) :
        \/ m = "disconnect" /\ drive.connected
        \/ m = "clear" /\ Selected(r)
        \/ m = "remove" /\ Present(r)}

\* The first of the steps that the inspection shows to be needed.
Undo(r) ==
    /\ Proves(r) /\ In(r, "rollback") /\ ~Unrelated(r)
    /\ \/ /\ StillNeeded(r) = {}
          /\ Sets(r, "rollback", "settle", "released", task[r].step)
       \/ \E m \in StillNeeded(r) :
             /\ StillNeeded(r) \subseteq {m} \cup After(m)
             /\ Sets(r, "rollback", "start", "rolling_back", m)
    /\ UNCHANGED <<record, artifact, drive, swapped, late, historyVars>>

-----------------------------------------------------------------------------
(* The end of a transaction: save it, then drop the private copy.          *)

Settled(r) ==
    /\ At(r, "settle") /\ Saves(r) /\ Goes(r, "discard")
    /\ UNCHANGED <<artifact, drive, swapped, late, historyVars>>

Discarded(r) ==
    /\ At(r, "discard") /\ Ends(r)
    /\ artifact' = [artifact EXCEPT ![r] = FALSE]
    /\ UNCHANGED <<record, drive, swapped, late, historyVars>>

-----------------------------------------------------------------------------
(* What goes wrong around an operation.                                    *)

\* A failed save or removal latches where the code catches it: while attaching,
\* while releasing, and between the first and the last save of a rollback.
Caught(r) ==
    \/ In(r, "attach") /\ task[r].pc \in {"save", "start"}
    \/ In(r, "release") /\ task[r].pc \in {"save", "start", "settle", "discard"}
    \/ In(r, "rollback") /\ At(r, "start")

SaveFails(r) ==
    /\ task[r].pc \in {"save", "start", "latch", "settle", "discard"}
    /\ IF Caught(r) THEN Latches(r) ELSE Ends(r)
    /\ UNCHANGED <<record, artifact, drive, swapped, late, historyVars>>

\* The harness dies; what it had sent may still land.
Crash(r) ==
    /\ ~At(r, "idle") /\ Ends(r)
    /\ IF At(r, "send")
       THEN /\ late' = [late EXCEPT ![r] = IF swapped THEN "none" ELSE task[r].step]
            /\ lost' = [lost EXCEPT ![r] = TRUE]
       ELSE UNCHANGED <<late, lost>>
    /\ UNCHANGED <<record, artifact, drive, swapped, sent>>

LateEffect(r) ==
    /\ late[r] # "none" /\ late' = [late EXCEPT ![r] = "none"]
    /\ IF Accepts(r, late[r]) THEN drive' = Effect(r, late[r]) ELSE UNCHANGED drive
    /\ UNCHANGED <<record, artifact, task, swapped, historyVars>>

\* Someone at the target's own console undoes what is there.
ConsoleUndoes(r) ==
    /\ \E m \in {"disconnect", "clear", "remove"} :
         /\ m = "clear" => drive.selected # Nobody
         /\ Accepts(r, m) /\ drive' = Effect(r, m)
    /\ UNCHANGED <<record, artifact, task, swapped, late, historyVars>>

TargetSwapped ==
    /\ ~swapped /\ swapped' = TRUE
    /\ UNCHANGED <<record, artifact, task, drive, late, historyVars>>

Operation(r) ==
    \/ StageArtifact(r) \/ Staged(r) \/ Reject(r) \/ Approve(r)
    \/ _refuse_before_mutation(r) \/ _attach(r)
    \/ Release(r) \/ ReleaseStarts(r) \/ ReleaseRefused(r)
    \/ Checkpoint(r) \/ Verified(r) \/ SavedStep(r) \/ Unproven(r)
    \/ _latch_cleanup_required(r) \/ RollbackBegins(r) \/ Undo(r)
    \/ Settled(r) \/ Discarded(r)

Environment(r) ==
    \/ Confirmed(r) \/ Refused(r) \/ ResponseLost(r) \/ SaveFails(r)
    \/ Crash(r) \/ LateEffect(r) \/ ConsoleUndoes(r)

Next == TargetSwapped \/ \E r \in Runs : Operation(r) \/ Environment(r)

Spec == Init /\ [][Next]_vars

-----------------------------------------------------------------------------
\* No mutation is ever sent twice, and none after one whose outcome is unknown,
\* across crashes, failed saves and repeated decisions of the operator.
NoRetry ==
    [][\A r \in Runs : sent'[r] # sent[r] =>
          /\ ~lost[r]
          /\ \A m \in Mutations : sent'[r][m] <= 1]_vars

\* The run store knows of every image on the drive: one that is there, or that a
\* lost upload may still put there, belongs to a transaction whose saved state
\* admits it. A record that says rejected or released is true, and stays true.
DriveAccounted ==
    \A r \in Runs :
       r \in drive.images \/ late[r] = "upload" =>
          record[r] \in {"uploading", "selected", "attached", "detaching",
                        "rolling_back", "cleanup_required"}

\* The private copy outlives every transaction whose end is not on record.
ArtifactKept ==
    \A r \in Runs : record[r] \notin {"none", "rejected", "released"} => artifact[r]
=============================================================================
