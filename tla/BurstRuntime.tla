---------------------------- MODULE BurstRuntime ----------------------------
(***************************************************************************)
(* Direct burst control of one daemon session (pikvm_agent/runtime.py):    *)
(* Runtime.run_burst, submit_approval for a held burst, abort_session and  *)
(* the reports that revoke a controller's authority.                       *)
(*                                                                         *)
(* The daemon is one asyncio loop, so an action is the code between two    *)
(* awaits.  Every request is a coroutine of its own; an execution claim is *)
(* a task that outlives the request that created it (asyncio.shield), and  *)
(* is named after that request.  The session store is one FIFO connection, *)
(* so a write takes effect where it is issued.                             *)
(***************************************************************************)
EXTENDS Naturals, FiniteSets

CONSTANTS
    Requests,   \* calls of run_burst and of submit_approval
    Keys,       \* idempotency keys (non-blank, at most 160 characters)
    Digests,    \* sha256 of actions, budget, session and machine
    Verdicts,   \* what classify_direct_burst may answer in this run
    NActions,   \* actions of a burst, each an input
    LocalPointerFreshness,  \* the resettable benchmark profile is on
    MaxEpoch,   \* bound: no human input once the epoch has reached it
    MaxWorld,   \* bound: highest world version the screen reaches
    None

ASSUME BurstConstants ==
    /\ NActions \in Nat \ {0}
    /\ MaxEpoch \in Nat /\ MaxWorld \in Nat
    /\ LocalPointerFreshness \in BOOLEAN
    /\ Verdicts \subseteq {"allowed", "approval_required", "blocked"}
    /\ None \notin Requests \cup Keys \cup Digests

VARIABLES
    \* --- one coroutine per request
    pc,         \* where the request is suspended
    arg,        \* its key, digest, planned epoch and world, decided approval
    claim,      \* the execution claim it awaits
    answer,     \* the status it answers with
    \* --- SessionRuntime
    epoch,      \* control_epoch
    stopped,    \* the sticky brake
    status,     \* in-memory session status
    stored,     \* the status column of the session store
    block,      \* other_client_block_active
    idem,       \* burst_idempotency: receipt of each key
    inflight,   \* burst_inflight: claim of each key
    semantic,   \* burst_semantic_inflight: claim of each digest
    unsafe,     \* burst_unsafe_semantic_receipts: retained result, by digest
    aliases,    \* the "keys" set of each claim
    \* --- the store's approvals table, an approval named by its request
    approvals,
    \* --- execution tasks
    task,       \* stage, completed actions and whether input was emitted
    \* --- the target machine
    world,      \* version of what the screen shows
    others      \* another client is connected to the machine

reqVars  == <<pc, arg, claim, answer>>
sessVars == <<epoch, stopped, status, stored, block>>
mapVars  == <<idem, inflight, semantic, unsafe, aliases>>
envVars  == <<world, others>>
vars == <<reqVars, sessVars, mapVars, approvals, task, envVars>>

Outcomes == {"completed", "unverified", "interrupted", "failed"}
Results == Outcomes \cup {"stopped", "needs_approval", "blocked"}
Refusals == {"idempotency_conflict", "stale_world", "control_changed", "freshness_required"}
Decided == {"rejected"}   \* "rejected", or "resolved" for take_over

Args == [key: Keys \cup {None}, digest: Digests \cup {None},
         epoch: Nat, world: Nat, aid: Requests \cup {None}]
NoArg == [key |-> None, digest |-> None, epoch |-> 0, world |-> 0, aid |-> None]

Receipts == [digest: Digests \cup {None},
             st: {"none", "approval_pending", "completed"} \cup Decided,
             result: Results \cup {"none"}]
NoReceipt == [digest |-> None, st |-> "none", result |-> "none"]

Tasks == [stage: {"none", "gate", "hid", "done"}, step: Nat,
          emitted: BOOLEAN, outcome: Outcomes \cup {"none", "raised"}]
NoTask == [stage |-> "none", step |-> 0, emitted |-> FALSE, outcome |-> "none"]

\* One type invariant: every variable has its shape.
TypeOK ==
    /\ pc \in [Requests -> {"idle", "deciding", "capture", "ground", "hold", "record",
                            "wait", "finish", "reject", "rejected", "done", "gone"}]
    /\ arg \in [Requests -> Args]
    /\ claim \in [Requests -> Requests \cup {None}]
    /\ answer \in [Requests -> Results \cup Refusals \cup {"none"}]
    /\ epoch \in Nat /\ stopped \in BOOLEAN /\ block \in BOOLEAN
    /\ status \in {"running", "paused", "needs_approval", "failed"}
    /\ stored \in {"running", "paused", "needs_approval", "failed"}
    /\ idem \in [Keys -> Receipts]
    /\ inflight \in [Keys -> Requests \cup {None}]
    /\ semantic \in [Digests -> Requests \cup {None}]
    /\ unsafe \in [Digests -> Results \cup {"none"}]
    /\ aliases \in [Requests -> SUBSET Keys]
    /\ approvals \in [Requests -> {"none", "pending", "approved",
                                   "approved_not_executed"} \cup Decided]
    /\ task \in [Requests -> Tasks]
    /\ world \in Nat /\ others \in BOOLEAN

Init ==
    /\ pc = [r \in Requests |-> "idle"]
    /\ arg = [r \in Requests |-> NoArg]
    /\ claim = [r \in Requests |-> None]
    /\ answer = [r \in Requests |-> "none"]
    /\ epoch = 0 /\ stopped = FALSE /\ block = FALSE
    /\ status = "running" /\ stored = "running"
    /\ idem = [k \in Keys |-> NoReceipt]
    /\ inflight = [k \in Keys |-> None]
    /\ semantic = [d \in Digests |-> None]
    /\ unsafe = [d \in Digests |-> "none"]
    /\ aliases = [r \in Requests |-> {}]
    /\ approvals = [r \in Requests |-> "none"]
    /\ task = [r \in Requests |-> NoTask]
    /\ world = 0 /\ others = FALSE

-----------------------------------------------------------------------------
(* Answers.  A run_burst that an approval started ends by resolving that   *)
(* approval, whatever its status is by then.                               *)

\* A mutant: the approval takes the burst's status.
ResolvedWithStatus(a, word) ==
    IF a = None THEN approvals ELSE [approvals EXCEPT ![a] = word]

Resolved(a, word) ==
    IF a = None THEN approvals
    ELSE [approvals EXCEPT ![a] = IF word = "completed" THEN "approved"
                                  ELSE "approved_not_executed"]

Answer(r, x, word) ==
    /\ pc' = [pc EXCEPT ![r] = "done"]
    /\ arg' = [arg EXCEPT ![r] = x]
    /\ answer' = [answer EXCEPT ![r] = word]
    /\ approvals' = Resolved(x.aid, word)
    /\ UNCHANGED <<claim, task>>

(* The status write that precedes every return of a claimed request.       *)
SetStatus(s) == status' = s /\ stored' = s

-----------------------------------------------------------------------------
(* Receipts of earlier requests, looked up before the first await and once *)
(* more in the critical section that creates the claim.                    *)

Conflict(x) == idem[x.key].st # "none" /\ idem[x.key].digest # x.digest

\* A mutant: a receipt is replayed for any actions.
ReplayableByKey(x) == idem[x.key].st # "none" /\ x.aid = None

Replayable(x) ==
    /\ idem[x.key].st # "none" /\ idem[x.key].digest = x.digest
    /\ idem[x.key].st # "approval_pending" \/ x.aid = None

ReplayReceipt(r, x) ==
    \/ /\ Conflict(x)
       /\ Answer(r, x, "idempotency_conflict")
       /\ UNCHANGED idem
    \/ /\ Replayable(x)
       /\ Answer(r, x, idem[x.key].result)
       /\ UNCHANGED idem

(* replay_unsafe_semantic_receipt aliases the key to the retained result.  *)
ReplayUnsafe(r, x) ==
    /\ ~Conflict(x) /\ ~Replayable(x)
    /\ unsafe[x.digest] # "none"
    /\ idem' = [idem EXCEPT ![x.key] = [digest |-> x.digest, st |-> "completed",
                                        result |-> unsafe[x.digest]]]
    /\ Answer(r, x, unsafe[x.digest])

Unseen(x) == ~Conflict(x) /\ ~Replayable(x) /\ unsafe[x.digest] = "none"

(* run_burst up to its first await.                                        *)
EnterBurst(r, x) ==
    \/ /\ stopped
       /\ Answer(r, x, "stopped")
       /\ UNCHANGED <<sessVars, mapVars>>
    \/ /\ ~stopped
       /\ ReplayReceipt(r, x)
       /\ UNCHANGED <<sessVars, inflight, semantic, unsafe, aliases>>
    \/ /\ ~stopped
       /\ ReplayUnsafe(r, x)
       /\ UNCHANGED <<sessVars, inflight, semantic, unsafe, aliases>>
    \/ /\ ~stopped /\ Unseen(x)
       /\ pc' = [pc EXCEPT ![r] = "capture"]
       /\ arg' = [arg EXCEPT ![r] = x]
       /\ UNCHANGED <<claim, answer, sessVars, mapVars, approvals, task>>

(* A controller submits a burst planned against some earlier observation.  *)
Submit(r) ==
    /\ pc[r] = "idle"
    /\ \E k \in Keys, d \in Digests, e \in 0..epoch, w \in 0..world :
          EnterBurst(r, [key |-> k, digest |-> d, epoch |-> e, world |-> w, aid |-> None])
    /\ UNCHANGED envVars

(* validate_actions fails: the session is left paused, in memory only.     *)
RefuseMalformed(r) ==
    /\ pc[r] = "idle" /\ ~stopped
    /\ status' = "paused"
    /\ Answer(r, NoArg, "failed")
    /\ UNCHANGED <<epoch, stopped, stored, block, mapVars, envVars>>

(* A blank or oversized key, or no world version or epoch to check.        *)
RefuseUnanchored(r) ==
    /\ pc[r] = "idle" /\ ~stopped
    /\ \E word \in {"failed", "freshness_required"} : Answer(r, NoArg, word)
    /\ UNCHANGED <<sessVars, mapVars, envVars>>

-----------------------------------------------------------------------------
(* Authority.  A newly seen machine client counts as a human taking over.  *)

Revoked == others /\ ~block

RevokeForOtherClient ==
    /\ epoch' = IF Revoked THEN epoch + 1 ELSE epoch
    /\ block' = (block \/ others)

(* The gate polled before every action and every chunk of input.           *)
GateOpen(t) == ~stopped /\ ~others /\ epoch = arg[t].epoch

(* The first capture and the checks made on it without an await between.   *)
Capture(r) ==
    /\ pc[r] = "capture"
    /\ \/ /\ world # arg[r].world
          /\ Answer(r, arg[r], "stale_world")
          /\ UNCHANGED sessVars
       \/ /\ world = arg[r].world \/ LocalPointerFreshness
          /\ epoch # arg[r].epoch
          /\ Answer(r, arg[r], "control_changed")
          /\ UNCHANGED sessVars
       \/ /\ world = arg[r].world \/ LocalPointerFreshness
          /\ epoch = arg[r].epoch /\ others
          /\ RevokeForOtherClient
          /\ Answer(r, arg[r], "control_changed")
          /\ UNCHANGED <<stopped, status, stored>>
       \/ /\ world = arg[r].world \/ LocalPointerFreshness
          /\ epoch = arg[r].epoch /\ ~others
          /\ block' = FALSE
          /\ pc' = [pc EXCEPT ![r] = "ground"]
          /\ UNCHANGED <<arg, claim, answer, epoch, stopped, status, stored, approvals, task>>
    /\ UNCHANGED <<mapVars, envVars>>

-----------------------------------------------------------------------------
(* The critical section under burst_claim_lock has no await in it.         *)

\* A mutant: only the key keeps a second claim out.
NewClaimByKeyOnly(r, x) ==
    /\ inflight[x.key] = None
    /\ task' = [task EXCEPT ![r] = [NoTask EXCEPT !.stage = "gate"]]
    /\ claim' = [claim EXCEPT ![r] = r]
    /\ aliases' = [aliases EXCEPT ![r] = {x.key}]
    /\ inflight' = [inflight EXCEPT ![x.key] = r]
    /\ semantic' = [semantic EXCEPT ![x.digest] = r]

NewClaim(r, x) ==
    /\ inflight[x.key] = None /\ semantic[x.digest] = None
    /\ task' = [task EXCEPT ![r] = [NoTask EXCEPT !.stage = "gate"]]
    /\ claim' = [claim EXCEPT ![r] = r]
    /\ aliases' = [aliases EXCEPT ![r] = {x.key}]
    /\ inflight' = [inflight EXCEPT ![x.key] = r]
    /\ semantic' = [semantic EXCEPT ![x.digest] = r]

JoinClaim(r, x, t) ==
    /\ t # None /\ arg[t].digest = x.digest
    /\ \/ t = inflight[x.key]
       \/ inflight[x.key] = None /\ t = semantic[x.digest]
    /\ claim' = [claim EXCEPT ![r] = t]
    /\ aliases' = [aliases EXCEPT ![t] = @ \cup {x.key}]
    /\ inflight' = [inflight EXCEPT ![x.key] = t]
    /\ UNCHANGED <<task, semantic>>

\* A mutant: receipts are not read again under the lock.
ClaimWithoutRecheck(r, x) ==
    /\ NewClaim(r, x) \/ \E t \in Requests : JoinClaim(r, x, t)
    /\ pc' = [pc EXCEPT ![r] = "wait"]
    /\ SetStatus("running")
    /\ UNCHANGED <<arg, answer, epoch, stopped, block, idem, unsafe, approvals>>

ClaimExecution(r, x) ==
    \/ /\ ReplayReceipt(r, x) \/ ReplayUnsafe(r, x)
       /\ UNCHANGED <<sessVars, inflight, semantic, unsafe, aliases>>
    \/ /\ Unseen(x)
       /\ inflight[x.key] # None
       /\ arg[inflight[x.key]].digest # x.digest
       /\ Answer(r, x, "idempotency_conflict")
       /\ UNCHANGED <<sessVars, mapVars>>
    \/ /\ Unseen(x)
       /\ NewClaim(r, x) \/ \E t \in Requests : JoinClaim(r, x, t)
       /\ pc' = [pc EXCEPT ![r] = "wait"]
       /\ SetStatus("running")
       /\ UNCHANGED <<arg, answer, epoch, stopped, block, idem, unsafe, approvals>>

(* Grounding has been awaited: policy decides, then hold or claim.         *)
Ground(r) ==
    /\ pc[r] = "ground"
    /\ \E v \in Verdicts :
          \/ /\ v = "blocked"
             /\ Answer(r, arg[r], "blocked")
             /\ UNCHANGED <<sessVars, mapVars>>
          \/ /\ v = "approval_required" /\ arg[r].aid = None
             /\ approvals' = [approvals EXCEPT ![r] = "pending"]
             /\ pc' = [pc EXCEPT ![r] = "hold"]
             /\ UNCHANGED <<arg, claim, answer, sessVars, mapVars, task>>
          \/ /\ v = "allowed" \/ (v = "approval_required" /\ arg[r].aid # None)
             /\ ClaimExecution(r, arg[r])
    /\ UNCHANGED envVars

(* save_approval returned: the session waits for a human.                  *)
HoldStatus(r) ==
    /\ pc[r] = "hold"
    /\ SetStatus("needs_approval")
    /\ pc' = [pc EXCEPT ![r] = "record"]
    /\ UNCHANGED <<arg, claim, answer, epoch, stopped, block, mapVars, approvals, task, envVars>>

(* update_session returned: the key's receipt becomes the approval hold.   *)
HoldRecord(r) ==
    /\ pc[r] = "record"
    /\ idem' = [idem EXCEPT ![arg[r].key] =
                   [digest |-> arg[r].digest, st |-> "approval_pending",
                    result |-> "needs_approval"]]
    /\ Answer(r, arg[r], "needs_approval")
    /\ UNCHANGED <<sessVars, inflight, semantic, unsafe, aliases, envVars>>

-----------------------------------------------------------------------------
(* The execution task: executor/burst.py's loop, one gate poll per action. *)

Live(t) == task[t].stage \in {"gate", "hid"}

EndTask(t, outcome, n) ==
    task' = [task EXCEPT ![t] = [@ EXCEPT !.stage = "done", !.outcome = outcome, !.step = n]]

OnlyTask == UNCHANGED <<reqVars, sessVars, mapVars, approvals, envVars>>

\* A mutant: a closed gate is waited for.
TaskGateWaits(t) ==
    /\ task[t].stage = "gate" /\ GateOpen(t)
    /\ task' = [task EXCEPT ![t] = [@ EXCEPT !.stage = "hid", !.emitted = TRUE]]
    /\ OnlyTask

(* The poll before an action: refused, past the deadline, or dispatched.   *)
TaskGate(t) ==
    /\ task[t].stage = "gate"
    /\ \/ /\ ~GateOpen(t)
          /\ RevokeForOtherClient
          /\ EndTask(t, "interrupted", task[t].step)
       \/ /\ GateOpen(t)
          /\ EndTask(t, "interrupted", task[t].step)
          /\ UNCHANGED <<epoch, block>>
       \/ /\ GateOpen(t)
          /\ task' = [task EXCEPT ![t] = [@ EXCEPT !.stage = "hid", !.emitted = TRUE]]
          /\ UNCHANGED <<epoch, block>>
    /\ UNCHANGED <<reqVars, stopped, status, stored, mapVars, approvals, envVars>>

(* The action is done; after the last one the burst is.                    *)
TaskAct(t) ==
    /\ task[t].stage = "hid"
    /\ IF task[t].step + 1 < NActions
       THEN task' = [task EXCEPT ![t] = [@ EXCEPT !.stage = "gate", !.step = task[t].step + 1]]
       ELSE EndTask(t, "completed", NActions)
    /\ OnlyTask

(* A chunk's poll is refused, or the deadline passes, inside an action.    *)
TaskInterrupted(t) ==
    /\ task[t].stage = "hid"
    /\ EndTask(t, "interrupted", task[t].step)
    /\ \/ ~GateOpen(t) /\ RevokeForOtherClient
       \/ UNCHANGED <<epoch, block>>
    /\ UNCHANGED <<reqVars, stopped, status, stored, mapVars, approvals, envVars>>

(* The backend fails or the text is not verified: the burst ends there,    *)
(* unless the text is ambiguous and only passive actions remain.           *)
TaskFails(t) ==
    /\ task[t].stage = "hid"
    /\ \/ EndTask(t, "failed", task[t].step)
       \/ EndTask(t, "unverified", NActions)
    /\ OnlyTask

(* The action is of a type _dispatch does not know, which validate_actions *)
(* lets pass: BurstError ends the task, whatever its earlier actions did.  *)
TaskRaises(t) ==
    /\ task[t].stage = "gate" /\ GateOpen(t)
    /\ EndTask(t, "raised", task[t].step)
    /\ OnlyTask

-----------------------------------------------------------------------------
(* The rest of every request that awaits the claim, joiners included.      *)

(* The post-action settle polls the gate once more.                        *)
PostSettle(r) ==
    /\ pc[r] = "wait" /\ task[claim[r]].outcome = "completed" /\ Revoked
    /\ RevokeForOtherClient
    /\ UNCHANGED <<reqVars, stopped, status, stored, mapVars, approvals, task, envVars>>

(* The final capture (which may fail), then the session's status.          *)
Settle(r) ==
    /\ pc[r] = "wait"
    /\ task[claim[r]].stage = "done" /\ task[claim[r]].outcome # "raised"
    /\ SetStatus(IF stopped THEN "failed" ELSE "paused")
    /\ \E effective \in {task[claim[r]].outcome, "failed"} :
          answer' = [answer EXCEPT ![r] = IF stopped THEN "stopped" ELSE effective]
    /\ pc' = [pc EXCEPT ![r] = "finish"]
    /\ UNCHANGED <<arg, claim, epoch, stopped, block, mapVars, approvals, task, envVars>>

\* A mutant: only failures are retained.
RetainFailed(t, word) == task[t].step > 0 /\ word = "failed"

(* retain_unsafe: never for a task that raised; otherwise for a burst with *)
(* a completed action that does not answer completed.                      *)
RetainUnsafe(t, word) ==
    task[t].outcome # "raised" /\ task[t].step > 0 /\ word # "completed"

(* finish_execution_claim: receipts for every alias, claims popped only if *)
(* they are still this one.                                                *)
FinishClaim(t, word) ==
    LET d == arg[t].digest IN
    /\ idem' = [k \in Keys |-> IF k \in aliases[t]
                               THEN [digest |-> d, st |-> "completed", result |-> word]
                               ELSE idem[k]]
    /\ inflight' = [k \in Keys |-> IF k \in aliases[t] /\ inflight[k] = t
                                   THEN None ELSE inflight[k]]
    /\ semantic' = [semantic EXCEPT ![d] = IF @ = t THEN None ELSE @]
    /\ unsafe' = [unsafe EXCEPT ![d] = IF RetainUnsafe(t, word) THEN word ELSE @]
    /\ UNCHANGED aliases

Finish(r) ==
    /\ pc[r] = "finish"
    /\ FinishClaim(claim[r], answer[r])
    /\ Answer(r, arg[r], answer[r])
    /\ UNCHANGED <<sessVars, envVars>>

(* The task's BurstError: no capture, no store write and no look at the    *)
(* brake; the claim is finished at once and nothing is retained.           *)
BadBurst(r) ==
    /\ pc[r] = "wait"
    /\ task[claim[r]].stage = "done" /\ task[claim[r]].outcome = "raised"
    /\ status' = "paused"
    /\ FinishClaim(claim[r], "failed")
    /\ Answer(r, arg[r], "failed")
    /\ UNCHANGED <<epoch, stopped, stored, block, envVars>>

(* The client is gone: its coroutine is cancelled at an await.  The claim  *)
(* and the task stay behind.                                               *)
Cancel(r) ==
    /\ pc[r] \notin {"idle", "done", "gone"}
    /\ pc' = [pc EXCEPT ![r] = "gone"]
    /\ UNCHANGED <<arg, claim, answer, sessVars, mapVars, approvals, task, envVars>>

-----------------------------------------------------------------------------
(* submit_approval: the row is read pending, the decision applied later.   *)

Decide(r, a) ==
    /\ pc[r] = "idle"
    /\ approvals[a] = "pending"
    /\ \E stage \in {"deciding", "reject"} : pc' = [pc EXCEPT ![r] = stage]
    /\ arg' = [arg EXCEPT ![r] = [arg[a] EXCEPT !.aid = a]]
    /\ UNCHANGED <<claim, answer, sessVars, mapVars, approvals, task, envVars>>

(* approve: run_burst with the stored arguments and the approved digest.   *)
Approve(r) ==
    /\ pc[r] = "deciding"
    /\ EnterBurst(r, arg[r])
    /\ UNCHANGED envVars

(* reject or take_over: the row is resolved ...                            *)
RejectResolve(r) ==
    /\ pc[r] = "reject"
    /\ approvals' = [approvals EXCEPT ![arg[r].aid] = "rejected"]
    /\ pc' = [pc EXCEPT ![r] = "rejected"]
    /\ UNCHANGED <<arg, claim, answer, sessVars, mapVars, task, envVars>>

(* ... then the key's receipt and the session's status are rewritten.      *)
RejectApply(r) ==
    /\ pc[r] = "rejected"
    /\ LET k == arg[r].key IN
       idem' = IF idem[k].st = "none" THEN idem
               ELSE [idem EXCEPT ![k] = [@ EXCEPT !.st = "rejected", !.result = "blocked"]]
    /\ SetStatus("paused")
    /\ pc' = [pc EXCEPT ![r] = "done"]
    /\ answer' = [answer EXCEPT ![r] = "blocked"]
    /\ UNCHANGED <<arg, claim, epoch, stopped, block,
                   inflight, semantic, unsafe, aliases, approvals, task, envVars>>

-----------------------------------------------------------------------------
(* Everyone else.                                                          *)

AbortSession ==
    /\ epoch <= MaxEpoch
    /\ epoch' = epoch + 1
    /\ stopped' = TRUE
    /\ SetStatus("failed")
    /\ UNCHANGED <<reqVars, block, mapVars, approvals, task, envVars>>

(* report_external_cursor skips stopped sessions.                          *)
HumanInput ==
    /\ epoch < MaxEpoch /\ ~stopped
    /\ epoch' = epoch + 1
    /\ UNCHANGED <<reqVars, stopped, status, stored, block, mapVars, approvals, task, envVars>>

(* The screen changes, or another client connects or leaves.               *)
Machine ==
    /\ \/ world < MaxWorld /\ world' = world + 1 /\ UNCHANGED others
       \/ epoch <= MaxEpoch /\ others' = ~others /\ UNCHANGED world
    /\ UNCHANGED <<reqVars, sessVars, mapVars, approvals, task>>

Progress(r) ==
    \/ Capture(r) \/ Ground(r) \/ HoldStatus(r) \/ HoldRecord(r)
    \/ Settle(r) \/ Finish(r) \/ BadBurst(r)
    \/ Approve(r) \/ RejectResolve(r) \/ RejectApply(r)

TaskStep(t) ==
    TaskGate(t) \/ TaskAct(t) \/ TaskInterrupted(t) \/ TaskFails(t) \/ TaskRaises(t)

Next ==
    \/ \E r \in Requests :
          \/ Submit(r) \/ RefuseMalformed(r) \/ RefuseUnanchored(r)
          \/ \E a \in Requests : Decide(r, a)
          \/ Progress(r) \/ PostSettle(r) \/ Cancel(r) \/ TaskStep(r)
    \/ AbortSession \/ HumanInput \/ Machine

Spec == Init /\ [][Next]_vars

(* Coroutines are scheduled and a burst is bounded by its deadline.        *)
FairSpec ==
    /\ Spec
    /\ \A r \in Requests : WF_vars(Progress(r)) /\ WF_vars(TaskStep(r))

-----------------------------------------------------------------------------
(* Properties.                                                             *)

Executed == {t \in Requests : task[t].stage # "none"}

(* However requests, retries and late joiners interleave, at most one task *)
(* of a digest and at most one task of a key runs at any time: run_burst's *)
(* claims are created and popped without losing a live one.                *)
SingleFlight ==
    \A t, u \in Executed :
        t # u /\ Live(t) /\ Live(u) => /\ arg[t].digest # arg[u].digest
                                      /\ arg[t].key # arg[u].key

(* An idempotency key runs twice only if a human approval started one of   *)
(* the two: no unapproved retry of run_burst repeats a key's input.        *)
UnapprovedKeyOnce ==
    \A t, u \in Executed :
        t # u /\ arg[t].key = arg[u].key => arg[t].aid # None \/ arg[u].aid # None

(* A request is answered "completed" only for a burst whose own actions    *)
(* all ran: no receipt, alias or joined claim reports another's success.   *)
AnswerHonest ==
    \A r \in Requests :
        pc[r] = "done" /\ answer[r] = "completed" =>
            \E t \in Executed : /\ arg[t].digest = arg[r].digest
                                /\ task[t].outcome = "completed"

\* Ended short by an outcome that run_burst looks at; a task that raised is
\* the exception below.
Ended(t) == task[t].stage = "done" /\ task[t].outcome \notin {"completed", "raised"}

(* The at-most-once brake of run_burst: once a burst with a completed      *)
(* action has ended without success, its actions are never run again in    *)
(* the session, under any key and whichever response was lost.  A burst    *)
(* that raised BurstError after a completed action is excepted: the code   *)
(* retains nothing of it, and a new key runs its actions again.            *)
NoRepeatAfterUnsafe ==
    [][\A r, t \in Requests :
          /\ task[r].stage = "none" /\ task'[r].stage # "none"
          /\ Ended(t) /\ task[t].step > 0
          => arg'[r].digest # arg[t].digest]_vars

(* The executions of a session are those of an at-most-once ledger: keys,  *)
(* digests, twins and uncertain results are treated as BurstLedger says,   *)
(* whatever the requests, retries, lost clients and approvals do.          *)
Ledger == INSTANCE BurstLedger WITH
    Runs <- Requests,
    log <- {[id |-> t, key |-> arg[t].key, digest |-> arg[t].digest,
             approved |-> arg[t].aid # None] : t \in Executed},
    running <- {t \in Requests : Live(t)},
    burnt <- {arg[t].digest : t \in {u \in Requests : Ended(u) /\ task[u].step > 0}}

ImplementsLedger == Ledger!Spec

(* Every request is answered unless its client left.                       *)
Answered == \A r \in Requests : pc[r] # "idle" ~> pc[r] \in {"done", "gone"}

(* After an abort every execution task ends.                               *)
StopQuiesces == stopped ~> \A t \in Requests : ~Live(t)
=============================================================================
