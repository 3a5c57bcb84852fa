--------------------------- MODULE OperatorGraph ---------------------------
(***************************************************************************)
(* The autonomous operator loop of one session: the nodes and routers of   *)
(* pikvm_agent/graph, executed by Runtime.continue_session and             *)
(* submit_approval, with the executor's per-action gate.                   *)
(*                                                                         *)
(* A node is an action, or several where it awaits in the middle: the      *)
(* capture, the model call and every HID call are points at which an       *)
(* abort, a human input or a repaint can land, and at which the call may   *)
(* raise or be cancelled.  One call runs at a time.                        *)
(***************************************************************************)
EXTENDS Naturals

CONSTANTS
    MaxSteps,     \* max_steps of the loop
    NActions,     \* actions of a transaction
    Deadlines,    \* calls may carry max_runtime_ms
    MaxEpoch,     \* bound: human inputs and aborts stop at this epoch
    MaxWorld,     \* bound: highest world version
    StepBound     \* bound: decisions explored, above MaxSteps

ASSUME GraphConstants ==
    /\ MaxSteps \in Nat \ {0} /\ NActions \in Nat \ {0}
    /\ MaxEpoch \in Nat /\ MaxWorld \in Nat /\ StepBound \in Nat
    /\ Deadlines \in BOOLEAN

VARIABLES
    at,         \* the node the invocation is in, or is suspended at
    call,       \* where a continue_session or submit_approval call is
    lost,       \* the last call raised or was cancelled before _after_run
    raced,      \* the last abort landed between the two writes of a hold
    \* --- AgentState
    step, gstatus,
    decision,   \* risk and planned world of the operator's decision
    approved,   \* the human has approved ... whatever executes next
    stamp,      \* control_epoch stamped on the decision
    seen,       \* world_version of the frame the loop observed
    txs,        \* tx_this_call
    tr,         \* transaction_result.status
    \* --- the budget of the current call
    maxTx, deadline, late,
    \* --- SessionRuntime and the store
    epoch, stopped, status, stored,
    \* --- the machine and its input
    world,
    acted,      \* actions of the current transaction sent so far
    \* --- what the human really approved
    consented   \* decisions, by step

callVars   == <<call, lost, raced>>
stateVars  == <<step, gstatus, decision, approved, stamp, seen, txs, tr>>
budgetVars == <<maxTx, deadline, late>>
sessVars   == <<epoch, stopped, status, stored>>
vars == <<at, callVars, stateVars, budgetVars, sessVars, world, acted, consented>>

Risks == {"low", "requires_human", "always_block"}
Decisions == [risk: Risks, world: Nat, fresh: BOOLEAN]
NoDecision == [risk |-> "low", world |-> 0, fresh |-> TRUE]

Nodes == {"idle", "observe_frame", "operator_decide", "policy_gate", "human_interrupt",
          "execute_transaction", "capture", "acting", "sending", "verify_result",
          "recover", "recovering", "budget_pause", "finalise", "end", "holding"}
SessionStatus == {"running", "paused", "needs_approval", "done", "failed", "blocked"}

\* One type invariant: every variable has its shape.
TypeOK ==
    /\ at \in Nodes /\ call \in {"none", "connecting", "graph"}
    /\ lost \in BOOLEAN /\ raced \in BOOLEAN
    /\ step \in Nat /\ gstatus \in SessionStatus \ {"paused"}
    /\ decision \in Decisions /\ approved \in BOOLEAN
    /\ stamp \in Nat /\ seen \in Nat /\ txs \in Nat
    /\ tr \in {"none", "executed", "failed", "blocked_by_policy",
               "failed_stale_frame", "deferred_budget"}
    /\ maxTx \in Nat /\ deadline \in BOOLEAN /\ late \in BOOLEAN
    /\ epoch \in Nat /\ stopped \in BOOLEAN
    /\ status \in SessionStatus /\ stored \in SessionStatus
    /\ world \in Nat /\ acted \in Nat
    /\ consented \subseteq Nat

Init ==
    /\ at = "idle" /\ call = "none" /\ lost = FALSE /\ raced = FALSE
    /\ step = 0 /\ gstatus = "running" /\ decision = NoDecision
    /\ approved = FALSE /\ stamp = 0 /\ seen = 0 /\ txs = 0 /\ tr = "none"
    /\ maxTx = 0 /\ deadline = FALSE /\ late = FALSE
    /\ epoch = 0 /\ stopped = FALSE /\ status = "running" /\ stored = "running"
    /\ world = 0 /\ acted = 0
    /\ consented = {}

Invoked == call = "graph"

-----------------------------------------------------------------------------
(* Perception and decision.                                                *)

(* observe_frame, parse_screen and detect_state: nothing else changes      *)
(* while they run, so they are one step at the capture.                    *)
ObserveFrame ==
    /\ Invoked /\ at = "observe_frame"
    /\ seen' = world /\ gstatus' = "running"
    /\ at' = "operator_decide"
    /\ UNCHANGED <<callVars, step, decision, approved, stamp, txs, tr, budgetVars, sessVars,
                   world, acted, consented>>

(* The model has answered.  Its frame and world may not be the observed    *)
(* ones; the epoch is read now, after the model's latency.                 *)
OperatorDecide ==
    /\ Invoked /\ at = "operator_decide" /\ step < StepBound
    /\ step' = step + 1
    /\ at' = "policy_gate"
    /\ \/ /\ gstatus' = "failed"
          /\ UNCHANGED <<decision, stamp>>
       \/ /\ gstatus' \in {"done", "running"}
          /\ \E risk \in Risks, fresh \in BOOLEAN :
                decision' = [risk |-> risk, world |-> seen, fresh |-> fresh]
          /\ stamp' = epoch
    /\ UNCHANGED <<callVars, approved, seen, txs, tr, budgetVars, sessVars, world, acted,
                   consented>>

(* validate_decision, policy_gate and route_after_policy.  Any decision    *)
(* may be invalid or hold an action barred in the detected mode; those and *)
(* the always_block ones end the run.                                      *)
PolicyGate ==
    /\ Invoked /\ at = "policy_gate"
    /\ \/ /\ gstatus \in {"done", "failed"}
          /\ at' = "finalise" /\ UNCHANGED gstatus
       \/ /\ gstatus = "running"
          /\ at' = "finalise" /\ gstatus' \in {"failed", "blocked"}
       \/ /\ gstatus = "running" /\ ~decision.fresh
          /\ at' = "observe_frame" /\ gstatus' = "blocked"
       \/ /\ gstatus = "running" /\ decision.fresh
          /\ decision.risk = "requires_human" /\ ~approved
          /\ at' = "human_interrupt" /\ gstatus' = "needs_approval"
       \/ /\ gstatus = "running" /\ decision.fresh
          /\ decision.risk = "low" \/ (decision.risk = "requires_human" /\ approved)
          /\ at' = "execute_transaction" /\ UNCHANGED gstatus
    /\ UNCHANGED <<callVars, step, decision, approved, stamp, seen, txs, tr, budgetVars,
                   sessVars, world, acted, consented>>

-----------------------------------------------------------------------------
(* Execution.                                                              *)

\* A mutant: the brake is not read before the capture.
ExecuteByEpochOnly ==
    /\ Invoked /\ at = "execute_transaction"
    /\ IF epoch # stamp
       THEN gstatus' = "failed" /\ tr' = "blocked_by_policy" /\ at' = "verify_result"
       ELSE at' = "capture" /\ UNCHANGED <<gstatus, tr>>
    /\ UNCHANGED <<callVars, step, decision, approved, stamp, seen, txs, budgetVars, sessVars,
                   world, acted, consented>>

(* execute_transaction before its first await: brake, epoch, deadline.     *)
ExecuteTransaction ==
    /\ Invoked /\ at = "execute_transaction"
    /\ \/ /\ stopped \/ epoch # stamp
          /\ gstatus' = "failed" /\ tr' = "blocked_by_policy"
          /\ at' = "verify_result"
       \/ /\ ~stopped /\ epoch = stamp /\ deadline /\ late
          /\ tr' = "deferred_budget" /\ at' = "verify_result"
          /\ UNCHANGED gstatus
       \/ /\ ~stopped /\ epoch = stamp /\ ~(deadline /\ late)
          /\ at' = "capture"
          /\ UNCHANGED <<gstatus, tr>>
    /\ UNCHANGED <<callVars, step, decision, approved, stamp, seen, txs, budgetVars, sessVars,
                   world, acted, consented>>

(* The fresh capture: stale world, policy again, then the transaction.     *)
ExecuteCaptured ==
    /\ Invoked /\ at = "capture"
    /\ seen' = world
    /\ \/ /\ decision.world # world
          /\ approved' = FALSE /\ gstatus' = "running" /\ tr' = "failed_stale_frame"
          /\ at' = "verify_result" /\ UNCHANGED acted
       \/ /\ decision.world = world
          /\ \/ decision.risk = "always_block" /\ gstatus' = "blocked"
             \/ decision.risk = "requires_human" /\ ~approved /\ gstatus' = "needs_approval"
          /\ approved' = FALSE /\ tr' = "blocked_by_policy"
          /\ at' = "verify_result" /\ UNCHANGED acted
       \/ /\ decision.world = world
          /\ decision.risk = "low" \/ (decision.risk = "requires_human" /\ approved)
          /\ acted' = 0 /\ at' = "acting"
          /\ UNCHANGED <<approved, gstatus, tr>>
    /\ UNCHANGED <<callVars, step, decision, stamp, txs, budgetVars, sessVars, world,
                   consented>>

EndTransaction(result) ==
    /\ tr' = result /\ approved' = FALSE /\ txs' = txs + 1
    /\ at' = "verify_result"

(* The gate before an action of the transaction, then its HID call.        *)
Act ==
    /\ Invoked /\ at = "acting" /\ acted < NActions
    /\ \/ /\ epoch # stamp
          /\ EndTransaction("blocked_by_policy")
          /\ UNCHANGED acted
       \/ /\ epoch = stamp
          /\ acted' = acted + 1
          /\ at' = "sending"
          /\ UNCHANGED <<tr, approved, txs>>
    /\ UNCHANGED <<callVars, step, gstatus, decision, stamp, seen, budgetVars, sessVars, world,
                   consented>>

(* The call returns: the next action, the end, or a failed verification.   *)
Sent ==
    /\ Invoked /\ at = "sending"
    /\ \/ /\ acted < NActions /\ at' = "acting"
          /\ UNCHANGED <<tr, approved, txs>>
       \/ /\ acted = NActions /\ EndTransaction("executed")
       \/ EndTransaction("failed")
    /\ UNCHANGED <<callVars, step, gstatus, decision, stamp, seen, budgetVars, sessVars, world,
                   acted, consented>>

BudgetSpent == (maxTx > 0 /\ txs >= maxTx) \/ (deadline /\ late)

\* A mutant: the result of the transaction is the status.
VerifiedAsResult == IF gstatus \in {"done", "failed", "blocked"} THEN gstatus ELSE tr

(* verify_result and route_after_verify.                                   *)
Verified ==
    IF gstatus \in {"done", "failed", "blocked"} THEN gstatus
    ELSE IF step >= MaxSteps THEN "failed"
    ELSE IF tr = "blocked_by_policy" THEN "blocked"
    ELSE IF tr = "failed" THEN "failed"
    ELSE gstatus

VerifyResult ==
    /\ Invoked /\ at = "verify_result"
    /\ gstatus' = Verified
    /\ at' = IF Verified \in {"done", "failed", "blocked"} THEN "finalise"
             ELSE IF tr = "failed_stale_frame" THEN "recover"
             ELSE IF BudgetSpent THEN "budget_pause"
             ELSE "observe_frame"
    /\ UNCHANGED <<callVars, step, decision, approved, stamp, seen, txs, tr, budgetVars,
                   sessVars, world, acted, consented>>

(* recover observes and parses again, then presses a key or clicks: it     *)
(* consults neither the epoch nor the brake.                               *)
Recover ==
    /\ Invoked /\ at = "recover"
    /\ seen' = world /\ at' = "recovering"
    /\ UNCHANGED <<callVars, step, gstatus, decision, approved, stamp, txs, tr, budgetVars,
                   sessVars, world, acted, consented>>

RecoverInput ==
    /\ Invoked /\ at = "recovering"
    /\ gstatus' = "running" /\ at' = "observe_frame"
    /\ UNCHANGED <<callVars, step, decision, approved, stamp, seen, txs, tr, budgetVars,
                   sessVars, world, acted, consented>>

(* budget_pause falls through when the call that resumed it has budget.    *)
BudgetPause ==
    /\ Invoked /\ at = "budget_pause" /\ ~BudgetSpent
    /\ at' = "observe_frame"
    /\ UNCHANGED <<callVars, stateVars, budgetVars, sessVars, world, acted, consented>>

Finalise ==
    /\ Invoked /\ at = "finalise"
    /\ gstatus' = IF gstatus \in {"done", "failed", "blocked"} THEN gstatus ELSE "failed"
    /\ at' = "end"
    /\ UNCHANGED <<callVars, step, decision, approved, stamp, seen, txs, tr, budgetVars,
                   sessVars, world, acted, consented>>

-----------------------------------------------------------------------------
(* Runtime: what starts, resumes and reports an invocation.                *)

SetStatus(s) == status' = s /\ stored' = s

(* continue_session tests the brake, then awaits backend.connect.  What    *)
(* ainvoke makes of a thread that has ended is not modelled.               *)
ContinueSession ==
    /\ call = "none" /\ ~stopped /\ at # "end"
    /\ call' = "connecting" /\ lost' = FALSE
    /\ UNCHANGED <<at, raced, stateVars, budgetVars, sessVars, world, acted, consented>>

NewBudget ==
    /\ maxTx' \in {0, 1} /\ deadline' \in {FALSE, Deadlines}
    /\ late' = FALSE /\ txs' = 0

(* Connected, or not, it invokes the graph without another look at the     *)
(* brake: from the start, from a budget pause, or else from where the      *)
(* thread is, under the budget it has.                                     *)
StartGraph ==
    /\ call = "connecting"
    /\ call' = "graph"
    /\ \/ /\ at = "idle" /\ at' = "observe_frame"
          /\ NewBudget /\ UNCHANGED status
       \/ /\ at # "idle" /\ status = "paused"
          /\ NewBudget /\ status' = "running" /\ UNCHANGED at
       \/ /\ at # "idle" /\ status # "paused"
          /\ UNCHANGED <<at, status, txs, budgetVars>>
    /\ UNCHANGED <<lost, raced, step, gstatus, decision, approved, stamp, seen, tr, epoch,
                   stopped, stored, world, acted, consented>>

\* A mutant: only the end of the graph returns.
ReturnedAtEnd == at = "end"

Returned == at = "end" \/ at = "human_interrupt" \/ (at = "budget_pause" /\ BudgetSpent)

\* A mutant: the brake is not read.
AfterRunUnlatched ==
    /\ Invoked /\ Returned
    /\ SetStatus(CASE at = "end" -> gstatus [] at = "budget_pause" -> "paused"
                   [] OTHER -> "needs_approval")
    /\ call' = "none"
    /\ UNCHANGED <<at, lost, raced, stateVars, budgetVars, epoch, stopped, world, acted, consented>>

(* _after_run: the brake wins over whatever the graph returned.            *)
AfterRun ==
    /\ Invoked /\ Returned
    /\ \/ /\ stopped
          /\ SetStatus("failed") /\ call' = "none"
          /\ UNCHANGED at
       \/ /\ ~stopped /\ at = "budget_pause"
          /\ SetStatus("paused") /\ call' = "none"
          /\ UNCHANGED at
       \/ /\ ~stopped /\ at = "end"
          /\ SetStatus(gstatus) /\ call' = "none"
          /\ UNCHANGED at
       \/ /\ ~stopped /\ at = "human_interrupt"
          /\ status' = "needs_approval" /\ at' = "holding"
          /\ UNCHANGED <<stored, call>>
    /\ UNCHANGED <<lost, raced, stateVars, budgetVars, epoch, stopped, world, acted, consented>>

(* save_approval returned: the hold is written to the session's row.       *)
AfterHold ==
    /\ Invoked /\ at = "holding"
    /\ stored' = "needs_approval" /\ at' = "human_interrupt" /\ call' = "none"
    /\ UNCHANGED <<lost, raced, stateVars, budgetVars, epoch, stopped, status, world, acted, consented>>

(* submit_approval resumes the graph under the budget of the call that     *)
(* was interrupted.                                                        *)
SubmitApproval ==
    /\ call = "none" /\ at = "human_interrupt"
    /\ call' = "graph" /\ lost' = FALSE
    /\ \/ /\ at' = "execute_transaction" /\ gstatus' = "running" /\ approved' = TRUE
          /\ consented' = consented \cup {step}
       \/ /\ at' = "observe_frame" /\ gstatus' = "running" /\ approved' = FALSE
          /\ UNCHANGED consented
       \/ /\ at' = "finalise" /\ gstatus' = "blocked"
          /\ UNCHANGED <<approved, consented>>
    /\ UNCHANGED <<raced, step, decision, stamp, seen, txs, tr, budgetVars, sessVars, world,
                   acted>>

(* Where the thread continues: at the node that did not finish.            *)
Checkpoint ==
    CASE at \in {"capture", "acting", "sending"} -> "execute_transaction"
      [] at = "recovering" -> "recover"
      [] at = "holding" -> "human_interrupt"
      [] OTHER -> at

(* A node raises (a capture, a model or a HID call fails), or the client's *)
(* call is cancelled at any await: nothing reports, and no status changes. *)
LoseCall ==
    /\ call # "none"
    /\ call' = "none" /\ lost' = TRUE /\ at' = Checkpoint
    /\ UNCHANGED <<raced, stateVars, budgetVars, sessVars, world, acted, consented>>

-----------------------------------------------------------------------------
(* Everyone else.                                                          *)

AbortSession ==
    /\ epoch <= MaxEpoch
    /\ epoch' = epoch + 1 /\ stopped' = TRUE /\ SetStatus("failed")
    /\ raced' = (at = "holding")
    /\ UNCHANGED <<at, call, lost, stateVars, budgetVars, world, acted, consented>>

HumanInput ==
    /\ epoch < MaxEpoch /\ ~stopped
    /\ epoch' = epoch + 1
    /\ UNCHANGED <<at, callVars, stateVars, budgetVars, stopped, status, stored, world, acted,
                   consented>>

Repaint ==
    /\ world < MaxWorld
    /\ world' = world + 1
    /\ UNCHANGED <<at, callVars, stateVars, budgetVars, sessVars, acted, consented>>

DeadlinePasses ==
    /\ deadline /\ ~late
    /\ late' = TRUE
    /\ UNCHANGED <<at, callVars, stateVars, maxTx, deadline, sessVars, world, acted, consented>>

Loop ==
    \/ ObserveFrame \/ OperatorDecide \/ PolicyGate
    \/ ExecuteTransaction \/ ExecuteCaptured \/ Act \/ Sent \/ VerifyResult
    \/ Recover \/ RecoverInput \/ BudgetPause \/ Finalise
    \/ StartGraph \/ AfterRun \/ AfterHold

Next ==
    \/ Loop \/ ContinueSession \/ SubmitApproval \/ LoseCall
    \/ AbortSession \/ HumanInput \/ Repaint \/ DeadlinePasses

Spec == Init /\ [][Next]_vars

(* The event loop schedules the call, and connect times out; nothing makes *)
(* a human or a client call.                                               *)
FairSpec == Spec /\ WF_vars(Loop)

-----------------------------------------------------------------------------
(* Properties.                                                             *)

\* Act sends an action of the transaction.
TxInput == at = "acting" /\ at' = "sending"

(* An approval is for one decision: execute_transaction sends input for a  *)
(* decision that requires a human only if a human approved that decision,  *)
(* not one made earlier or later in the session.                           *)
ConsentIsExact ==
    [][TxInput /\ decision.risk = "requires_human" => step \in consented]_vars

(* No transaction sends input once the session is aborted, although the    *)
(* per-action gate of the executor compares epochs and never reads the     *)
(* brake, and operator_decide stamps whatever epoch it finds.              *)
NoTransactionAfterStop == [][TxInput => ~stopped]_vars

(* One call never runs more transactions than max_transactions, through    *)
(* pauses, approvals and stale worlds alike.                               *)
CallBudget == maxTx > 0 => txs <= maxTx

(* The brake owns the status: between calls an aborted session is failed,  *)
(* in memory and in its row, whatever the graph returned and wherever in a *)
(* call the abort landed.  Two ways around it are excepted: a call that    *)
(* resumed the graph on a brake tested before the abort and then never     *)
(* reached _after_run leaves "running" in memory, and an abort between the *)
(* two writes of a hold is followed by "needs_approval" in the row.        *)
StopOwnsStatus ==
    stopped /\ call = "none" =>
        /\ status = "failed" \/ (lost /\ status = "running")
        /\ stored = "failed" \/ (raced /\ stored = "needs_approval")

(* A call comes back to its client: by approval, pause, or an end; only    *)
(* decisions past the step cap may keep it.                                *)
CallReturns == call # "none" ~> (call = "none" \/ step > MaxSteps)
=============================================================================
