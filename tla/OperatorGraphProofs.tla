------------------------- MODULE OperatorGraphProofs -------------------------
(***************************************************************************)
(* The operator loop for any number of steps, actions, inputs and aborts.  *)
(***************************************************************************)
EXTENDS OperatorGraph, TLAPS

(* The two halves of the type invariant: Boolean variables and the others. *)
Flags ==
    /\ lost \in BOOLEAN /\ raced \in BOOLEAN /\ approved \in BOOLEAN
    /\ deadline \in BOOLEAN /\ late \in BOOLEAN /\ stopped \in BOOLEAN

Shapes ==
    /\ at \in Nodes /\ call \in {"none", "connecting", "graph"}
    /\ step \in Nat /\ gstatus \in SessionStatus \ {"paused"}
    /\ decision \in Decisions
    /\ stamp \in Nat /\ seen \in Nat /\ txs \in Nat
    /\ tr \in {"none", "executed", "failed", "blocked_by_policy",
               "failed_stale_frame", "deferred_budget"}
    /\ maxTx \in Nat /\ epoch \in Nat
    /\ status \in SessionStatus /\ stored \in SessionStatus
    /\ world \in Nat /\ acted \in Nat
    /\ consented \subseteq Nat

(* The type invariant splits into its two halves.                          *)
LEMMA TypeParts == TypeOK <=> Flags /\ Shapes
  BY DEF TypeOK, Flags, Shapes

(* The same after a step.                                                  *)
LEMMA TypePartsNext == TypeOK' <=> Flags' /\ Shapes'
  BY DEF TypeOK, Flags, Shapes

InTransaction == {"capture", "acting", "sending"}

(* A decision's stamp is never ahead of the controller epoch, and an abort *)
(* leaves the stamp of the transaction it interrupts behind for good.      *)
Stamped ==
    /\ stamp <= epoch
    /\ at \in InTransaction /\ stopped => stamp < epoch

(* Unless a deadline may defer a transaction, the approval flag is up only *)
(* from the human's answer to the end of the transaction it is for.        *)
Approvals ==
    ~Deadlines =>
        /\ ~deadline
        /\ approved => /\ step \in consented
                       /\ \/ at \in InTransaction \cup {"execute_transaction"}
                          \/ at = "verify_result" /\ gstatus = "failed"
                          \/ at \in {"finalise", "end"}
        /\ at \in {"acting", "sending"} /\ decision.risk = "requires_human" => approved

(* A call that may still run a transaction has budget left for it.         *)
Budgeted ==
    maxTx > 0 =>
        /\ txs <= maxTx
        /\ \/ at \in {"observe_frame", "operator_decide", "policy_gate", "human_interrupt",
                      "holding", "execute_transaction", "recover", "recovering"} \cup InTransaction
           \/ at = "verify_result" /\ tr = "failed_stale_frame"
           => txs < maxTx

(* Memory: no call writes more than "running" over the brake, and one that *)
(* reaches _after_run takes it back.  Row: only a hold whose two writes    *)
(* the abort came between still writes to it.                              *)
Latched ==
    stopped =>
        /\ status \in {"failed", "running"}
        /\ call = "none" /\ ~lost => status = "failed"
        /\ stored = "failed" \/ (raced /\ stored = "needs_approval")
        /\ at = "holding" => status = "failed" /\ raced

Inv == TypeOK /\ Stamped /\ Approvals /\ Budgeted /\ Latched

(* A new session satisfies the invariant.                                  *)
LEMMA InitInv == Init => Inv
<1> SUFFICES ASSUME Init PROVE Inv
  OBVIOUS
<1>1. TypeOK
  <2>1. Flags
    BY DEF Init, Flags
  <2>2. Shapes
    BY DEF Init, Shapes, Nodes, SessionStatus, Decisions, NoDecision, Risks
  <2> QED
    BY <2>1, <2>2, TypeParts
<1>2. Stamped /\ Approvals /\ Budgeted /\ Latched
  BY DEF Init, Stamped, Approvals, Budgeted, Latched, InTransaction
<1> QED
  BY <1>1, <1>2 DEF Inv

(* Every node, call and outside event preserves it.                        *)
LEMMA NextKeepsInv == Inv /\ [Next]_vars => Inv'
<1> SUFFICES ASSUME Inv, [Next]_vars PROVE Inv'
  OBVIOUS
<1> USE GraphConstants DEF Inv, stateVars, callVars, budgetVars, sessVars
<1>1. CASE ObserveFrame
  <2> USE <1>1 DEF ObserveFrame
  <2>1. TypeOK'
    <3>1. Flags'
      BY Zenon DEF TypeOK, Flags
    <3>2. Shapes'
      BY DEF TypeOK, Shapes, Nodes, SessionStatus, Decisions, Risks
    <3> QED
      BY <3>1, <3>2, TypePartsNext
  <2>2. Stamped' /\ Budgeted'
    BY DEF TypeOK, Stamped, Budgeted, InTransaction
  <2>3. Approvals' /\ Latched'
    BY DEF TypeOK, Approvals, Latched, InTransaction
  <2> QED
    BY <2>1, <2>2, <2>3
<1>2. CASE OperatorDecide
  <2> USE <1>2 DEF OperatorDecide
  <2>1. TypeOK'
    <3>1. Flags'
      BY Zenon DEF TypeOK, Flags
    <3>2. Shapes'
      BY DEF TypeOK, Shapes, Nodes, SessionStatus, Decisions, Risks
    <3> QED
      BY <3>1, <3>2, TypePartsNext
  <2>2. Stamped' /\ Budgeted'
    BY DEF TypeOK, Stamped, Budgeted, InTransaction
  <2>3. Approvals' /\ Latched'
    BY DEF TypeOK, Approvals, Latched, InTransaction
  <2> QED
    BY <2>1, <2>2, <2>3
<1>3. CASE PolicyGate
  <2> USE <1>3 DEF PolicyGate
  <2>1. TypeOK'
    <3>1. Flags'
      BY Zenon DEF TypeOK, Flags
    <3>2. Shapes'
      BY DEF TypeOK, Shapes, Nodes, SessionStatus, Decisions, Risks
    <3> QED
      BY <3>1, <3>2, TypePartsNext
  <2>2. Stamped' /\ Budgeted'
    BY DEF TypeOK, Stamped, Budgeted, InTransaction
  <2>3. Approvals' /\ Latched'
    BY DEF TypeOK, Approvals, Latched, InTransaction
  <2> QED
    BY <2>1, <2>2, <2>3
<1>4. CASE ExecuteTransaction
  <2> USE <1>4 DEF ExecuteTransaction
  <2>1. TypeOK'
    <3>1. Flags'
      BY Zenon DEF TypeOK, Flags
    <3>2. Shapes'
      BY DEF TypeOK, Shapes, Nodes, SessionStatus, Decisions, Risks
    <3> QED
      BY <3>1, <3>2, TypePartsNext
  <2>2. Stamped' /\ Budgeted'
    BY DEF TypeOK, Stamped, Budgeted, InTransaction
  <2>3. Approvals' /\ Latched'
    BY DEF TypeOK, Approvals, Latched, InTransaction
  <2> QED
    BY <2>1, <2>2, <2>3
<1>5. CASE ExecuteCaptured
  <2> USE <1>5 DEF ExecuteCaptured
  <2>1. TypeOK'
    <3>1. Flags'
      BY Zenon DEF TypeOK, Flags
    <3>2. Shapes'
      BY DEF TypeOK, Shapes, Nodes, SessionStatus, Decisions, Risks
    <3> QED
      BY <3>1, <3>2, TypePartsNext
  <2>2. Stamped' /\ Budgeted'
    BY DEF TypeOK, Stamped, Budgeted, InTransaction
  <2>3. Approvals' /\ Latched'
    BY DEF TypeOK, Approvals, Latched, InTransaction
  <2> QED
    BY <2>1, <2>2, <2>3
<1>6. CASE Act
  <2> USE <1>6 DEF Act, EndTransaction
  <2>1. TypeOK'
    <3>1. Flags'
      BY Zenon DEF TypeOK, Flags
    <3>2. Shapes'
      BY DEF TypeOK, Shapes, Nodes, SessionStatus, Decisions, Risks
    <3> QED
      BY <3>1, <3>2, TypePartsNext
  <2>2. Stamped' /\ Budgeted'
    BY DEF TypeOK, Stamped, Budgeted, InTransaction
  <2>3. Approvals' /\ Latched'
    BY DEF TypeOK, Approvals, Latched, InTransaction
  <2> QED
    BY <2>1, <2>2, <2>3
<1>7. CASE Sent
  <2> USE <1>7 DEF Sent, EndTransaction
  <2>1. TypeOK'
    <3>1. Flags'
      BY Zenon DEF TypeOK, Flags
    <3>2. Shapes'
      BY DEF TypeOK, Shapes, Nodes, SessionStatus, Decisions, Risks
    <3> QED
      BY <3>1, <3>2, TypePartsNext
  <2>2. Stamped' /\ Budgeted'
    BY DEF TypeOK, Stamped, Budgeted, InTransaction
  <2>3. Approvals' /\ Latched'
    BY DEF TypeOK, Approvals, Latched, InTransaction
  <2> QED
    BY <2>1, <2>2, <2>3
<1>8. CASE VerifyResult
  <2> USE <1>8 DEF VerifyResult, Verified, BudgetSpent
  <2>1. TypeOK'
    <3>1. Flags'
      BY Zenon DEF TypeOK, Flags
    <3>2. Shapes'
      BY DEF TypeOK, Shapes, Nodes, SessionStatus, Decisions, Risks
    <3> QED
      BY <3>1, <3>2, TypePartsNext
  <2>2. Stamped' /\ Budgeted'
    BY DEF TypeOK, Stamped, Budgeted, InTransaction
  <2>3. Approvals' /\ Latched'
    BY DEF TypeOK, Approvals, Latched, InTransaction
  <2> QED
    BY <2>1, <2>2, <2>3
<1>9. CASE Recover
  <2> USE <1>9 DEF Recover
  <2>1. TypeOK'
    <3>1. Flags'
      BY Zenon DEF TypeOK, Flags
    <3>2. Shapes'
      BY DEF TypeOK, Shapes, Nodes, SessionStatus, Decisions, Risks
    <3> QED
      BY <3>1, <3>2, TypePartsNext
  <2>2. Stamped' /\ Budgeted'
    BY DEF TypeOK, Stamped, Budgeted, InTransaction
  <2>3. Approvals' /\ Latched'
    BY DEF TypeOK, Approvals, Latched, InTransaction
  <2> QED
    BY <2>1, <2>2, <2>3
<1>10. CASE RecoverInput
  <2> USE <1>10 DEF RecoverInput
  <2>1. TypeOK'
    <3>1. Flags'
      BY Zenon DEF TypeOK, Flags
    <3>2. Shapes'
      BY DEF TypeOK, Shapes, Nodes, SessionStatus, Decisions, Risks
    <3> QED
      BY <3>1, <3>2, TypePartsNext
  <2>2. Stamped' /\ Budgeted'
    BY DEF TypeOK, Stamped, Budgeted, InTransaction
  <2>3. Approvals' /\ Latched'
    BY DEF TypeOK, Approvals, Latched, InTransaction
  <2> QED
    BY <2>1, <2>2, <2>3
<1>11. CASE BudgetPause
  <2> USE <1>11 DEF BudgetPause, BudgetSpent
  <2>1. TypeOK'
    <3>1. Flags'
      BY Zenon DEF TypeOK, Flags
    <3>2. Shapes'
      BY DEF TypeOK, Shapes, Nodes, SessionStatus, Decisions, Risks
    <3> QED
      BY <3>1, <3>2, TypePartsNext
  <2>2. Stamped' /\ Budgeted'
    BY DEF TypeOK, Stamped, Budgeted, InTransaction
  <2>3. Approvals' /\ Latched'
    BY DEF TypeOK, Approvals, Latched, InTransaction
  <2> QED
    BY <2>1, <2>2, <2>3
<1>12. CASE Finalise
  <2> USE <1>12 DEF Finalise
  <2>1. TypeOK'
    <3>1. Flags'
      BY Zenon DEF TypeOK, Flags
    <3>2. Shapes'
      BY DEF TypeOK, Shapes, Nodes, SessionStatus, Decisions, Risks
    <3> QED
      BY <3>1, <3>2, TypePartsNext
  <2>2. Stamped' /\ Budgeted'
    BY DEF TypeOK, Stamped, Budgeted, InTransaction
  <2>3. Approvals' /\ Latched'
    BY DEF TypeOK, Approvals, Latched, InTransaction
  <2> QED
    BY <2>1, <2>2, <2>3
<1>13. CASE AfterRun
  <2> USE <1>13 DEF AfterRun, Returned, SetStatus, BudgetSpent
  <2>1. TypeOK'
    <3>1. Flags'
      BY Zenon DEF TypeOK, Flags
    <3>2. Shapes'
      BY DEF TypeOK, Shapes, Nodes, SessionStatus, Decisions, Risks
    <3> QED
      BY <3>1, <3>2, TypePartsNext
  <2>2. Stamped' /\ Budgeted'
    BY DEF TypeOK, Stamped, Budgeted, InTransaction
  <2>3. Approvals' /\ Latched'
    BY DEF TypeOK, Approvals, Latched, InTransaction
  <2> QED
    BY <2>1, <2>2, <2>3
<1>14. CASE AfterHold
  <2> USE <1>14 DEF AfterHold
  <2>1. TypeOK'
    <3>1. Flags'
      BY Zenon DEF TypeOK, Flags
    <3>2. Shapes'
      BY DEF TypeOK, Shapes, Nodes, SessionStatus, Decisions, Risks
    <3> QED
      BY <3>1, <3>2, TypePartsNext
  <2>2. Stamped' /\ Budgeted'
    BY DEF TypeOK, Stamped, Budgeted, InTransaction
  <2>3. Approvals' /\ Latched'
    BY DEF TypeOK, Approvals, Latched, InTransaction
  <2> QED
    BY <2>1, <2>2, <2>3
<1>15. CASE ContinueSession
  <2> USE <1>15 DEF ContinueSession
  <2>1. TypeOK'
    <3>1. Flags'
      BY Zenon DEF TypeOK, Flags
    <3>2. Shapes'
      BY DEF TypeOK, Shapes, Nodes, SessionStatus, Decisions, Risks
    <3> QED
      BY <3>1, <3>2, TypePartsNext
  <2>2. Stamped' /\ Budgeted'
    BY DEF TypeOK, Stamped, Budgeted, InTransaction
  <2>3. Approvals' /\ Latched'
    BY DEF TypeOK, Approvals, Latched, InTransaction
  <2> QED
    BY <2>1, <2>2, <2>3
<1>16. CASE SubmitApproval
  <2> USE <1>16 DEF SubmitApproval
  <2>1. TypeOK'
    <3>1. Flags'
      BY Zenon DEF TypeOK, Flags
    <3>2. consented' \subseteq Nat
      BY DEF TypeOK
    <3>3. Shapes'
      BY <3>2 DEF TypeOK, Shapes, Nodes, SessionStatus, Decisions, Risks
    <3> QED
      BY <3>1, <3>3, TypePartsNext
  <2>2. Stamped' /\ Budgeted'
    BY DEF TypeOK, Stamped, Budgeted, InTransaction
  <2>3. Approvals' /\ Latched'
    BY DEF TypeOK, Approvals, Latched, InTransaction
  <2> QED
    BY <2>1, <2>2, <2>3
<1>17. CASE AbortSession
  <2> USE <1>17 DEF AbortSession, SetStatus
  <2>1. TypeOK'
    <3>1. Flags'
      BY Zenon DEF TypeOK, Flags
    <3>2. Shapes'
      BY DEF TypeOK, Shapes, Nodes, SessionStatus, Decisions, Risks
    <3> QED
      BY <3>1, <3>2, TypePartsNext
  <2>2. Stamped' /\ Budgeted'
    BY DEF TypeOK, Stamped, Budgeted, InTransaction
  <2>3. Approvals' /\ Latched'
    BY DEF TypeOK, Approvals, Latched, InTransaction
  <2> QED
    BY <2>1, <2>2, <2>3
<1>18. CASE HumanInput
  <2> USE <1>18 DEF HumanInput
  <2>1. TypeOK'
    <3>1. Flags'
      BY Zenon DEF TypeOK, Flags
    <3>2. Shapes'
      BY DEF TypeOK, Shapes, Nodes, SessionStatus, Decisions, Risks
    <3> QED
      BY <3>1, <3>2, TypePartsNext
  <2>2. Stamped' /\ Budgeted'
    BY DEF TypeOK, Stamped, Budgeted, InTransaction
  <2>3. Approvals' /\ Latched'
    BY DEF TypeOK, Approvals, Latched, InTransaction
  <2> QED
    BY <2>1, <2>2, <2>3
<1>19. CASE Repaint
  <2> USE <1>19 DEF Repaint
  <2>1. TypeOK'
    <3>1. Flags'
      BY Zenon DEF TypeOK, Flags
    <3>2. Shapes'
      BY DEF TypeOK, Shapes, Nodes, SessionStatus, Decisions, Risks
    <3> QED
      BY <3>1, <3>2, TypePartsNext
  <2>2. Stamped' /\ Budgeted'
    BY DEF TypeOK, Stamped, Budgeted, InTransaction
  <2>3. Approvals' /\ Latched'
    BY DEF TypeOK, Approvals, Latched, InTransaction
  <2> QED
    BY <2>1, <2>2, <2>3
<1>20. CASE DeadlinePasses
  <2> USE <1>20 DEF DeadlinePasses
  <2>1. TypeOK'
    <3>1. Flags'
      BY Zenon DEF TypeOK, Flags
    <3>2. Shapes'
      BY DEF TypeOK, Shapes, Nodes, SessionStatus, Decisions, Risks
    <3> QED
      BY <3>1, <3>2, TypePartsNext
  <2>2. Stamped' /\ Budgeted'
    BY DEF TypeOK, Stamped, Budgeted, InTransaction
  <2>3. Approvals' /\ Latched'
    BY DEF TypeOK, Approvals, Latched, InTransaction
  <2> QED
    BY <2>1, <2>2, <2>3
<1>21. CASE StartGraph
  <2>1. Flags'
    BY <1>21, Zenon DEF StartGraph, NewBudget, TypeOK, Flags
  <2>2. ASSUME at = "idle", at' = "observe_frame", NewBudget, UNCHANGED status
        PROVE  Inv'
    <3> USE <1>21, <2>2 DEF StartGraph
    <3>1. ~Deadlines => ~deadline'
      BY Zenon DEF NewBudget
    <3>2. Shapes'
      BY DEF NewBudget, TypeOK, Shapes, Nodes
    <3>3. Stamped' /\ Budgeted'
      BY DEF NewBudget, TypeOK, Stamped, Budgeted, InTransaction
    <3>4. Approvals' /\ Latched'
      BY <3>1 DEF TypeOK, Approvals, Latched, InTransaction
    <3> QED
      BY <2>1, <3>2, <3>3, <3>4, TypePartsNext
  <2>3. ASSUME at # "idle", status = "paused", NewBudget, status' = "running", UNCHANGED at
        PROVE  Inv'
    <3> USE <1>21, <2>3 DEF StartGraph
    <3>1. ~Deadlines => ~deadline'
      BY Zenon DEF NewBudget
    <3>2. Shapes'
      BY DEF NewBudget, TypeOK, Shapes, SessionStatus
    <3>3. Stamped' /\ Budgeted'
      BY DEF NewBudget, TypeOK, Stamped, Budgeted, InTransaction
    <3>4. Approvals' /\ Latched'
      BY <3>1 DEF TypeOK, Approvals, Latched, InTransaction
    <3> QED
      BY <2>1, <3>2, <3>3, <3>4, TypePartsNext
  <2>4. ASSUME at # "idle", status # "paused", UNCHANGED <<at, status, txs, budgetVars>>
        PROVE  Inv'
    <3> USE <1>21, <2>4 DEF StartGraph
    <3>1. Shapes'
      BY DEF TypeOK, Shapes
    <3>2. Stamped' /\ Budgeted'
      BY DEF TypeOK, Stamped, Budgeted, InTransaction
    <3>3. Approvals' /\ Latched'
      BY DEF TypeOK, Approvals, Latched, InTransaction
    <3> QED
      BY <2>1, <3>1, <3>2, <3>3, TypePartsNext
  <2> QED
    BY <1>21, <2>2, <2>3, <2>4 DEF StartGraph
<1>22. CASE LoseCall
  <2> USE <1>22 DEF LoseCall, Checkpoint
  <2>1. TypeOK'
    <3>1. Flags'
      BY Zenon DEF TypeOK, Flags
    <3>2. Shapes'
      BY DEF TypeOK, Shapes, Nodes, SessionStatus, Decisions, Risks
    <3> QED
      BY <3>1, <3>2, TypePartsNext
  <2>2. Stamped' /\ Budgeted'
    BY DEF TypeOK, Stamped, Budgeted, InTransaction
  <2>3. Approvals' /\ Latched'
    BY DEF TypeOK, Approvals, Latched, InTransaction
  <2> QED
    BY <2>1, <2>2, <2>3
<1>23. CASE UNCHANGED vars
  BY <1>23 DEF vars, TypeOK, Stamped, Approvals, Budgeted, Latched, BudgetSpent
<1> QED
  BY <1>1, <1>2, <1>3, <1>4, <1>5, <1>6, <1>7, <1>8, <1>9, <1>10, <1>11,
     <1>12, <1>13, <1>14, <1>15, <1>16, <1>17, <1>18, <1>19, <1>20, <1>21, <1>22, <1>23 DEF Next, Loop

(* The inductive invariant of the operator loop holds in every state.      *)
THEOREM Invariance == Spec => []Inv
<1> QED
  BY InitInv, NextKeepsInv, PTL DEF Spec

(* Every variable of the loop keeps its shape.                             *)
THEOREM TypeCorrect == Spec => []TypeOK
<1>1. Inv => TypeOK
  BY DEF Inv
<1> QED
  BY <1>1, Invariance, PTL

(* One continue_session call never exceeds max_transactions, through any   *)
(* pauses, approvals and stale worlds.                                     *)
THEOREM CallsStayInBudget == Spec => []CallBudget
<1>1. Inv => CallBudget
  BY DEF Inv, Budgeted, CallBudget
<1> QED
  BY <1>1, Invariance, PTL

(* However a call ends and wherever in it an abort landed, the brake owns  *)
(* the session's status, but for the two ways around it that are excepted. *)
THEOREM StopKeepsStatus == Spec => []StopOwnsStatus
<1>1. Inv => StopOwnsStatus
  BY DEF Inv, Latched, StopOwnsStatus
<1> QED
  BY <1>1, Invariance, PTL

(* Of all steps only the executor's gated action sends a transaction's input.*)
LEMMA OnlyActSends ==
    ASSUME TypeOK, [Next]_vars, TxInput
    PROVE  Act /\ epoch = stamp
<1> USE DEF TxInput
<1>1. Act
  BY DEF Next, Loop, vars, ObserveFrame, OperatorDecide, PolicyGate, ExecuteTransaction,
     ExecuteCaptured, Sent, VerifyResult, Recover, RecoverInput, BudgetPause, Finalise, AfterRun,
     AfterHold, ContinueSession, StartGraph, LoseCall, Checkpoint, SubmitApproval, AbortSession,
     HumanInput, Repaint, DeadlinePasses
<1> QED
  BY <1>1 DEF Act, EndTransaction

(* The per-action gate of the executor compares epochs only, and yet no    *)
(* transaction sends input in an aborted session: a stamp taken after the  *)
(* abort never gets past execute_transaction, one taken before is stale.   *)
THEOREM StopEndsTransactions == Spec => NoTransactionAfterStop
<1>1. Inv /\ [Next]_vars => [TxInput => ~stopped]_vars
  <2> SUFFICES ASSUME Inv, [Next]_vars, TxInput PROVE ~stopped
    OBVIOUS
  <2> QED
    BY OnlyActSends DEF Inv, TypeOK, Stamped, Act, InTransaction
<1> QED
  BY <1>1, Invariance, PTL DEF Spec, NoTransactionAfterStop

(* Without deadlines an approval is only ever spent on the decision the    *)
(* human approved.                                                         *)
THEOREM ConsentWithoutDeadlines ==
    ASSUME ~Deadlines PROVE Spec => ConsentIsExact
<1>1. Inv /\ [Next]_vars => [TxInput /\ decision.risk = "requires_human" => step \in consented]_vars
  <2> SUFFICES ASSUME Inv, [Next]_vars, TxInput, decision.risk = "requires_human"
               PROVE  step \in consented
    OBVIOUS
  <2> QED
    BY OnlyActSends DEF Inv, TypeOK, Approvals, Act
<1> QED
  BY <1>1, Invariance, PTL DEF Spec, ConsentIsExact
=============================================================================
