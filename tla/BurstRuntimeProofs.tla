------------------------- MODULE BurstRuntimeProofs -------------------------
(***************************************************************************)
(* At-most-once execution of direct bursts, for any number of requests,    *)
(* keys and digests, and the step simulation of the ledger by them.        *)
(***************************************************************************)
EXTENDS BurstRuntime, TLAPS

Exists(t) == task[t].stage # "none"

Waiting == {"wait", "finish"}
Over == {"done", "gone"}
Named == {"deciding", "capture", "ground", "hold", "record", "wait", "finish",
          "reject", "rejected"}

(* A request past its entry, an approval and a task carry a key and a      *)
(* digest; a decider also an approval that was once pending.               *)
Arguments ==
    /\ \A r \in Requests : pc[r] \in Named \/ approvals[r] # "none" \/ Exists(r) =>
          arg[r].key \in Keys /\ arg[r].digest \in Digests
    /\ \A r \in Requests : pc[r] \in {"reject", "rejected"} => arg[r].aid \in Requests
    /\ \A r \in Requests : arg[r].aid # None => approvals[arg[r].aid] # "none"

(* A task belongs to a request that has gone on to await it, and has an    *)
(* outcome once it is over.                                                *)
Created ==
    \A t \in Requests : Exists(t) =>
        /\ pc[t] \in Waiting \cup Over
        /\ task[t].stage = "done" => task[t].outcome \in Outcomes \cup {"raised"}

(* An approval belongs to a request that has been admitted.                *)
Held == \A r \in Requests : pc[r] = "idle" => approvals[r] = "none"

(* A waiting request awaits a task of its own digest, and leaves the wait  *)
(* only when that task is over, reporting no better than its outcome.      *)
Awaiting ==
    \A r \in Requests : pc[r] \in Waiting =>
        /\ claim[r] \in Requests /\ Exists(claim[r])
        /\ arg[claim[r]].digest = arg[r].digest
        /\ pc[r] = "finish" =>
              /\ task[claim[r]].stage = "done"
              /\ answer[r] \in Results
              /\ answer[r] = "completed" => task[claim[r]].outcome = "completed"

(* The two in-flight indexes agree and hold every live task.               *)
Indexes ==
    /\ \A k \in Keys : inflight[k] # None =>
          /\ Exists(inflight[k]) /\ k \in aliases[inflight[k]]
          /\ semantic[arg[inflight[k]].digest] = inflight[k]
    /\ \A d \in Digests : semantic[d] # None =>
          Exists(semantic[d]) /\ arg[semantic[d]].digest = d
    /\ \A t \in Requests : Live(t) =>
          inflight[arg[t].key] = t /\ semantic[arg[t].digest] = t

(* A key that has run is claimed or has a receipt, for ever.               *)
Remembered ==
    \A t \in Requests : Exists(t) =>
        /\ arg[t].key \in aliases[t]
        /\ inflight[arg[t].key] = t \/ idem[arg[t].key].st # "none"

(* A burst that ended badly after a completed action, and did not raise,   *)
(* is still claimed or has left its retained receipt.                      *)
Braked ==
    \A t \in Requests : Ended(t) /\ task[t].step > 0 =>
        semantic[arg[t].digest] = t \/ unsafe[arg[t].digest] # "none"

(* What the claims alone must satisfy, whatever requests are doing.        *)
Claims == Created /\ Awaiting /\ Indexes /\ Remembered /\ Braked /\ UnapprovedKeyOnce

Inv == TypeOK /\ Arguments /\ Held /\ Claims

(* A new session satisfies the invariant.                                  *)
LEMMA InitInv == Init => Inv
<1> SUFFICES ASSUME Init PROVE Inv
  OBVIOUS
<1> USE BurstConstants DEF Init, NoArg, NoReceipt, NoTask
<1>1. TypeOK
  BY DEF TypeOK, Args, Receipts, Tasks
<1>2. Arguments /\ Held
  BY DEF Arguments, Held, Exists, Named
<1>3. Claims
  BY DEF Claims, Created, Awaiting, Indexes, Remembered, Braked, UnapprovedKeyOnce, Exists,
         Waiting, Live, Ended, Executed
<1> QED
  BY <1>1, <1>2, <1>3 DEF Inv

-----------------------------------------------------------------------------
(* A step of a request that neither has a task nor starts to await one     *)
(* leaves the claims alone: receipts are replaced, never deleted.          *)

RequestStep(r) ==
    /\ UNCHANGED <<claim, task, inflight, semantic, unsafe, aliases>>
    /\ \A q \in Requests \ {r} : pc'[q] = pc[q] /\ arg'[q] = arg[q] /\ answer'[q] = answer[q]
    /\ ~Exists(r) /\ pc'[r] \notin Waiting
    /\ \A k \in Keys : idem[k].st # "none" => idem'[k].st # "none"

(* Such a step preserves every part of Claims.                             *)
LEMMA RequestStepKeepsClaims ==
    ASSUME Inv, NEW r \in Requests, RequestStep(r)
    PROVE  Claims'
<1> USE DEF Inv, Claims, TypeOK, RequestStep, Exists
<1>1. \A q \in Requests : Exists(q) => q # r /\ pc'[q] = pc[q] /\ arg'[q] = arg[q]
  OBVIOUS
<1>2. Created'
  BY <1>1 DEF Created
<1>3. Awaiting'
  BY <1>1 DEF Awaiting, Waiting
<1>4. Indexes'
  BY <1>1, BurstConstants DEF Indexes, Live
<1>5. Remembered'
  BY <1>1 DEF Remembered, Arguments
<1>6. Braked'
  BY <1>1 DEF Braked, Ended
<1>7. UnapprovedKeyOnce'
  BY <1>1 DEF UnapprovedKeyOnce, Executed
<1> QED
  BY <1>2, <1>3, <1>4, <1>5, <1>6, <1>7

-----------------------------------------------------------------------------
(* Request steps, one lemma for each group of handlers.                    *)

Kept == TypeOK /\ Arguments /\ Held

(* A request that does not await a claim has no task.                      *)
LEMMA NoTaskYet ==
    ASSUME Inv, NEW r \in Requests, pc[r] \notin Waiting \cup Over
    PROVE  ~Exists(r)
  BY DEF Inv, Claims, Created

(* The parts of the state an answer may change beside its request's.       *)
SessionOK ==
    /\ epoch \in Nat /\ stopped \in BOOLEAN /\ block \in BOOLEAN
    /\ status \in {"running", "paused", "needs_approval", "failed"}
    /\ stored \in {"running", "paused", "needs_approval", "failed"}

ReceiptsGrow ==
    /\ idem' \in [Keys -> Receipts]
    /\ \A k \in Keys : idem[k].st # "none" => idem'[k].st # "none"

Words == Results \cup Refusals \cup {"none"}

(* A key and a digest are there.                                           *)
Known(x) == x.key \in Keys /\ x.digest \in Digests

(* Answering a request that has no task.                                   *)
LEMMA AnswerStep ==
    ASSUME Inv, NEW r \in Requests, NEW x \in Args, NEW word \in Words,
           ~Exists(r), Known(x) \/ approvals[r] = "none",
           x.aid # None => approvals[x.aid] # "none",
           Answer(r, x, word), SessionOK', ReceiptsGrow,
           UNCHANGED <<inflight, semantic, unsafe, aliases, envVars>>
    PROVE  Kept' /\ RequestStep(r)
<1> USE DEF Inv, TypeOK, Answer, Resolved, envVars, Words, Known
<1>1. approvals' \in [Requests -> {"none", "pending", "approved",
                                   "approved_not_executed"} \cup Decided]
  BY DEF Args
<1>2. TypeOK'
  BY <1>1 DEF SessionOK, ReceiptsGrow
<1>3. Arguments' /\ Held'
  BY DEF Arguments, Held, Args, Exists, Named
<1>4. RequestStep(r)
  BY DEF RequestStep, Waiting, ReceiptsGrow
<1> QED
  BY <1>2, <1>3, <1>4 DEF Kept

(* Replaying a receipt or a retained result.                               *)
LEMMA ReplayStep ==
    ASSUME Inv, NEW r \in Requests, NEW x \in Args,
           ~Exists(r), Known(x),
           x.aid # None => approvals[x.aid] # "none",
           ReplayReceipt(r, x) \/ ReplayUnsafe(r, x),
           UNCHANGED <<sessVars, inflight, semantic, unsafe, aliases, envVars>>
    PROVE  Kept' /\ RequestStep(r)
<1> USE DEF Inv, TypeOK, Known
<1>1. SessionOK'
  BY DEF SessionOK, sessVars
<1>2. PICK word \in Words : Answer(r, x, word)
  BY DEF ReplayReceipt, ReplayUnsafe, Receipts, Words, Refusals
<1>3. CASE UNCHANGED idem
  BY <1>1, <1>2, <1>3, AnswerStep DEF ReceiptsGrow
<1>4. CASE ReplayUnsafe(r, x)
  <2> DEFINE rc == [digest |-> x.digest, st |-> "completed", result |-> unsafe[x.digest]]
  <2>1. rc \in Receipts
    BY DEF Receipts
  <2>2. idem' = [idem EXCEPT ![x.key] = rc]
    BY <1>4 DEF ReplayUnsafe
  <2>3. rc.st = "completed"
    OBVIOUS
  <2> HIDE DEF rc
  <2>4. ReceiptsGrow
    BY <2>1, <2>2, <2>3 DEF ReceiptsGrow
  <2> QED
    BY <1>1, <1>2, <2>4, AnswerStep
<1> QED
  BY <1>3, <1>4 DEF ReplayReceipt

(* run_burst up to its first await.                                        *)
LEMMA EnterStep ==
    ASSUME Inv, NEW r \in Requests, NEW x \in Args,
           ~Exists(r), Known(x),
           x.aid # None => approvals[x.aid] # "none",
           EnterBurst(r, x), UNCHANGED envVars
    PROVE  Kept' /\ RequestStep(r)
<1>1. CASE stopped /\ Answer(r, x, "stopped") /\ UNCHANGED <<sessVars, mapVars>>
  <2>1. SessionOK' /\ ReceiptsGrow
    BY <1>1 DEF Inv, TypeOK, SessionOK, ReceiptsGrow, sessVars, mapVars
  <2> QED
    BY <1>1, <2>1, AnswerStep DEF Words, Results, mapVars
<1>2. CASE /\ pc' = [pc EXCEPT ![r] = "capture"]
           /\ arg' = [arg EXCEPT ![r] = x]
           /\ UNCHANGED <<claim, answer, sessVars, mapVars, approvals, task>>
  <2> USE DEF Inv, TypeOK, Known, sessVars, mapVars, envVars
  <2>1. TypeOK'
    BY <1>2
  <2>2. Arguments' /\ Held'
    BY <1>2 DEF Arguments, Held, Exists, Named, Args
  <2>3. RequestStep(r)
    BY <1>2 DEF RequestStep, Waiting
  <2> QED
    BY <2>1, <2>2, <2>3 DEF Kept
<1> QED
  BY <1>1, <1>2, ReplayStep DEF EnterBurst

(* A new burst request.                                                    *)
LEMMA SubmitStep ==
    ASSUME Inv, NEW r \in Requests, Submit(r)
    PROVE  Kept' /\ RequestStep(r)
<1>1. ~Exists(r)
  BY NoTaskYet DEF Submit, Waiting, Over
<1>2. PICK k \in Keys, d \in Digests, e \in 0..epoch, w \in 0..world :
        EnterBurst(r, [key |-> k, digest |-> d, epoch |-> e, world |-> w, aid |-> None])
  BY DEF Submit
<1>3. [key |-> k, digest |-> d, epoch |-> e, world |-> w, aid |-> None] \in Args
  BY DEF Inv, TypeOK, Args
<1> QED
  BY <1>1, <1>2, <1>3, EnterStep DEF Submit, Known

(* A malformed or unanchored request.                                      *)
LEMMA RefuseStep ==
    ASSUME Inv, NEW r \in Requests, RefuseMalformed(r) \/ RefuseUnanchored(r)
    PROVE  Kept' /\ RequestStep(r)
<1>1. ~Exists(r)
  BY NoTaskYet DEF RefuseMalformed, RefuseUnanchored, Waiting, Over
<1>2. NoArg \in Args /\ NoArg.aid = None
  BY DEF NoArg, Args
<1>3. approvals[r] = "none"
  BY DEF Inv, Held, RefuseMalformed, RefuseUnanchored
<1>4. ReceiptsGrow /\ UNCHANGED <<inflight, semantic, unsafe, aliases, envVars>>
  BY DEF Inv, TypeOK, ReceiptsGrow, RefuseMalformed, RefuseUnanchored, mapVars
<1>5. SessionOK'
  BY DEF Inv, TypeOK, SessionOK, RefuseMalformed, RefuseUnanchored, sessVars
<1>6. PICK word \in Words : Answer(r, NoArg, word)
  BY DEF RefuseMalformed, RefuseUnanchored, Words, Results, Outcomes, Refusals
<1> QED
  BY <1>1, <1>2, <1>3, <1>4, <1>5, <1>6, AnswerStep

(* A request that is past its entry knows its own arguments.               *)
LEMMA OwnArguments ==
    ASSUME Inv, NEW r \in Requests, pc[r] \in Named
    PROVE  arg[r] \in Args /\ Known(arg[r]) /\ (arg[r].aid # None => approvals[arg[r].aid] # "none")
  BY DEF Inv, TypeOK, Arguments, Known

(* A request that only moves on to another await.                          *)
LEMMA MoveStep ==
    ASSUME Inv, NEW r \in Requests, ~Exists(r), pc[r] \in Named,
           NEW next \in {"ground", "hold", "record", "rejected", "gone"},
           next = "rejected" => arg[r].aid \in Requests,
           pc' = [pc EXCEPT ![r] = next], SessionOK',
           UNCHANGED <<arg, claim, answer, mapVars, approvals, task, envVars>>
    PROVE  Kept' /\ RequestStep(r)
<1> USE DEF Inv, TypeOK, SessionOK, mapVars, envVars
<1>1. TypeOK'
  OBVIOUS
<1>2. Arguments' /\ Held'
  BY DEF Arguments, Held, Exists, Named
<1>3. RequestStep(r)
  BY DEF RequestStep, Waiting
<1> QED
  BY <1>1, <1>2, <1>3 DEF Kept

(* Revoking authority keeps the shapes of epoch and block.                 *)
LEMMA RevokeTyped ==
    ASSUME TypeOK, RevokeForOtherClient
    PROVE  epoch' \in Nat /\ block' \in BOOLEAN
<1>1. epoch' \in Nat
  BY DEF TypeOK, RevokeForOtherClient
<1>2. block' = (block \/ others)
  BY DEF RevokeForOtherClient
<1>3. block' \in BOOLEAN
  BY <1>2, Zenon
<1> QED
  BY <1>1, <1>3

(* The checks on the first capture.                                        *)
LEMMA CaptureStep ==
    ASSUME Inv, NEW r \in Requests, Capture(r)
    PROVE  Kept' /\ RequestStep(r)
<1>1. ~Exists(r) /\ pc[r] \in Named
  BY NoTaskYet DEF Capture, Waiting, Over, Named
<1>2. SessionOK'
  <2>1. CASE UNCHANGED sessVars
    BY <2>1 DEF Inv, TypeOK, SessionOK, sessVars
  <2>2. CASE RevokeForOtherClient /\ UNCHANGED <<stopped, status, stored>>
    BY <2>2, RevokeTyped DEF Inv, TypeOK, SessionOK
  <2>3. CASE block' = FALSE /\ UNCHANGED <<epoch, stopped, status, stored>>
    BY <2>3 DEF Inv, TypeOK, SessionOK
  <2> QED
    BY <2>1, <2>2, <2>3 DEF Capture
<1>3. ReceiptsGrow /\ UNCHANGED <<inflight, semantic, unsafe, aliases, envVars>>
  BY DEF Inv, TypeOK, ReceiptsGrow, Capture, mapVars
<1>4. CASE Answer(r, arg[r], "stale_world") \/ Answer(r, arg[r], "control_changed")
  BY <1>1, <1>2, <1>3, <1>4, OwnArguments, AnswerStep DEF Words, Refusals
<1>5. CASE /\ pc' = [pc EXCEPT ![r] = "ground"]
           /\ UNCHANGED <<arg, claim, answer, approvals, task>>
  BY <1>1, <1>2, <1>5, MoveStep DEF Capture
<1> QED
  BY <1>4, <1>5 DEF Capture

(* The two writes of an approval hold.                                     *)
LEMMA HoldStep ==
    ASSUME Inv, NEW r \in Requests, HoldStatus(r) \/ HoldRecord(r)
    PROVE  Kept' /\ RequestStep(r)
<1>1. ~Exists(r) /\ pc[r] \in Named
  BY NoTaskYet DEF HoldStatus, HoldRecord, Waiting, Over, Named
<1>2. SessionOK'
  BY DEF Inv, TypeOK, SessionOK, HoldStatus, HoldRecord, SetStatus, sessVars
<1>3. CASE HoldStatus(r)
  BY <1>1, <1>2, <1>3, MoveStep DEF HoldStatus
<1>4. CASE HoldRecord(r)
  <2> DEFINE rc == [digest |-> arg[r].digest, st |-> "approval_pending",
                    result |-> "needs_approval"]
  <2>1. rc \in Receipts /\ rc.st # "none"
    BY <1>1, OwnArguments DEF Receipts, Results, Known
  <2>2. idem' = [idem EXCEPT ![arg[r].key] = rc]
    BY <1>4 DEF HoldRecord
  <2> HIDE DEF rc
  <2>3. ReceiptsGrow
    BY <2>1, <2>2 DEF ReceiptsGrow, Inv, TypeOK
  <2> QED
    BY <1>1, <1>2, <1>4, <2>3, OwnArguments, AnswerStep DEF HoldRecord, Words, Results
<1> QED
  BY <1>3, <1>4

(* submit_approval reads its row.                                          *)
LEMMA DecideStep ==
    ASSUME Inv, NEW r \in Requests, NEW a \in Requests, Decide(r, a)
    PROVE  Kept' /\ RequestStep(r)
<1> USE DEF Inv, TypeOK
<1>1. ~Exists(r)
  BY NoTaskYet DEF Decide, Waiting, Over
<1> DEFINE x == [arg[a] EXCEPT !.aid = a]
<1>2. /\ x \in Args /\ x.aid = a /\ approvals[a] # "none" /\ Known(x)
      /\ x.key \in Keys /\ x.digest \in Digests
  BY DEF Args, Decide, Arguments, Known
<1>3. PICK stage \in {"deciding", "reject"} :
          pc' = [pc EXCEPT ![r] = stage] /\ arg' = [arg EXCEPT ![r] = x]
  BY DEF Decide
<1> HIDE DEF x
<1>4. UNCHANGED <<claim, answer, sessVars, mapVars, approvals, task, envVars>>
  BY DEF Decide
<1> USE DEF sessVars, mapVars, envVars
<1>5. TypeOK'
  BY <1>2, <1>3, <1>4
<1>6. Arguments'
  BY <1>2, <1>3, <1>4 DEF Arguments, Exists, Named, Known
<1>7. Held'
  BY <1>3, <1>4 DEF Held
<1>8. RequestStep(r)
  BY <1>1, <1>3, <1>4 DEF RequestStep, Waiting
<1> QED
  BY <1>5, <1>6, <1>7, <1>8 DEF Kept

(* An approved burst enters run_burst.                                     *)
LEMMA ApproveStep ==
    ASSUME Inv, NEW r \in Requests, Approve(r)
    PROVE  Kept' /\ RequestStep(r)
<1>1. ~Exists(r) /\ pc[r] \in Named
  BY NoTaskYet DEF Approve, Waiting, Over, Named
<1> QED
  BY <1>1, OwnArguments, EnterStep DEF Approve

(* A rejection resolves the row, then the receipt.                         *)
LEMMA RejectStep ==
    ASSUME Inv, NEW r \in Requests, RejectResolve(r) \/ RejectApply(r)
    PROVE  Kept' /\ RequestStep(r)
<1> USE DEF Inv, TypeOK, mapVars, sessVars, envVars
<1>1. ~Exists(r) /\ pc[r] \in Named
  BY NoTaskYet DEF RejectResolve, RejectApply, Waiting, Over, Named
<1>2. arg[r].aid \in Requests
  BY DEF RejectResolve, RejectApply, Arguments
<1>3. CASE RejectResolve(r)
  <2>1. TypeOK'
    BY <1>3 DEF RejectResolve, Decided
  <2>2. Arguments' /\ Held'
    BY <1>2, <1>3, BurstConstants DEF RejectResolve, Arguments, Held, Exists, Named
  <2>3. RequestStep(r)
    BY <1>1, <1>3 DEF RejectResolve, RequestStep, Waiting
  <2> QED
    BY <2>1, <2>2, <2>3 DEF Kept
<1>4. CASE RejectApply(r)
  <2> DEFINE k == arg[r].key
  <2> DEFINE rc == [idem[k] EXCEPT !.st = "rejected", !.result = "blocked"]
  <2>1. k \in Keys /\ rc \in Receipts /\ rc.st # "none"
    <3>1. k \in Keys
      BY <1>1, OwnArguments DEF Known
    <3>2. idem[k] \in Receipts
      BY <3>1
    <3>3. rc \in Receipts /\ rc.st # "none"
      BY <3>2 DEF Receipts, Decided, Results
    <3> QED
      BY <3>1, <3>3
  <2>2. idem' = idem \/ idem' = [idem EXCEPT ![k] = rc]
    BY <1>4 DEF RejectApply
  <2> HIDE DEF k, rc
  <2>3. ReceiptsGrow
    BY <2>1, <2>2 DEF ReceiptsGrow
  <2>4. TypeOK'
    BY <1>4, <2>3 DEF RejectApply, SetStatus, ReceiptsGrow, Results
  <2>5. Arguments' /\ Held'
    BY <1>1, <1>4 DEF RejectApply, Arguments, Held, Exists, Named
  <2>6. RequestStep(r)
    BY <1>1, <1>4, <2>3 DEF RejectApply, RequestStep, ReceiptsGrow, Waiting
  <2> QED
    BY <2>4, <2>5, <2>6 DEF Kept
<1> QED
  BY <1>3, <1>4

(* Ground, except where it creates or joins a claim.                       *)
LEMMA GroundStep ==
    ASSUME Inv, NEW r \in Requests, pc[r] = "ground", UNCHANGED envVars,
           \/ Answer(r, arg[r], "blocked") /\ UNCHANGED <<sessVars, mapVars>>
           \/ /\ Answer(r, arg[r], "idempotency_conflict")
              /\ UNCHANGED <<sessVars, mapVars>>
           \/ /\ approvals' = [approvals EXCEPT ![r] = "pending"]
              /\ pc' = [pc EXCEPT ![r] = "hold"]
              /\ UNCHANGED <<arg, claim, answer, sessVars, mapVars, task>>
           \/ /\ ReplayReceipt(r, arg[r]) \/ ReplayUnsafe(r, arg[r])
              /\ UNCHANGED <<sessVars, inflight, semantic, unsafe, aliases>>
    PROVE  Kept' /\ RequestStep(r)
<1>1. ~Exists(r) /\ pc[r] \in Named
  BY NoTaskYet DEF Waiting, Over, Named
<1>2. CASE ReplayReceipt(r, arg[r]) \/ ReplayUnsafe(r, arg[r])
  BY <1>1, <1>2, OwnArguments, ReplayStep DEF mapVars
<1>3. CASE \/ Answer(r, arg[r], "blocked") /\ UNCHANGED <<sessVars, mapVars>>
           \/ /\ Answer(r, arg[r], "idempotency_conflict")
              /\ UNCHANGED <<sessVars, mapVars>>
  <2>1. SessionOK' /\ ReceiptsGrow
    BY <1>3 DEF Inv, TypeOK, SessionOK, ReceiptsGrow, sessVars, mapVars
  <2> QED
    BY <1>1, <1>3, <2>1, OwnArguments, AnswerStep DEF Words, Results, Refusals, mapVars
<1>4. CASE /\ approvals' = [approvals EXCEPT ![r] = "pending"]
           /\ pc' = [pc EXCEPT ![r] = "hold"]
           /\ UNCHANGED <<arg, claim, answer, sessVars, mapVars, task>>
  <2> USE DEF Inv, TypeOK, sessVars, mapVars, envVars
  <2>1. TypeOK'
    BY <1>4
  <2>2. Arguments' /\ Held'
    BY <1>4 DEF Arguments, Held, Exists, Named
  <2>3. RequestStep(r)
    BY <1>1, <1>4 DEF RequestStep, Waiting
  <2> QED
    BY <2>1, <2>2, <2>3 DEF Kept
<1> QED
  BY <1>2, <1>3, <1>4

-----------------------------------------------------------------------------
(* The steps that create, join, run, settle, finish or leave a claim.      *)

(* The critical section creates a task.                                    *)
LEMMA NewClaimStep ==
    ASSUME Inv, NEW r \in Requests, pc[r] = "ground",
           Unseen(arg[r]), NewClaim(r, arg[r]), SetStatus("running"),
           pc' = [pc EXCEPT ![r] = "wait"],
           UNCHANGED <<arg, answer, epoch, stopped, block, idem, unsafe, approvals, envVars>>
    PROVE  Inv'
<1> DEFINE k == arg[r].key
           d == arg[r].digest
           new == [NoTask EXCEPT !.stage = "gate"]
<1> USE DEF Inv, Claims, TypeOK, envVars
<1>1. k \in Keys /\ d \in Digests /\ ~Exists(r)
  BY NoTaskYet, OwnArguments DEF Waiting, Over, Named, Known
<1>2. new \in Tasks /\ new.stage = "gate" /\ new.step = 0 /\ new.outcome = "none"
  BY DEF Tasks, NoTask
<1>3. /\ inflight[k] = None /\ semantic[d] = None
      /\ task' = [task EXCEPT ![r] = new]
      /\ claim' = [claim EXCEPT ![r] = r]
      /\ aliases' = [aliases EXCEPT ![r] = {k}]
      /\ inflight' = [inflight EXCEPT ![k] = r]
      /\ semantic' = [semantic EXCEPT ![d] = r]
  BY DEF NewClaim
<1> HIDE DEF new
<1>4. TypeOK'
  BY <1>1, <1>2, <1>3 DEF SetStatus
<1>5. Arguments' /\ Held'
  BY <1>1, <1>3 DEF Arguments, Held, Exists, Named
<1>6. Created'
  BY <1>2, <1>3 DEF Created, Exists, Waiting
<1>7. Awaiting'
  BY <1>1, <1>2, <1>3 DEF Awaiting, Exists, Waiting
<1>8. Indexes'
  BY <1>1, <1>2, <1>3, BurstConstants DEF Indexes, Exists, Live
<1>9. Remembered'
  BY <1>1, <1>2, <1>3, BurstConstants DEF Remembered, Exists
<1>10. Braked'
  BY <1>1, <1>2, <1>3, BurstConstants DEF Braked, Ended, Exists
<1>11. UnapprovedKeyOnce'
  <2>1. ASSUME NEW t \in Requests, Exists(t), arg[t].key = k
        PROVE  arg[r].aid # None
    <3>1. idem[k].st # "none"
      BY <1>1, <1>3, <2>1, BurstConstants DEF Remembered
    <3> QED
      BY <3>1 DEF Unseen, Conflict, Replayable
  <2>2. \A t \in Requests \ {r} : task'[t] = task[t]
    BY <1>3
  <2> QED
    BY <2>1, <2>2 DEF UnapprovedKeyOnce, Executed, Exists
<1> QED
  BY <1>4, <1>5, <1>6, <1>7, <1>8, <1>9, <1>10, <1>11

(* The critical section joins a live claim.                                *)
LEMMA JoinClaimStep ==
    ASSUME Inv, NEW r \in Requests, NEW t \in Requests, pc[r] = "ground",
           JoinClaim(r, arg[r], t), SetStatus("running"),
           pc' = [pc EXCEPT ![r] = "wait"],
           UNCHANGED <<arg, answer, epoch, stopped, block, idem, unsafe, approvals, envVars>>
    PROVE  Inv'
<1> DEFINE k == arg[r].key
           d == arg[r].digest
<1> USE DEF Inv, Claims, TypeOK, envVars
<1>1. k \in Keys /\ d \in Digests /\ ~Exists(r)
  BY NoTaskYet, OwnArguments DEF Waiting, Over, Named, Known
<1>2. /\ arg[t].digest = d
      /\ t = inflight[k] \/ (inflight[k] = None /\ t = semantic[d])
      /\ claim' = [claim EXCEPT ![r] = t]
      /\ aliases' = [aliases EXCEPT ![t] = aliases[t] \cup {k}]
      /\ inflight' = [inflight EXCEPT ![k] = t]
      /\ UNCHANGED <<task, semantic>>
  BY DEF JoinClaim
<1>3. Exists(t) /\ semantic[d] = t /\ t # r
  BY <1>1, <1>2, BurstConstants DEF Indexes
<1>4. TypeOK'
  BY <1>1, <1>2 DEF SetStatus
<1>5. Arguments' /\ Held'
  BY <1>1, <1>2 DEF Arguments, Held, Exists, Named
<1>6. Created'
  BY <1>2 DEF Created, Exists, Waiting
<1>7. Awaiting'
  BY <1>1, <1>2, <1>3 DEF Awaiting, Exists, Waiting
<1>8. Indexes'
  <2>1. \A j \in Keys : inflight'[j] # None =>
          /\ Exists(inflight'[j]) /\ j \in aliases'[inflight'[j]]
          /\ semantic[arg[inflight'[j]].digest] = inflight'[j]
    BY <1>1, <1>2, <1>3 DEF Indexes
  <2>2. \A u \in Requests : Live(u) => inflight'[arg[u].key] = u
    BY <1>1, <1>2, BurstConstants DEF Indexes
  <2> QED
    BY <1>2, <2>1, <2>2 DEF Indexes, Exists, Live
<1>9. Remembered'
  BY <1>1, <1>2, BurstConstants DEF Remembered, Exists
<1>10. Braked' /\ UnapprovedKeyOnce'
  BY <1>2 DEF Braked, Ended, UnapprovedKeyOnce, Executed
<1> QED
  BY <1>4, <1>5, <1>6, <1>7, <1>8, <1>9, <1>10

(* A running task advances or ends; it never restarts.                     *)
LEMMA RunningTaskStep ==
    ASSUME Inv, NEW t \in Requests, NEW new \in Tasks,
           Live(t), new.stage # "none",
           new.stage = "done" => new.outcome \in Outcomes \cup {"raised"},
           task' = [task EXCEPT ![t] = new], SessionOK',
           UNCHANGED <<reqVars, mapVars, approvals, envVars>>
    PROVE  Inv'
<1> USE DEF Inv, Claims, TypeOK, reqVars, mapVars, envVars
<1>1. TypeOK'
  BY DEF SessionOK
<1>2. /\ Exists(t) /\ task[t].stage # "done"
      /\ \A u \in Requests : Exists(u)' = Exists(u)
      /\ \A u \in Requests \ {t} : task'[u] = task[u]
      /\ \A u \in Requests : Live(u)' => Live(u)
  BY DEF Exists, Live
<1>3. Arguments' /\ Held' /\ Created'
  BY <1>2 DEF Arguments, Held, Created, Exists
<1>4. Awaiting'
  BY <1>2 DEF Awaiting, Exists
<1>5. Indexes'
  BY <1>2 DEF Indexes, Exists
<1>6. Remembered' /\ UnapprovedKeyOnce'
  BY <1>2 DEF Remembered, UnapprovedKeyOnce, Executed, Exists
<1>7. Braked'
  BY <1>2 DEF Braked, Ended, Indexes
<1> QED
  BY <1>1, <1>3, <1>4, <1>5, <1>6, <1>7

(* Every step of an execution task is such a step.                         *)
LEMMA TaskStepStep ==
    ASSUME Inv, NEW t \in Requests, TaskStep(t)
    PROVE  Inv'
<1> USE DEF Inv, TypeOK
<1>1. /\ task[t] \in Tasks /\ task[t].step \in Nat /\ Live(t)
      /\ UNCHANGED <<reqVars, mapVars, approvals, envVars>>
  BY DEF TaskStep, TaskGate, TaskAct, TaskInterrupted, TaskFails, TaskRaises, OnlyTask, Tasks, Live
<1>2. SessionOK'
  <2>1. CASE RevokeForOtherClient /\ UNCHANGED <<stopped, status, stored>>
    BY <2>1, RevokeTyped DEF SessionOK
  <2>2. CASE UNCHANGED sessVars
    BY <2>2 DEF SessionOK, sessVars
  <2> QED
    BY <2>1, <2>2 DEF TaskStep, TaskGate, TaskAct, TaskInterrupted, TaskFails, TaskRaises, OnlyTask, sessVars
<1>3. ASSUME NEW outcome \in Outcomes \cup {"raised"}, NEW n \in Nat, EndTask(t, outcome, n)
      PROVE  Inv'
  <2> DEFINE new == [task[t] EXCEPT !.stage = "done", !.outcome = outcome, !.step = n]
  <2>1. new \in Tasks /\ new.stage = "done" /\ new.outcome = outcome
    BY <1>1 DEF Tasks
  <2>2. task' = [task EXCEPT ![t] = new]
    BY <1>3 DEF EndTask
  <2> HIDE DEF new
  <2> QED
    BY <1>1, <1>2, <2>1, <2>2, RunningTaskStep
<1>4. CASE task' = [task EXCEPT ![t] = [@ EXCEPT !.stage = "hid", !.emitted = TRUE]]
  <2> DEFINE new == [task[t] EXCEPT !.stage = "hid", !.emitted = TRUE]
  <2>1. new \in Tasks /\ new.stage = "hid"
    BY <1>1 DEF Tasks
  <2>2. task' = [task EXCEPT ![t] = new]
    BY <1>4
  <2> HIDE DEF new
  <2> QED
    BY <1>1, <1>2, <2>1, <2>2, RunningTaskStep
<1>5. CASE task' = [task EXCEPT ![t] = [@ EXCEPT !.stage = "gate", !.step = task[t].step + 1]]
  <2> DEFINE new == [task[t] EXCEPT !.stage = "gate", !.step = task[t].step + 1]
  <2>0. task[t].step + 1 \in Nat
    BY <1>1
  <2>1. new \in Tasks /\ new.stage = "gate"
    BY <1>1, <2>0 DEF Tasks
  <2>2. task' = [task EXCEPT ![t] = new]
    BY <1>5
  <2> HIDE DEF new
  <2> QED
    BY <1>1, <1>2, <2>1, <2>2, RunningTaskStep
<1>6. CASE TaskAct(t)
  BY <1>3, <1>5, <1>6, BurstConstants DEF TaskAct, Outcomes
<1> QED
  BY <1>1, <1>3, <1>4, <1>6, BurstConstants
     DEF TaskStep, TaskGate, TaskInterrupted, TaskFails, TaskRaises, Outcomes

(* The final capture and the session status.                               *)
LEMMA SettleStep ==
    ASSUME Inv, NEW r \in Requests, Settle(r)
    PROVE  Inv'
<1> USE DEF Inv, Claims, TypeOK, Settle, mapVars, envVars
<1>1. claim[r] \in Requests /\ task[claim[r]].outcome \in Outcomes
  BY DEF Awaiting, Created, Waiting
<1>0. PICK effective \in {task[claim[r]].outcome, "failed"} :
          answer' = [answer EXCEPT ![r] = IF stopped THEN "stopped" ELSE effective]
  OBVIOUS
<1> DEFINE word == IF stopped THEN "stopped" ELSE effective
<1>2. /\ word \in Results
      /\ answer' = [answer EXCEPT ![r] = word]
      /\ word = "completed" => task[claim[r]].outcome = "completed"
  BY <1>1, <1>0 DEF Results, Outcomes
<1> HIDE DEF word
<1>3. TypeOK'
  BY <1>2 DEF SetStatus
<1>4. Arguments' /\ Held' /\ Created'
  BY DEF Arguments, Held, Created, Exists, Named, Waiting
<1>5. Awaiting'
  BY <1>1, <1>2 DEF Awaiting, Exists, Waiting
<1>6. Indexes' /\ Remembered' /\ Braked' /\ UnapprovedKeyOnce'
  BY DEF Indexes, Remembered, Braked, UnapprovedKeyOnce, Exists, Live, Ended, Executed
<1> QED
  BY <1>3, <1>4, <1>5, <1>6

(* finish_execution_claim and the answer, whatever it is.                  *)
LEMMA FinishAsStep ==
    ASSUME Inv, NEW r \in Requests, NEW word \in Results, pc[r] \in Waiting,
           task[claim[r]].stage = "done",
           word = "completed" => task[claim[r]].outcome = "completed",
           FinishClaim(claim[r], word), Answer(r, arg[r], word),
           SessionOK', UNCHANGED envVars
    PROVE  Inv'
<1> DEFINE t == claim[r]
           d == arg[t].digest
           rc == [digest |-> d, st |-> "completed", result |-> word]
<1> USE DEF Inv, Claims, TypeOK, SessionOK, envVars
<1>1. /\ pc[r] \in Waiting /\ t \in Requests /\ Exists(t) /\ task[t].stage = "done"
      /\ word \in Results
      /\ word = "completed" => task[t].outcome = "completed"
      /\ SessionOK' /\ UNCHANGED envVars
  BY DEF Awaiting
<1>2. d \in Digests
  BY <1>1 DEF Arguments, Known
<1>3. rc \in Receipts /\ rc.st = "completed"
  BY <1>1, <1>2 DEF Receipts
<1>4. /\ idem' = [k \in Keys |-> IF k \in aliases[t] THEN rc ELSE idem[k]]
      /\ inflight' = [k \in Keys |-> IF k \in aliases[t] /\ inflight[k] = t
                                     THEN None ELSE inflight[k]]
      /\ semantic' = [semantic EXCEPT ![d] = IF semantic[d] = t THEN None ELSE semantic[d]]
      /\ unsafe' = [unsafe EXCEPT ![d] = IF RetainUnsafe(t, word) THEN word ELSE unsafe[d]]
      /\ UNCHANGED aliases
  BY DEF FinishClaim
<1> HIDE DEF rc
<1>5. /\ pc' = [pc EXCEPT ![r] = "done"] /\ arg' = arg
      /\ answer' = [answer EXCEPT ![r] = word]
      /\ approvals' = Resolved(arg[r].aid, word)
      /\ UNCHANGED <<claim, task>>
  BY DEF Answer
<1>6. arg[r] \in Args /\ (arg[r].aid # None => approvals[arg[r].aid] # "none")
  BY <1>1, OwnArguments DEF Named, Waiting
<1>7. TypeOK'
  <2>1. approvals' \in [Requests -> {"none", "pending", "approved",
                                     "approved_not_executed"} \cup Decided]
    BY <1>5, <1>6 DEF Resolved, Args
  <2>2. idem' \in [Keys -> Receipts]
    BY <1>3, <1>4
  <2>3. inflight' \in [Keys -> Requests \cup {None}]
    BY <1>4
  <2>4. semantic' \in [Digests -> Requests \cup {None}] /\ unsafe' \in [Digests -> Results \cup {"none"}]
    BY <1>1, <1>2, <1>4
  <2>5. aliases' \in [Requests -> SUBSET Keys]
    BY <1>4
  <2> QED
    BY <1>1, <1>5, <2>1, <2>2, <2>3, <2>4, <2>5
<1>8. Arguments' /\ Held'
  BY <1>5, <1>6 DEF Resolved, Arguments, Held, Args, Exists, Named
<1>9. Created' /\ Awaiting' /\ UnapprovedKeyOnce'
  BY <1>5 DEF Created, Awaiting, UnapprovedKeyOnce, Executed, Exists, Waiting, Over
<1>10. Indexes'
  <2>1. ASSUME NEW k \in Keys, inflight'[k] # None
        PROVE  /\ inflight'[k] = inflight[k] /\ inflight[k] # t
               /\ semantic'[arg[inflight[k]].digest] = inflight[k]
    <3>1. inflight'[k] = inflight[k] /\ inflight[k] # t
      BY <1>4, <2>1 DEF Indexes
    <3>2. inflight[k] \in Requests /\ arg[inflight[k]].digest \in Digests
      BY <2>1, <3>1 DEF Indexes, Arguments
    <3> QED
      BY <1>2, <1>4, <2>1, <3>1, <3>2 DEF Indexes
  <2>2. ASSUME NEW e \in Digests, semantic'[e] # None
        PROVE  semantic'[e] = semantic[e]
    BY <1>2, <1>4, <2>2
  <2>3. ASSUME NEW u \in Requests, Live(u)
        PROVE  inflight'[arg[u].key] = u /\ semantic'[arg[u].digest] = u
    <3>1. u # t /\ arg[u].key \in Keys /\ arg[u].digest \in Digests
      BY <1>1, <2>3 DEF Live, Arguments, Exists
    <3> QED
      BY <1>2, <1>4, <2>3, <3>1 DEF Indexes
  <2> QED
    BY <1>4, <1>5, <2>1, <2>2, <2>3, SMTT(30) DEF Indexes, Exists, Live
<1>11. Remembered'
  <2>1. ASSUME NEW u \in Requests, Exists(u)
        PROVE  inflight'[arg[u].key] = u \/ idem'[arg[u].key].st # "none"
    <3>1. arg[u].key \in Keys
      BY <2>1 DEF Arguments
    <3> QED
      BY <1>3, <1>4, <2>1, <3>1 DEF Remembered
  <2> QED
    BY <1>4, <1>5, <2>1 DEF Remembered, Exists
<1>12. Braked'
  <2>1. ASSUME NEW u \in Requests, Ended(u), task[u].step > 0
        PROVE  semantic'[arg[u].digest] = u \/ unsafe'[arg[u].digest] # "none"
    <3>1. arg[u].digest \in Digests
      BY <2>1 DEF Arguments, Ended, Exists
    <3>2. CASE u = t /\ semantic[d] = t
      BY <1>1, <1>2, <1>4, <2>1, <3>2 DEF Ended, RetainUnsafe, Results, Outcomes
    <3>3. CASE ~(u = t /\ semantic[d] = t)
      BY <1>1, <1>2, <1>4, <2>1, <3>1, <3>3 DEF Braked, RetainUnsafe, Results, Outcomes
    <3> QED
      BY <3>2, <3>3
  <2> QED
    BY <1>5, <2>1 DEF Braked, Ended
<1> QED
  BY <1>7, <1>8, <1>9, <1>10, <1>11, <1>12

(* The normal return, and the one for a task that raised.                  *)
LEMMA FinishStep ==
    ASSUME Inv, NEW r \in Requests, Finish(r) \/ BadBurst(r)
    PROVE  Inv'
<1> USE DEF Inv, Claims, TypeOK, SessionOK
<1>1. CASE Finish(r)
  <2>1. /\ pc[r] \in Waiting /\ answer[r] \in Results /\ task[claim[r]].stage = "done"
        /\ answer[r] = "completed" => task[claim[r]].outcome = "completed"
        /\ FinishClaim(claim[r], answer[r]) /\ Answer(r, arg[r], answer[r])
        /\ SessionOK' /\ UNCHANGED envVars
    BY <1>1 DEF Finish, Awaiting, Waiting, sessVars
  <2> QED
    BY <2>1, FinishAsStep
<1>2. CASE BadBurst(r)
  <2>1. /\ pc[r] \in Waiting /\ task[claim[r]].stage = "done" /\ "failed" \in Results
        /\ FinishClaim(claim[r], "failed") /\ Answer(r, arg[r], "failed")
        /\ SessionOK' /\ UNCHANGED envVars
    BY <1>2 DEF BadBurst, Awaiting, Waiting, Results, Outcomes
  <2> QED
    BY <2>1, FinishAsStep
<1> QED
  BY <1>1, <1>2

(* A client leaves.                                                        *)
LEMMA CancelStep ==
    ASSUME Inv, NEW r \in Requests, Cancel(r)
    PROVE  Inv'
<1> USE DEF Inv, Claims, TypeOK, Cancel, sessVars, mapVars, envVars
<1>1. TypeOK'
  OBVIOUS
<1>2. Arguments' /\ Held' /\ Created' /\ Awaiting'
  BY DEF Arguments, Held, Created, Awaiting, Exists, Named, Waiting, Over
<1>3. Indexes' /\ Remembered' /\ Braked' /\ UnapprovedKeyOnce'
  BY DEF Indexes, Remembered, Braked, UnapprovedKeyOnce, Exists, Live, Ended, Executed
<1> QED
  BY <1>1, <1>2, <1>3

(* A step that leaves requests, claims and tasks alone.                    *)
LEMMA OutsideStep ==
    ASSUME Inv, UNCHANGED <<reqVars, mapVars, approvals, task>>,
           SessionOK', world' \in Nat, others' \in BOOLEAN
    PROVE  Inv'
<1> USE DEF Inv, Claims, TypeOK, SessionOK, reqVars, mapVars
<1>1. TypeOK'
  OBVIOUS
<1>2. Arguments' /\ Held' /\ Created' /\ Awaiting'
  BY DEF Arguments, Held, Created, Awaiting, Exists
<1>3. Indexes' /\ Remembered' /\ Braked' /\ UnapprovedKeyOnce'
  BY DEF Indexes, Remembered, Braked, UnapprovedKeyOnce, Exists, Live, Ended, Executed
<1> QED
  BY <1>1, <1>2, <1>3

(* Ground with all its outcomes.                                           *)
LEMMA GroundKeepsInv ==
    ASSUME Inv, NEW r \in Requests, Ground(r)
    PROVE  Inv'
<1>1. pc[r] = "ground" /\ UNCHANGED envVars
  BY DEF Ground
<1>2. CASE /\ Unseen(arg[r])
           /\ NewClaim(r, arg[r]) \/ \E t \in Requests : JoinClaim(r, arg[r], t)
           /\ pc' = [pc EXCEPT ![r] = "wait"]
           /\ SetStatus("running")
           /\ UNCHANGED <<arg, answer, epoch, stopped, block, idem, unsafe, approvals>>
  BY <1>1, <1>2, NewClaimStep, JoinClaimStep
<1>3. CASE \/ Answer(r, arg[r], "blocked") /\ UNCHANGED <<sessVars, mapVars>>
           \/ /\ Answer(r, arg[r], "idempotency_conflict")
              /\ UNCHANGED <<sessVars, mapVars>>
           \/ /\ approvals' = [approvals EXCEPT ![r] = "pending"]
              /\ pc' = [pc EXCEPT ![r] = "hold"]
              /\ UNCHANGED <<arg, claim, answer, sessVars, mapVars, task>>
           \/ /\ ReplayReceipt(r, arg[r]) \/ ReplayUnsafe(r, arg[r])
              /\ UNCHANGED <<sessVars, inflight, semantic, unsafe, aliases>>
  BY <1>1, <1>3, GroundStep, RequestStepKeepsClaims DEF Kept, Inv
<1> QED
  BY <1>2, <1>3 DEF Ground, ClaimExecution

(* Every step preserves the invariant.                                     *)
LEMMA NextKeepsInv == Inv /\ [Next]_vars => Inv'
<1> SUFFICES ASSUME Inv, [Next]_vars PROVE Inv'
  OBVIOUS
<1>1. ASSUME NEW r \in Requests, Kept' /\ RequestStep(r) PROVE Inv'
  BY <1>1, RequestStepKeepsClaims DEF Kept, Inv
<1>2. ASSUME NEW r \in Requests, Submit(r) PROVE Inv'
  BY <1>1, <1>2, SubmitStep
<1>3. ASSUME NEW r \in Requests, RefuseMalformed(r) \/ RefuseUnanchored(r) PROVE Inv'
  BY <1>1, <1>3, RefuseStep
<1>4. ASSUME NEW r \in Requests, NEW a \in Requests, Decide(r, a) PROVE Inv'
  BY <1>1, <1>4, DecideStep
<1>5. ASSUME NEW r \in Requests, Progress(r) PROVE Inv'
  <2>1. CASE Capture(r)
    BY <1>1, <2>1, CaptureStep
  <2>2. CASE Ground(r)
    BY <2>2, GroundKeepsInv
  <2>3. CASE HoldStatus(r) \/ HoldRecord(r)
    BY <1>1, <2>3, HoldStep
  <2>4. CASE Settle(r)
    BY <2>4, SettleStep
  <2>5. CASE Finish(r) \/ BadBurst(r)
    BY <2>5, FinishStep
  <2>6. CASE Approve(r)
    BY <1>1, <2>6, ApproveStep
  <2>7. CASE RejectResolve(r) \/ RejectApply(r)
    BY <1>1, <2>7, RejectStep
  <2> QED
    BY <1>5, <2>1, <2>2, <2>3, <2>4, <2>5, <2>6, <2>7 DEF Progress
<1>6. ASSUME NEW r \in Requests, PostSettle(r) PROVE Inv'
  <2>1. SessionOK'
    BY <1>6, RevokeTyped DEF PostSettle, Inv, TypeOK, SessionOK
  <2> QED
    BY <1>6, <2>1, OutsideStep DEF PostSettle, Inv, TypeOK, envVars
<1>7. ASSUME NEW r \in Requests, Cancel(r) PROVE Inv'
  BY <1>7, CancelStep
<1>8. ASSUME NEW r \in Requests, TaskStep(r) PROVE Inv'
  BY <1>8, TaskStepStep
<1>9. CASE AbortSession \/ HumanInput
  <2>1. UNCHANGED <<reqVars, mapVars, approvals, task, envVars>>
    BY <1>9 DEF AbortSession, HumanInput
  <2>2. SessionOK'
    <3>1. CASE AbortSession
      BY <3>1 DEF AbortSession, SetStatus, Inv, TypeOK, SessionOK
    <3>2. CASE HumanInput
      BY <3>2 DEF HumanInput, Inv, TypeOK, SessionOK
    <3> QED
      BY <1>9, <3>1, <3>2
  <2> QED
    BY <2>1, <2>2, OutsideStep DEF Inv, TypeOK, envVars
<1>10. CASE Machine
  <2>1. SessionOK' /\ UNCHANGED <<reqVars, mapVars, approvals, task>>
    BY <1>10 DEF Machine, Inv, TypeOK, SessionOK, sessVars
  <2>2. world' \in Nat
    BY <1>10 DEF Machine, Inv, TypeOK
  <2>3. others' = ~others \/ others' = others
    BY <1>10 DEF Machine
  <2>4. others' \in BOOLEAN
    BY <2>3, Zenon DEF Inv, TypeOK
  <2> QED
    BY <2>1, <2>2, <2>4, OutsideStep
<1>11. CASE UNCHANGED vars
  <2>1. SessionOK' /\ UNCHANGED <<reqVars, mapVars, approvals, task, envVars>>
    BY <1>11 DEF vars, Inv, TypeOK, SessionOK, sessVars
  <2> QED
    BY <2>1, OutsideStep DEF Inv, TypeOK, envVars
<1> QED
  BY <1>2, <1>3, <1>4, <1>5, <1>6, <1>7, <1>8, <1>9, <1>10, <1>11 DEF Next

(* The claims, receipts and retained results of run_burst stay consistent  *)
(* with the execution tasks through every interleaving of requests.        *)
THEOREM Invariance == Spec => []Inv
<1>1. Init => Inv
  BY InitInv
<1>2. Inv /\ [Next]_vars => Inv'
  BY NextKeepsInv
<1> QED
  BY <1>1, <1>2, PTL DEF Spec

(* Every variable of the session keeps its shape.                          *)
THEOREM TypeCorrect == Spec => []TypeOK
<1>1. Inv => TypeOK
  BY DEF Inv
<1> QED
  BY <1>1, Invariance, PTL

(* However requests and late joiners interleave, run_burst never has two   *)
(* live execution tasks of one digest or of one idempotency key.           *)
THEOREM OneTaskAtATime == Spec => []SingleFlight
<1>1. Inv => SingleFlight
  BY DEF Inv, Claims, Indexes, SingleFlight, Executed
<1> QED
  BY <1>1, Invariance, PTL

(* No unapproved retry of run_burst executes an idempotency key again.     *)
THEOREM KeyRunsOnceUnapproved == Spec => []UnapprovedKeyOnce
<1>1. Inv => UnapprovedKeyOnce
  BY DEF Inv, Claims
<1> QED
  BY <1>1, Invariance, PTL

(* The steps that change an execution task: a claim creates it, or it runs *)
(* by itself.                                                              *)
LEMMA TaskKinds ==
    ASSUME Inv, [Next]_vars, task' # task
    PROVE  \/ \E t \in Requests : TaskStep(t)
           \/ \E q \in Requests : /\ pc[q] = "ground" /\ arg' = arg
                                  /\ Unseen(arg[q]) /\ NewClaim(q, arg[q])
<1>1. PICK q \in Requests : Ground(q) \/ TaskStep(q)
  <2>1. \A q \in Requests : \A x : EnterBurst(q, x) => UNCHANGED task
    BY DEF EnterBurst, ReplayReceipt, ReplayUnsafe, Answer
  <2>2. \A q \in Requests : Submit(q) \/ RefuseMalformed(q) \/ RefuseUnanchored(q)
                           => UNCHANGED task
    BY <2>1 DEF Submit, RefuseMalformed, RefuseUnanchored, Answer
  <2>3. \A q, a \in Requests : Decide(q, a) => UNCHANGED task
    BY DEF Decide
  <2>4. \A q \in Requests : Progress(q) => Ground(q) \/ UNCHANGED task
    BY <2>1 DEF Progress, Capture, HoldStatus, HoldRecord, Settle, Finish, BadBurst, Approve,
                RejectResolve, RejectApply, Answer
  <2>5. \A q \in Requests : PostSettle(q) \/ Cancel(q) => UNCHANGED task
    BY DEF PostSettle, Cancel
  <2>6. AbortSession \/ HumanInput \/ Machine \/ UNCHANGED vars => UNCHANGED task
    BY DEF AbortSession, HumanInput, Machine, vars
  <2> QED
    BY <2>2, <2>3, <2>4, <2>5, <2>6 DEF Next
<1>2. CASE Ground(q)
  BY <1>2 DEF Ground, ClaimExecution, ReplayReceipt, ReplayUnsafe, Answer, JoinClaim
<1> QED
  BY <1>1, <1>2

(* The only step that creates an execution task.                           *)
LEMMA TaskOrigin ==
    ASSUME Inv, [Next]_vars, NEW r \in Requests, ~Exists(r), task'[r].stage # "none"
    PROVE  /\ arg' = arg /\ arg[r].digest \in Digests
           /\ unsafe[arg[r].digest] = "none" /\ semantic[arg[r].digest] = None
<1> USE DEF Inv, TypeOK, Exists
<1>1. task' # task
  OBVIOUS
<1>2. ASSUME NEW t \in Requests, TaskStep(t)
      PROVE  Live(t) /\ \A u \in Requests \ {t} : task'[u] = task[u]
  BY <1>2 DEF TaskStep, TaskGate, TaskAct, TaskInterrupted, TaskFails, TaskRaises, EndTask, Live
<1>3. PICK q \in Requests : /\ pc[q] = "ground" /\ arg' = arg
                            /\ Unseen(arg[q]) /\ NewClaim(q, arg[q])
  BY <1>1, <1>2, TaskKinds DEF Live
<1>4. q = r
  BY <1>3 DEF NewClaim
<1>5. Known(arg[r])
  BY <1>3, <1>4, OwnArguments DEF Named
<1> QED
  BY <1>3, <1>4, <1>5 DEF Known, Unseen, NewClaim

(* The at-most-once brake of run_burst: a burst that completed an action   *)
(* and ended without success, other than by raising BurstError, is never   *)
(* executed again in its session.                                          *)
THEOREM UnsafeNeverRepeats == Spec => NoRepeatAfterUnsafe
<1>1. Inv /\ [Next]_vars =>
        [\A r, t \in Requests :
          /\ task[r].stage = "none" /\ task'[r].stage # "none"
          /\ Ended(t) /\ task[t].step > 0
          => arg'[r].digest # arg[t].digest]_vars
  <2> SUFFICES ASSUME Inv, [Next]_vars, NEW r \in Requests, NEW t \in Requests,
                      task[r].stage = "none", task'[r].stage # "none",
                      Ended(t), task[t].step > 0
               PROVE  arg'[r].digest # arg[t].digest
    OBVIOUS
  <2>1. /\ arg' = arg /\ arg[r].digest \in Digests
        /\ unsafe[arg[r].digest] = "none" /\ semantic[arg[r].digest] = None
    BY TaskOrigin DEF Exists
  <2>2. semantic[arg[t].digest] = t \/ unsafe[arg[t].digest] # "none"
    BY DEF Inv, Claims, Braked
  <2> QED
    BY <2>1, <2>2, BurstConstants
<1> QED
  BY <1>1, Invariance, PTL DEF Spec, NoRepeatAfterUnsafe

----------------------------------------------------------------------------
(* Direct bursts implement the at-most-once ledger: every step begins an   *)
(* execution the ledger allows, ends one, or leaves the ledger alone.      *)
Entry(t) == [id |-> t, key |-> arg[t].key, digest |-> arg[t].digest,
             approved |-> arg[t].aid # None]

LogOf == {Entry(t) : t \in Executed}
RunningOf == {t \in Requests : Live(t)}
BurntOf == {arg[t].digest : t \in {u \in Requests : Ended(u) /\ task[u].step > 0}}

(* The arguments of an execution never change: its request is past them.   *)
LEMMA ArgumentsStay ==
    ASSUME Inv, [Next]_vars, NEW t \in Requests, Exists(t)
    PROVE  arg'[t] = arg[t]
<1> USE DEF Inv, TypeOK
<1>1. pc[t] \in {"wait", "finish", "done", "gone"}
  BY DEF Claims, Created, Waiting, Over
<1>2. \A r \in Requests : \A x : (x = arg[r] \/ r # t) /\ EnterBurst(r, x) => arg'[t] = arg[t]
  BY DEF EnterBurst, ReplayReceipt, ReplayUnsafe, Answer
<1>3. \A r \in Requests : Submit(r) \/ RefuseMalformed(r) \/ RefuseUnanchored(r)
                          => arg'[t] = arg[t]
  BY <1>1, <1>2 DEF Submit, RefuseMalformed, RefuseUnanchored, Answer
<1>4. \A r, a \in Requests : Decide(r, a) => arg'[t] = arg[t]
  BY <1>1 DEF Decide
<1>5. \A r \in Requests : Ground(r) => arg'[t] = arg[t]
  BY DEF Ground, ClaimExecution, ReplayReceipt, ReplayUnsafe, Answer
<1>6. \A r \in Requests : Progress(r) => arg'[t] = arg[t]
  BY <1>2, <1>5 DEF Progress, Capture, HoldStatus, HoldRecord, Settle, Finish, BadBurst, Approve,
                    RejectResolve, RejectApply, Answer
<1>7. \A r \in Requests : PostSettle(r) \/ Cancel(r) \/ TaskStep(r) => arg'[t] = arg[t]
  BY DEF PostSettle, Cancel, reqVars, TaskStep, TaskGate, TaskAct, TaskInterrupted, TaskFails, TaskRaises,
         OnlyTask
<1>8. AbortSession \/ HumanInput \/ Machine \/ UNCHANGED vars => arg'[t] = arg[t]
  BY DEF AbortSession, HumanInput, Machine, vars, reqVars
<1> QED
  BY <1>3, <1>4, <1>6, <1>7, <1>8 DEF Next

(* No step of the ledger when no task changes.                             *)
LEMMA StutterStep ==
    ASSUME Inv, [Next]_vars, task' = task
    PROVE  LogOf' = LogOf /\ RunningOf' = RunningOf /\ BurntOf' = BurntOf
<1>1. \A t \in Executed : arg'[t] = arg[t]
  BY ArgumentsStay DEF Executed, Exists
<1>2. Executed' = Executed /\ RunningOf' = RunningOf
  BY DEF Executed, RunningOf, Live
<1>3. LogOf' = LogOf
  BY <1>1, <1>2 DEF LogOf, Entry
<1>4. \A u \in Requests : Ended(u) => u \in Executed
  BY DEF Ended, Executed
<1>5. BurntOf' = BurntOf
  BY <1>1, <1>4 DEF BurntOf, Ended
<1> QED
  BY <1>2, <1>3, <1>5

(* Creating a claim begins an execution the ledger allows.                 *)
LEMMA BeginStep ==
    ASSUME Inv, Inv', [Next]_vars, NEW q \in Requests, pc[q] = "ground", arg' = arg,
           Unseen(arg[q]), NewClaim(q, arg[q])
    PROVE  /\ \A t \in Executed : t # q
           /\ \A t \in Executed : Live(t) =>
                 arg[t].key # arg[q].key /\ arg[t].digest # arg[q].digest
           /\ arg[q].digest \notin BurntOf
           /\ \/ arg[q].aid # None
              \/ \A t \in Executed : arg[t].key = arg[q].key => arg[t].aid # None
           /\ Executed' = Executed \cup {q}
           /\ LogOf' = LogOf \cup {Entry(q)}
           /\ RunningOf' = RunningOf \cup {q}
           /\ BurntOf' = BurntOf
<1> USE DEF Inv, TypeOK
<1>1. ~Exists(q)
  BY NoTaskYet DEF Waiting, Over
<1>2. /\ task' = [task EXCEPT ![q] = [NoTask EXCEPT !.stage = "gate"]]
      /\ inflight[arg[q].key] = None /\ semantic[arg[q].digest] = None
      /\ unsafe[arg[q].digest] = "none"
  BY DEF NewClaim, Unseen
<1>3. task'[q].stage = "gate" /\ \A u \in Requests \ {q} : task'[u] = task[u]
  BY <1>2 DEF NoTask
<1>4. Executed' = Executed \cup {q} /\ \A t \in Executed : t # q
  BY <1>1, <1>3 DEF Executed, Exists
<1>5. \A t \in Executed : Live(t) =>
         arg[t].key # arg[q].key /\ arg[t].digest # arg[q].digest
  BY <1>2, BurstConstants DEF Claims, Indexes, Executed
<1>6. arg[q].digest \notin BurntOf
  BY <1>2, BurstConstants DEF Claims, Braked, BurntOf
<1>7. \/ arg[q].aid # None
      \/ \A t \in Executed : arg[t].key = arg[q].key => arg[t].aid # None
  BY <1>4 DEF Claims, UnapprovedKeyOnce
<1>8. LogOf' = LogOf \cup {Entry(q)}
  BY <1>4 DEF LogOf, Entry
<1>9. RunningOf' = RunningOf \cup {q}
  BY <1>3 DEF RunningOf, Live
<1>10. BurntOf' = BurntOf
  <2>1. \A u \in Requests : (Ended(u) /\ task[u].step > 0)' <=> (Ended(u) /\ task[u].step > 0)
    BY <1>1, <1>3 DEF Ended, Exists
  <2> QED
    BY <2>1 DEF BurntOf
<1> QED
  BY <1>4, <1>5, <1>6, <1>7, <1>8, <1>9, <1>10

(* A task that runs ends an execution or changes nothing of the ledger.    *)
LEMMA RunStep ==
    ASSUME Inv, [Next]_vars, NEW t \in Requests, TaskStep(t)
    PROVE  /\ t \in Executed /\ Live(t) /\ LogOf' = LogOf
           /\ \/ RunningOf' = RunningOf /\ BurntOf' = BurntOf
              \/ /\ RunningOf' = RunningOf \ {t}
                 /\ BurntOf' \in {BurntOf, BurntOf \cup {arg[t].digest}}
<1> USE DEF Inv, TypeOK
<1> DEFINE new == task'[t]
<1>1. /\ \A u \in Requests \ {t} : task'[u] = task[u]
      /\ new.stage \in {"gate", "hid", "done"}
  <2>1. task[t] = [stage |-> task[t].stage, step |-> task[t].step,
                   emitted |-> task[t].emitted, outcome |-> task[t].outcome]
    BY DEF Tasks
  <2>2. ASSUME NEW outcome, NEW n, EndTask(t, outcome, n)
        PROVE  new.stage = "done" /\ \A u \in Requests \ {t} : task'[u] = task[u]
    BY <2>1, <2>2 DEF EndTask
  <2>3. CASE task' = [task EXCEPT ![t] = [@ EXCEPT !.stage = "hid", !.emitted = TRUE]]
    BY <2>1, <2>3
  <2>4. CASE task' = [task EXCEPT ![t] = [@ EXCEPT !.stage = "gate", !.step = task[t].step + 1]]
    BY <2>1, <2>4
  <2> QED
    BY <2>2, <2>3, <2>4 DEF TaskStep, TaskGate, TaskAct, TaskInterrupted, TaskFails, TaskRaises
<1>2. Live(t) /\ arg' = arg /\ t \in Executed
  BY DEF TaskStep, TaskGate, TaskAct, TaskInterrupted, TaskFails, TaskRaises, OnlyTask, reqVars, Live, Executed
<1> HIDE DEF new
<1>3. task'[t] = new /\ \A u \in Requests \ {t} : task'[u] = task[u]
  BY <1>1 DEF new
<1>4. Executed' = Executed
  BY <1>1, <1>2, <1>3 DEF Executed
<1>5. LogOf' = LogOf
  BY <1>2, <1>4 DEF LogOf, Entry
<1>6. CASE new.stage # "done"
  <2>1. RunningOf' = RunningOf
    BY <1>1, <1>2, <1>3, <1>6 DEF RunningOf, Live
  <2>2. \A u \in Requests : (Ended(u) /\ task[u].step > 0)' <=> (Ended(u) /\ task[u].step > 0)
    BY <1>2, <1>3, <1>6 DEF Ended, Live
  <2>3. BurntOf' = BurntOf
    BY <1>2, <2>2 DEF BurntOf
  <2> QED
    BY <1>2, <1>5, <2>1, <2>3
<1>7. CASE new.stage = "done"
  <2>1. RunningOf' = RunningOf \ {t}
    BY <1>3, <1>7 DEF RunningOf, Live
  <2>2. \A u \in Requests \ {t} :
           (Ended(u) /\ task[u].step > 0)' <=> (Ended(u) /\ task[u].step > 0)
    BY <1>3 DEF Ended
  <2>3. ~Ended(t)
    BY <1>2 DEF Ended, Live
  <2>4. BurntOf' \in {BurntOf, BurntOf \cup {arg[t].digest}}
    <3>1. CASE (Ended(t) /\ task[t].step > 0)'
      <4>1. BurntOf' = BurntOf \cup {arg[t].digest}
        BY <1>2, <2>2, <2>3, <3>1 DEF BurntOf
      <4> QED
        BY <4>1
    <3>2. CASE ~(Ended(t) /\ task[t].step > 0)'
      <4>1. BurntOf' = BurntOf
        BY <1>2, <2>2, <2>3, <3>2 DEF BurntOf
      <4> QED
        BY <4>1
    <3> QED
      BY <3>1, <3>2
  <2> QED
    BY <1>2, <1>5, <2>1, <2>4
<1> QED
  BY <1>1, <1>6, <1>7

(* run_burst, submit_approval and everything beside them implement the     *)
(* ledger of executions.                                                   *)
THEOREM BurstsImplementLedger == Spec => ImplementsLedger
<1>1. Init => Ledger!Init
  BY DEF Init, Ledger!Init, Executed, Live, Ended, NoTask
<1>2. Inv /\ Inv' /\ [Next]_vars => [Ledger!Next]_<<LogOf, RunningOf, BurntOf>>
  <2> SUFFICES ASSUME Inv, Inv', [Next]_vars
               PROVE  [Ledger!Next]_<<LogOf, RunningOf, BurntOf>>
    OBVIOUS
  <2>1. CASE task' = task
    BY <2>1, StutterStep
  <2>2. ASSUME NEW q \in Requests, pc[q] = "ground", arg' = arg,
               Unseen(arg[q]), NewClaim(q, arg[q])
        PROVE  Ledger!Next
    <3>1. PICK e : e = Entry(q)
      OBVIOUS
    <3>2. /\ e \in Ledger!Entries
          /\ e.id = q /\ e.key = arg[q].key /\ e.digest = arg[q].digest
          /\ e.approved <=> arg[q].aid # None
      BY <2>2, <3>1, OwnArguments DEF Entry, Ledger!Entries, Named, Known
    <3>3. \A t \in Requests : /\ Entry(t).id = t /\ Entry(t).key = arg[t].key
                              /\ Entry(t).digest = arg[t].digest
                              /\ Entry(t).approved <=> arg[t].aid # None
      BY DEF Entry
    <3>4. \A f \in LogOf : \E t \in Executed : f = Entry(t)
      BY DEF LogOf
    <3>5. /\ \A f \in LogOf : f.id # e.id
          /\ \A f \in LogOf : f.id \in RunningOf => f.key # e.key /\ f.digest # e.digest
          /\ e.digest \notin BurntOf
          /\ e.approved \/ \A f \in LogOf : f.key = e.key => f.approved
      BY <2>2, <3>2, <3>3, <3>4, BeginStep DEF RunningOf, Executed
    <3>6. /\ LogOf' = LogOf \cup {e} /\ RunningOf' = RunningOf \cup {e.id}
          /\ BurntOf' = BurntOf
      BY <2>2, <3>1, <3>2, BeginStep
    <3>7. Ledger!Begin(e)
      BY <3>5, <3>6 DEF Ledger!Begin, LogOf, RunningOf, BurntOf, Entry
    <3> QED
      BY <3>2, <3>7 DEF Ledger!Next
  <2>3. ASSUME NEW t \in Requests, TaskStep(t)
        PROVE  [Ledger!Next]_<<LogOf, RunningOf, BurntOf>>
    <3>1. CASE RunningOf' = RunningOf /\ BurntOf' = BurntOf
      BY <2>3, <3>1, RunStep
    <3>2. CASE /\ RunningOf' = RunningOf \ {t}
               /\ BurntOf' \in {BurntOf, BurntOf \cup {arg[t].digest}}
      <4>1. PICK e : e = Entry(t)
        OBVIOUS
      <4>2. t \in Executed /\ Live(t) /\ LogOf' = LogOf
        BY <2>3, RunStep
      <4>3. e \in Ledger!Entries /\ e.id = t /\ e.digest = arg[t].digest /\ e \in LogOf
        BY <4>1, <4>2 DEF Inv, Arguments, Executed, Exists, Entry, Ledger!Entries, LogOf
      <4>4. e.id \in RunningOf
        BY <4>2, <4>3 DEF RunningOf
      <4>5. Ledger!End(e)
        BY <3>2, <4>2, <4>3, <4>4 DEF Ledger!End, LogOf, RunningOf, BurntOf, Entry
      <4> QED
        BY <4>3, <4>5 DEF Ledger!Next
    <3> QED
      BY <2>3, <3>1, <3>2, RunStep
  <2> QED
    BY <2>1, <2>2, <2>3, TaskKinds
<1> QED
  BY <1>1, <1>2, Invariance, PTL DEF Spec, ImplementsLedger, Ledger!Spec, LogOf, RunningOf, BurntOf, Entry
-----------------------------------------------------------------------------
(* Honest answers: whatever reports a success can be traced to an          *)
(* execution of the same actions that completed, and stays as it is.       *)

(* The digests of executions that have completed.                          *)
Completed ==
    {arg[t].digest : t \in {u \in Requests : task[u].stage = "done" /\ task[u].outcome = "completed"}}

(* Receipts report no other success, and no retained result is one.        *)
Truthful ==
    /\ \A k \in Keys : idem[k].result = "completed" => idem[k].digest \in Completed
    /\ \A d \in Digests : unsafe[d] # "completed"

Told == \A r \in Requests : pc[r] = "done" /\ answer[r] = "completed" => arg[r].digest \in Completed

(* An execution that has completed is never taken back.                    *)
LEMMA CompletedStays ==
    ASSUME Inv, [Next]_vars
    PROVE  Completed \subseteq Completed'
<1> SUFFICES ASSUME NEW t \in Requests, task[t].stage = "done", task[t].outcome = "completed"
             PROVE  arg'[t] = arg[t] /\ task'[t] = task[t]
  BY DEF Completed
<1>1. arg'[t] = arg[t]
  BY ArgumentsStay DEF Exists
<1>2. \A u \in Requests : TaskStep(u) => task'[t] = task[t]
  BY DEF Inv, TypeOK, TaskStep, TaskGate, TaskAct, TaskInterrupted, TaskFails, TaskRaises, EndTask
<1>3. \A q \in Requests : pc[q] = "ground" /\ NewClaim(q, arg[q]) => task'[t] = task[t]
  BY NoTaskYet DEF Inv, TypeOK, NewClaim, Exists, Waiting, Over
<1>4. task'[t] = task[t]
  BY <1>2, <1>3, TaskKinds
<1> QED
  BY <1>1, <1>4

(* Receipts and retained results that do not change stay truthful.         *)
LEMMA ReceiptsStand ==
    ASSUME Inv, Truthful, [Next]_vars, UNCHANGED <<idem, unsafe>>
    PROVE  Truthful'
<1>1. \A k \in Keys : idem[k].result = "completed" => idem[k].digest \in Completed'
  BY CompletedStays DEF Truthful
<1> QED
  BY <1>1 DEF Truthful

(* So do the answers given, when no request is answered anew.              *)
LEMMA AnswersStand ==
    ASSUME Inv, Told, [Next]_vars,
           \A q \in Requests : pc'[q] = "done" /\ answer'[q] = "completed" =>
               pc[q] = "done" /\ answer[q] = "completed" /\ arg'[q] = arg[q]
    PROVE  Told'
<1>1. \A q \in Requests : pc[q] = "done" /\ answer[q] = "completed" => arg[q].digest \in Completed'
  BY CompletedStays DEF Told
<1> QED
  BY <1>1 DEF Told

(* A new answer is honest if its own success is.                           *)
LEMMA AnswerTold ==
    ASSUME Inv, Told, [Next]_vars, NEW r \in Requests, NEW x, NEW word, Answer(r, x, word),
           word = "completed" => x.digest \in Completed
    PROVE  Told'
<1>1. \A q \in Requests : pc[q] = "done" /\ answer[q] = "completed" => arg[q].digest \in Completed'
  BY CompletedStays DEF Told
<1>2. word = "completed" => x.digest \in Completed'
  BY CompletedStays
<1>3. /\ arg'[r] = x /\ answer'[r] = word
      /\ \A q \in Requests \ {r} : pc'[q] = pc[q] /\ arg'[q] = arg[q] /\ answer'[q] = answer[q]
  BY DEF Answer, Inv, TypeOK
<1> QED
  BY <1>1, <1>2, <1>3 DEF Told

(* A replayed receipt reports what its own actions did.                    *)
LEMMA ReplayHonest ==
    ASSUME Inv, Truthful, Told, [Next]_vars, NEW r \in Requests, NEW x, Known(x),
           ReplayReceipt(r, x) \/ ReplayUnsafe(r, x), UNCHANGED unsafe
    PROVE  Truthful' /\ Told'
<1>1. CASE ReplayReceipt(r, x)
  <2>1. PICK word : Answer(r, x, word) /\ (word = "completed" => x.digest \in Completed)
    <3>1. CASE Answer(r, x, "idempotency_conflict")
      BY <3>1
    <3>2. CASE Replayable(x) /\ Answer(r, x, idem[x.key].result)
      BY <3>2 DEF Replayable, Truthful, Known
    <3> QED
      BY <1>1, <3>1, <3>2 DEF ReplayReceipt
  <2>2. UNCHANGED <<idem, unsafe>>
    BY <1>1 DEF ReplayReceipt
  <2> QED
    BY <2>1, <2>2, AnswerTold, ReceiptsStand
<1>2. CASE ReplayUnsafe(r, x)
  <2>1. Answer(r, x, unsafe[x.digest]) /\ unsafe[x.digest] # "completed"
    BY <1>2 DEF ReplayUnsafe, Truthful, Known
  <2>2. \A k \in Keys : idem[k].result = "completed" => idem[k].digest \in Completed'
    BY CompletedStays DEF Truthful
  <2>3. /\ idem'[x.key].result = unsafe[x.digest]
        /\ \A k \in Keys \ {x.key} : idem'[k] = idem[k]
    BY <1>2 DEF ReplayUnsafe, Known, Inv, TypeOK
  <2>4. Truthful'
    BY <2>1, <2>2, <2>3 DEF Truthful
  <2> QED
    BY <2>1, <2>4, AnswerTold
<1> QED
  BY <1>1, <1>2

(* A request up to its first await.                                        *)
LEMMA EnterHonest ==
    ASSUME Inv, Truthful, Told, [Next]_vars, NEW r \in Requests, NEW x, Known(x),
           EnterBurst(r, x)
    PROVE  Truthful' /\ Told'
<1>1. CASE Answer(r, x, "stopped") /\ UNCHANGED mapVars
  BY <1>1, AnswerTold, ReceiptsStand DEF mapVars
<1>2. CASE /\ ReplayReceipt(r, x) \/ ReplayUnsafe(r, x)
           /\ UNCHANGED unsafe
  BY <1>2, ReplayHonest
<1>3. CASE /\ pc' = [pc EXCEPT ![r] = "capture"] /\ arg' = [arg EXCEPT ![r] = x]
           /\ UNCHANGED <<claim, answer, sessVars, mapVars, approvals, task>>
  <2>1. \A q \in Requests : pc'[q] = "done" => q # r /\ pc[q] = "done" /\ arg'[q] = arg[q]
    BY <1>3 DEF Inv, TypeOK
  <2> QED
    BY <1>3, <2>1, AnswersStand, ReceiptsStand DEF mapVars
<1> QED
  BY <1>1, <1>2, <1>3 DEF EnterBurst

(* A request that waited for its grounding.                                *)
LEMMA GroundHonest ==
    ASSUME Inv, Truthful, Told, [Next]_vars, NEW r \in Requests, Ground(r)
    PROVE  Truthful' /\ Told'
<1>1. Known(arg[r])
  BY OwnArguments DEF Ground, Named
<1>2. CASE Answer(r, arg[r], "blocked") /\ UNCHANGED mapVars
  BY <1>2, AnswerTold, ReceiptsStand DEF mapVars
<1>3. CASE Answer(r, arg[r], "idempotency_conflict") /\ UNCHANGED mapVars
  BY <1>3, AnswerTold, ReceiptsStand DEF mapVars
<1>4. CASE /\ ReplayReceipt(r, arg[r]) \/ ReplayUnsafe(r, arg[r])
           /\ UNCHANGED unsafe
  BY <1>1, <1>4, ReplayHonest
<1>5. CASE (\E next \in {"hold", "wait"} : pc' = [pc EXCEPT ![r] = next])
           /\ UNCHANGED <<arg, answer, idem, unsafe>>
  <2>1. \A q \in Requests : pc'[q] = "done" => pc[q] = "done"
    BY <1>5 DEF Inv, TypeOK
  <2> QED
    BY <1>5, <2>1, AnswersStand, ReceiptsStand
<1> QED
  BY <1>2, <1>3, <1>4, <1>5 DEF Ground, ClaimExecution, mapVars

(* The receipts a finished claim leaves under all its aliases.             *)
LEMMA FinishHonest ==
    ASSUME Inv, Truthful, Told, [Next]_vars, NEW r \in Requests, Finish(r)
    PROVE  Truthful' /\ Told'
<1> DEFINE t == claim[r]
<1>1. /\ t \in Requests /\ arg[t].digest = arg[r].digest /\ arg[r].digest \in Digests
      /\ answer[r] = "completed" => task[t].stage = "done" /\ task[t].outcome = "completed"
  BY OwnArguments DEF Finish, Inv, Claims, Awaiting, Waiting, Named, Known
<1>2. answer[r] = "completed" => arg[t].digest \in Completed
  BY <1>1 DEF Completed
<1>3. answer[r] = "completed" => arg[t].digest \in Completed'
  BY <1>2, CompletedStays
<1>4. \A k \in Keys : idem[k].result = "completed" => idem[k].digest \in Completed'
  BY CompletedStays DEF Truthful
<1>5. FinishClaim(t, answer[r])
  BY DEF Finish
<1>6. \A k \in Keys : idem'[k] = IF k \in aliases[t]
                                 THEN [digest |-> arg[t].digest, st |-> "completed", result |-> answer[r]]
                                 ELSE idem[k]
  BY <1>5 DEF FinishClaim
<1>7. \A d \in Digests : unsafe'[d] # "completed"
  BY <1>1, <1>5 DEF FinishClaim, RetainUnsafe, Truthful, Inv, TypeOK
<1>8. Truthful'
  <2>1. \A k \in Keys : idem'[k].result = "completed" => idem'[k].digest \in Completed'
    <3> SUFFICES ASSUME NEW k \in Keys, idem'[k].result = "completed"
                 PROVE  idem'[k].digest \in Completed'
      OBVIOUS
    <3>1. CASE k \in aliases[t]
      <4>1. idem'[k].digest = arg[t].digest /\ answer[r] = "completed"
        BY <1>6, <3>1
      <4> QED
        BY <1>3, <4>1 DEF Completed
    <3>2. CASE k \notin aliases[t]
      BY <1>4, <1>6, <3>2
    <3> QED
      BY <3>1, <3>2
  <2> QED
    BY <1>7, <2>1 DEF Truthful
<1>9. Told'
  BY <1>1, <1>2, AnswerTold DEF Finish
<1> QED
  BY <1>8, <1>9

(* A task that raised leaves its aliases a failure.                        *)
LEMMA BadBurstHonest ==
    ASSUME Inv, Truthful, Told, [Next]_vars, NEW r \in Requests, BadBurst(r)
    PROVE  Truthful' /\ Told'
<1>1. \A k \in Keys : idem[k].result = "completed" => idem[k].digest \in Completed'
  BY CompletedStays DEF Truthful
<1>2. \A k \in Keys : idem'[k] = IF k \in aliases[claim[r]]
                                 THEN [digest |-> arg[claim[r]].digest, st |-> "completed",
                                       result |-> "failed"]
                                 ELSE idem[k]
  BY DEF BadBurst, FinishClaim
<1>3. unsafe' = unsafe
  BY DEF BadBurst, FinishClaim, RetainUnsafe, Inv, TypeOK
<1>4. \A k \in Keys : idem'[k].result = "completed" => idem'[k] = idem[k]
  BY <1>2
<1>5. Truthful'
  BY <1>1, <1>3, <1>4 DEF Truthful
<1> QED
  BY <1>5, AnswerTold DEF BadBurst

(* A rejection takes a success away, and gives none.                       *)
LEMMA RejectHonest ==
    ASSUME Inv, Truthful, Told, [Next]_vars, NEW r \in Requests,
           RejectResolve(r) \/ RejectApply(r)
    PROVE  Truthful' /\ Told'
<1>1. \A q \in Requests : pc'[q] = "done" /\ answer'[q] = "completed" =>
         pc[q] = "done" /\ answer[q] = "completed" /\ arg'[q] = arg[q]
  BY DEF RejectResolve, RejectApply, Inv, TypeOK
<1>2. \A k \in Keys : idem[k].result = "completed" => idem[k].digest \in Completed'
  BY CompletedStays DEF Truthful
<1>3. unsafe' = unsafe /\ \A k \in Keys : idem'[k].result = "completed" => idem'[k] = idem[k]
  <2>1. CASE RejectResolve(r)
    BY <2>1 DEF RejectResolve, mapVars
  <2>2. CASE RejectApply(r)
    <3> DEFINE old == idem[arg[r].key]
               rc == [old EXCEPT !.st = "rejected", !.result = "blocked"]
    <3>1. old \in Receipts
      BY <2>2, OwnArguments DEF RejectApply, Named, Known, Inv, TypeOK
    <3>2. rc.result = "blocked"
      BY <3>1 DEF Receipts
    <3>3. idem' = idem \/ idem' = [idem EXCEPT ![arg[r].key] = rc]
      BY <2>2 DEF RejectApply
    <3> HIDE DEF rc
    <3>4. \A k \in Keys : idem'[k] = idem[k] \/ idem'[k] = rc
      BY <3>3 DEF Inv, TypeOK
    <3> QED
      BY <2>2, <3>2, <3>4 DEF RejectApply
  <2> QED
    BY <2>1, <2>2
<1>4. Truthful'
  BY <1>2, <1>3 DEF Truthful
<1> QED
  BY <1>1, <1>4, AnswersStand

(* The other handlers of a request answer nothing, or a refusal.           *)
LEMMA QuietHonest ==
    ASSUME Inv, Truthful, Told, [Next]_vars, NEW r \in Requests,
           \/ RefuseMalformed(r) \/ RefuseUnanchored(r) \/ Capture(r) \/ HoldStatus(r)
           \/ Settle(r) \/ PostSettle(r) \/ Cancel(r) \/ TaskStep(r)
           \/ \E a \in Requests : Decide(r, a)
    PROVE  Truthful' /\ Told'
<1>1. UNCHANGED <<idem, unsafe>>
  BY DEF RefuseMalformed, RefuseUnanchored, Capture, HoldStatus, Settle, PostSettle, Cancel,
         TaskStep, TaskGate, TaskAct, TaskInterrupted, TaskFails, TaskRaises, OnlyTask, Decide, mapVars
<1>2. CASE \E x, word : Answer(r, x, word) /\ word # "completed"
  BY <1>1, <1>2, AnswerTold, ReceiptsStand
<1>3. CASE (\E next \in {"ground", "record", "finish", "gone", "deciding", "reject"} :
                pc' = [pc EXCEPT ![r] = next])
           /\ \A q \in Requests \ {r} : arg'[q] = arg[q] /\ answer'[q] = answer[q]
  <2>1. \A q \in Requests : pc'[q] = "done" => q # r /\ pc[q] = "done"
    BY <1>3 DEF Inv, TypeOK
  <2> QED
    BY <1>1, <1>3, <2>1, AnswersStand, ReceiptsStand
<1>4. CASE UNCHANGED <<pc, arg, answer>>
  BY <1>1, <1>4, AnswersStand, ReceiptsStand
<1>5. CASE RefuseMalformed(r) \/ RefuseUnanchored(r) \/ Capture(r)
  BY <1>2, <1>3, <1>5 DEF RefuseMalformed, RefuseUnanchored, Capture
<1>6. CASE HoldStatus(r) \/ Settle(r) \/ Cancel(r)
  <2>1. arg' = arg /\ \A q \in Requests \ {r} : answer'[q] = answer[q]
    BY <1>6 DEF HoldStatus, Settle, Cancel, Inv, TypeOK
  <2> QED
    BY <1>3, <1>6, <2>1 DEF HoldStatus, Settle, Cancel
<1>7. CASE \E a \in Requests : Decide(r, a)
  <2>1. answer' = answer /\ \A q \in Requests \ {r} : arg'[q] = arg[q]
    BY <1>7 DEF Decide, Inv, TypeOK
  <2> QED
    BY <1>3, <1>7, <2>1 DEF Decide
<1>8. CASE PostSettle(r) \/ TaskStep(r)
  BY <1>4, <1>8 DEF PostSettle, TaskStep, TaskGate, TaskAct, TaskInterrupted, TaskFails, TaskRaises,
                    OnlyTask, reqVars
<1> QED
  BY <1>5, <1>6, <1>7, <1>8

(* The receipt of a hold is no success.                                    *)
LEMMA HoldHonest ==
    ASSUME Inv, Truthful, Told, [Next]_vars, NEW r \in Requests, HoldRecord(r)
    PROVE  Truthful' /\ Told'
<1>1. \A k \in Keys : idem[k].result = "completed" => idem[k].digest \in Completed'
  BY CompletedStays DEF Truthful
<1>2. unsafe' = unsafe /\ \A k \in Keys : idem'[k].result = "completed" => idem'[k] = idem[k]
  BY DEF HoldRecord, Inv, TypeOK
<1>3. Truthful'
  BY <1>1, <1>2 DEF Truthful
<1> QED
  BY <1>3, AnswerTold DEF HoldRecord

(* Every step keeps receipts and answers honest.                           *)
LEMMA NextKeepsHonest == Inv /\ Truthful /\ Told /\ [Next]_vars => Truthful' /\ Told'
<1> SUFFICES ASSUME Inv, Truthful, Told, [Next]_vars PROVE Truthful' /\ Told'
  OBVIOUS
<1>1. ASSUME NEW r \in Requests, Submit(r) PROVE Truthful' /\ Told'
  BY <1>1, EnterHonest DEF Submit, Known
<1>2. ASSUME NEW r \in Requests, Approve(r) PROVE Truthful' /\ Told'
  BY <1>2, EnterHonest, OwnArguments DEF Approve, Named
<1>3. ASSUME NEW r \in Requests, Progress(r) PROVE Truthful' /\ Told'
  BY <1>2, <1>3, QuietHonest, GroundHonest, HoldHonest, FinishHonest, BadBurstHonest,
     RejectHonest DEF Progress
<1>4. CASE AbortSession \/ HumanInput \/ Machine \/ UNCHANGED vars
  <2>1. UNCHANGED <<idem, unsafe, pc, arg, answer>>
    BY <1>4 DEF AbortSession, HumanInput, Machine, vars, mapVars, reqVars
  <2> QED
    BY <2>1, AnswersStand, ReceiptsStand
<1> QED
  BY <1>1, <1>3, <1>4, QuietHonest DEF Next

(* AnswerHonest: no receipt, alias or joined claim of run_burst reports a  *)
(* success that its own actions did not have.                              *)
THEOREM AnswersAreHonest == Spec => []AnswerHonest
<1>1. Init => Truthful /\ Told
  BY DEF Init, Truthful, Told, NoReceipt
<1>2. Told => AnswerHonest
  BY DEF Told, AnswerHonest, Completed, Executed
<1> QED
  BY <1>1, <1>2, Invariance, NextKeepsHonest, PTL DEF Spec
=============================================================================
