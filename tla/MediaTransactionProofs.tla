----------------------- MODULE MediaTransactionProofs -----------------------
(***************************************************************************)
(* What a media transaction guarantees for any number of runs, whatever    *)
(* names their images share.                                               *)
(***************************************************************************)
EXTENDS MediaTransaction, TLAPS

Undoing == {"disconnect", "clear", "remove"}

(* What an operation may still send after the step it is at.               *)
Remaining(step) ==
    CASE step = "upload" -> {"select", "connect"} \cup Undoing
      [] step = "select" -> {"connect"} \cup Undoing
      [] step = "connect" -> Undoing
      [] OTHER -> After(step)

(* The locals an operation can have.                                       *)
Shape(t) ==
    \/ t = Idle
    \/ t.mode = "stage" /\ t.pc = "save" /\ t.state \in {"prepared", "awaiting_approval"} /\ t.step = "none"
    \/ t.mode = "decide" /\ t.pc \in {"settle", "discard"} /\ t.state = "rejected" /\ t.step = "none"
    \/ t.mode = "attach" /\ t.pc = "preflight" /\ t.state = "awaiting_approval" /\ t.step = "none"
    \/ t.mode = "attach" /\ t.pc \in {"start", "send", "inspect"}
       /\ \/ t.state = "uploading" /\ t.step \in {"upload", "select"}
          \/ t.state = "selected" /\ t.step = "connect"
    \/ t.mode = "attach" /\ t.pc = "save"
       /\ \/ t.state = "uploading" /\ t.step = "upload"
          \/ t.state = "selected" /\ t.step = "select"
          \/ t.state = "attached" /\ t.step = "connect"
    \/ t.mode = "release" /\ t.pc = "preflight" /\ t.state = "attached" /\ t.step = "none"
    \/ t.mode = "release" /\ t.pc \in {"start", "send", "inspect"}
       /\ t.state = "detaching" /\ t.step \in Undoing
    \/ t.mode = "release" /\ t.pc = "save" /\ t.state = "detaching" /\ t.step \in {"disconnect", "clear"}
    \/ t.mode \in {"release", "rollback"} /\ t.pc \in {"settle", "discard"} /\ t.state = "released"
       /\ t.step \in Undoing \cup {"none"}
    \/ t.mode = "rollback" /\ t.pc = "save" /\ t.state = "rolling_back" /\ t.step = "none"
    \/ t.mode = "rollback" /\ t.pc = "inspect" /\ t.state = "rolling_back" /\ t.step \in Undoing \cup {"none"}
    \/ t.mode = "rollback" /\ t.pc \in {"start", "send"} /\ t.state = "rolling_back" /\ t.step \in Undoing
    \/ t.mode \in {"attach", "release", "rollback"} /\ t.pc = "latch" /\ t.state = "cleanup_required"
       /\ t.step \in Mutations \cup {"none"}

(* Nothing of the run has reached the drive, or may still reach it.        *)
Untouched(r) ==
    /\ \A m \in Mutations : sent[r][m] = 0
    /\ ~lost[r] /\ late[r] = "none" /\ r \notin drive.images

Before == {"none", "prepared", "awaiting_approval", "rejected"}

(* What the record says of the drive, and of what was sent to it.          *)
Recorded(r) ==
    /\ record[r] \in Before => Untouched(r)
    /\ record[r] = "attached" => ~lost[r] /\ \A m \in Undoing : sent[r][m] = 0
    /\ record[r] = "released" => r \notin drive.images /\ late[r] = "none"
    /\ late[r] # "none" => lost[r]
    /\ \A m \in Mutations : sent[r][m] <= 1

(* How the record follows the operation.                                   *)
Linked(r) ==
    /\ task[r].mode \in {"stage", "decide"} \/ (task[r].pc = "preflight" /\ task[r].mode = "attach") => record[r] \in Before
    /\ task[r].pc = "preflight" /\ task[r].mode = "release" => record[r] = "attached"
    /\ task[r].pc \in {"send", "discard"} => record[r] = task[r].state

(* What the operation has not sent yet, and knows of its image.            *)
Pending(r) ==
    task[r].mode \in {"attach", "release", "rollback"} /\ task[r].pc # "latch" =>
       /\ ~lost[r]
       /\ \A m \in Remaining(task[r].step) : sent[r][m] = 0
       /\ task[r].pc = "start" => sent[r][task[r].step] = 0
       /\ task[r].pc = "settle" => r \notin drive.images

Kept(r) ==
    /\ task[r].mode # "none" => artifact[r]
    /\ record[r] \notin {"none", "rejected", "released"} => artifact[r]

RunInv(r) == Shape(task[r]) /\ Recorded(r) /\ Linked(r) /\ Pending(r) /\ Kept(r)

Inv == TypeOK /\ \A r \in Runs : RunInv(r)

(* Only r's part of the state moves, and only r's image may be added.      *)
Steady(r) ==
    /\ \A q \in Runs \ {r} :
          /\ record'[q] = record[q] /\ artifact'[q] = artifact[q] /\ task'[q] = task[q]
          /\ late'[q] = late[q] /\ sent'[q] = sent[q] /\ lost'[q] = lost[q]
    /\ drive'.images \subseteq drive.images \cup {r}

LEMMA Others ==
    ASSUME NEW r \in Runs, Steady(r), NEW q \in Runs \ {r}, RunInv(q)
    PROVE  RunInv(q)'
<1>1. /\ record'[q] = record[q] /\ artifact'[q] = artifact[q] /\ task'[q] = task[q]
      /\ late'[q] = late[q] /\ sent'[q] = sent[q] /\ lost'[q] = lost[q]
      /\ q \notin drive.images => q \notin drive'.images
  BY DEF Steady
<1>2. Shape(task'[q])
  BY <1>1 DEF RunInv
<1>3. Recorded(q)'
  BY <1>1 DEF RunInv, Recorded, Untouched
<1>4. Linked(q)' /\ Kept(q)'
  BY <1>1 DEF RunInv, Linked, Kept
<1>5. Pending(q)'
  BY <1>1 DEF RunInv, Pending, Remaining, After
<1> QED BY <1>2, <1>3, <1>4, <1>5 DEF RunInv

(* An operation's new locals, and nobody else's.                           *)
Turns(r, t) ==
    /\ task'[r] = t
    /\ task' = [task EXCEPT ![r] = task'[r]]
    /\ \A q \in Runs \ {r} : task'[q] = task[q]

LEMMA GoesTo ==
    ASSUME TypeOK, NEW r \in Runs, NEW pc, Goes(r, pc)
    PROVE  Turns(r, [mode |-> task[r].mode, pc |-> pc, state |-> task[r].state, step |-> task[r].step])
BY SMTT(30) DEF Goes, TypeOK, Turns

LEMMA SetsTo ==
    ASSUME TypeOK, NEW r \in Runs, NEW mode, NEW pc, NEW state, NEW step, Sets(r, mode, pc, state, step)
    PROVE  Turns(r, [mode |-> mode, pc |-> pc, state |-> state, step |-> step])
BY DEF Sets, TypeOK, Turns

LEMMA EndsIdle ==
    ASSUME TypeOK, NEW r \in Runs, Ends(r)
    PROVE  Turns(r, Idle)
BY DEF Ends, TypeOK, Turns

TaskTypeOK ==
    /\ task \in [Runs -> [mode : {"none", "stage", "decide", "attach", "release", "rollback"},
                          pc : {"idle", "save", "preflight", "start", "send", "inspect",
                                "latch", "settle", "discard"},
                          state : States, step : Mutations \cup {"none"}]]
    /\ \A r \in Runs : task[r].pc \in {"start", "send"} => task[r].step # "none"

LEMMA TaskTyped ==
    ASSUME TypeOK, NEW r \in Runs, NEW mode, NEW pc, NEW state, NEW step,
           Turns(r, [mode |-> mode, pc |-> pc, state |-> state, step |-> step]),
           Shape(task'[r])
    PROVE  TaskTypeOK'
<1>1. /\ mode \in {"none", "stage", "decide", "attach", "release", "rollback"}
      /\ pc \in {"idle", "save", "preflight", "start", "send", "inspect", "latch", "settle", "discard"}
      /\ state \in States /\ step \in Mutations \cup {"none"}
      /\ pc \in {"start", "send"} => step # "none"
  BY DEF Turns, Shape, Idle, Undoing, Mutations, States
<1> DEFINE T == [mode : {"none", "stage", "decide", "attach", "release", "rollback"},
                 pc : {"idle", "save", "preflight", "start", "send", "inspect",
                       "latch", "settle", "discard"},
                 state : States, step : Mutations \cup {"none"}]
<1>2. task'[r] \in T
  BY <1>1 DEF Turns
<1>3. task' \in [Runs -> T]
  <2>1. task \in [Runs -> T]
    BY DEF TypeOK
  <2> HIDE DEF T
  <2> QED BY <1>2, <2>1 DEF Turns
<1>4. \A q \in Runs : task'[q].pc \in {"start", "send"} => task'[q].step # "none"
  <2>1. task'[r].pc \in {"start", "send"} => task'[r].step # "none"
    BY <1>1 DEF Turns
  <2> QED BY <2>1 DEF Turns, TypeOK
<1> QED BY <1>3, <1>4 DEF TaskTypeOK

-----------------------------------------------------------------------------
(* A mutation leaves a drive, and only an upload brings an image.          *)
LEMMA EffectOnDrive ==
    ASSUME TypeOK, NEW r \in Runs, NEW m \in Mutations, Accepts(r, m)
    PROVE  /\ Effect(r, m) \in [images : SUBSET Runs, selected : Runs \cup {Nobody}, connected : BOOLEAN]
           /\ Effect(r, m).images \subseteq drive.images \cup {r}
           /\ m # "upload" => Effect(r, m).images \subseteq drive.images
<1> DEFINE D == [images : SUBSET Runs, selected : Runs \cup {Nobody}, connected : BOOLEAN]
<1>1. drive \in D
  BY DEF TypeOK
<1>2. CASE m = "upload"
  <2>1. Effect(r, m) = [drive EXCEPT !.images = @ \cup {r}]
    BY <1>2 DEF Effect
  <2> QED BY <1>1, <1>2, <2>1
<1>3. CASE m = "select"
  <2> DEFINE q == CHOOSE q \in drive.images : SameName(q, r)
  <2>1. Effect(r, m) = [drive EXCEPT !.selected = q]
    BY <1>3 DEF Effect
  <2>2. \E p \in drive.images : SameName(p, r)
    BY <1>3 DEF Accepts, Present
  <2>3. q \in drive.images
    BY <2>2
  <2> HIDE DEF q
  <2> QED BY <1>1, <2>1, <2>3
<1>4. CASE m \in {"connect", "disconnect", "clear"}
  <2>1. \/ Effect(r, m) = [drive EXCEPT !.connected = TRUE]
        \/ Effect(r, m) = [drive EXCEPT !.connected = FALSE]
        \/ Effect(r, m) = [drive EXCEPT !.selected = Nobody]
    BY <1>4 DEF Effect
  <2> QED BY <1>1, <2>1
<1>5. CASE m = "remove"
  <2> DEFINE left == {q \in drive.images : ~SameName(q, r)}
             other == IF Selected(r) THEN Nobody ELSE drive.selected
  <2>1. Effect(r, m) = [drive EXCEPT !.images = left, !.selected = other]
    BY <1>5 DEF Effect
  <2>2. left \subseteq drive.images /\ other \in Runs \cup {Nobody}
    BY <1>1
  <2> HIDE DEF left, other
  <2> QED BY <1>1, <2>1, <2>2
<1> QED BY <1>2, <1>3, <1>4, <1>5 DEF Mutations

(* Staging and decisions touch nothing but the record and the copy.        *)
LEMMA StageArtifactStep ==
    ASSUME Inv, NEW r \in Runs, StageArtifact(r)
    PROVE  TypeOK' /\ RunInv(r)' /\ Steady(r)
<1>1. TypeOK /\ RunInv(r)
  BY DEF Inv
<1>2. Turns(r, [mode |-> "stage", pc |-> "save", state |-> "prepared", step |-> "none"])
  BY <1>1, SetsTo DEF StageArtifact
<1>3. Shape(task'[r])
  BY <1>1, <1>2 DEF Turns, StageArtifact, At, In, Shape, RunInv, Idle, Undoing, Mutations, States
<1>4. TypeOK'
  <2>1. TaskTypeOK'
    BY <1>1, <1>2, <1>3, TaskTyped DEF Idle
  <2> QED BY <1>1, <2>1 DEF TypeOK, TaskTypeOK, StageArtifact, At, Saves, historyVars
<1>5. Steady(r)
  BY <1>1, <1>2 DEF TypeOK, Turns, StageArtifact, Saves, Steady, historyVars
<1>6. Recorded(r)'
  BY <1>1, <1>2 DEF TypeOK, Turns, StageArtifact, At, In, Saves, RunInv, Shape, Recorded, Untouched, Linked, Pending,
     Before, Remaining, After, Idle, Undoing, historyVars
<1>7. Linked(r)' /\ Kept(r)'
  BY <1>1, <1>2 DEF TypeOK, Turns, StageArtifact, At, In, Saves, RunInv, Shape, Linked, Kept, Before, Idle, historyVars
<1>8. Pending(r)'
  BY <1>1, <1>2 DEF TypeOK, Turns, StageArtifact, At, In, RunInv, Shape, Recorded, Untouched, Linked, Pending,
     Before, Remaining, After, Idle, Undoing, Mutations, historyVars
<1> QED BY <1>3, <1>4, <1>5, <1>6, <1>7, <1>8 DEF RunInv

LEMMA StagedStep ==
    ASSUME Inv, NEW r \in Runs, Staged(r)
    PROVE  TypeOK' /\ RunInv(r)' /\ Steady(r)
<1>1. TypeOK /\ RunInv(r)
  BY DEF Inv
<1>2. \/ task[r].state = "prepared" /\ Turns(r, [mode |-> "stage", pc |-> "save", state |-> "awaiting_approval", step |-> "none"])
      \/ task[r].state # "prepared" /\ Turns(r, Idle)
  BY <1>1, SetsTo, EndsIdle DEF Staged
<1>3. Shape(task'[r])
  BY <1>1, <1>2 DEF Turns, Staged, At, In, Shape, RunInv, Idle, Undoing, Mutations, States
<1>4. TypeOK'
  <2>1. TaskTypeOK'
    BY <1>1, <1>2, <1>3, TaskTyped DEF Idle
  <2> QED BY <1>1, <2>1 DEF TypeOK, TaskTypeOK, Staged, At, Saves, historyVars
<1>5. Steady(r)
  BY <1>1, <1>2 DEF TypeOK, Turns, Staged, Saves, Steady, historyVars
<1>6. Recorded(r)'
  BY <1>1, <1>2 DEF TypeOK, Turns, Staged, At, In, Saves, RunInv, Shape, Recorded, Untouched, Linked, Pending,
     Before, Remaining, After, Idle, Undoing, historyVars
<1>7. Linked(r)' /\ Kept(r)'
  BY <1>1, <1>2 DEF TypeOK, Turns, Staged, At, In, Saves, RunInv, Shape, Linked, Kept, Before, Idle, historyVars
<1>8. Pending(r)'
  BY <1>1, <1>2 DEF TypeOK, Turns, Staged, At, In, RunInv, Shape, Recorded, Untouched, Linked, Pending,
     Before, Remaining, After, Idle, Undoing, Mutations, historyVars
<1> QED BY <1>3, <1>4, <1>5, <1>6, <1>7, <1>8 DEF RunInv

LEMMA RejectStep ==
    ASSUME Inv, NEW r \in Runs, Reject(r)
    PROVE  TypeOK' /\ RunInv(r)' /\ Steady(r)
<1>1. TypeOK /\ RunInv(r)
  BY DEF Inv
<1>2. Turns(r, [mode |-> "decide", pc |-> "settle", state |-> "rejected", step |-> "none"])
  BY <1>1, SetsTo DEF Reject
<1>3. Shape(task'[r])
  BY <1>1, <1>2 DEF Turns, Reject, At, In, Shape, RunInv, Idle, Undoing, Mutations, States
<1>4. TypeOK'
  <2>1. TaskTypeOK'
    BY <1>1, <1>2, <1>3, TaskTyped DEF Idle
  <2> QED BY <1>1, <2>1 DEF TypeOK, TaskTypeOK, Reject, At, Saves, historyVars
<1>5. Steady(r)
  BY <1>1, <1>2 DEF TypeOK, Turns, Reject, Saves, Steady, historyVars
<1>6. Recorded(r)'
  BY <1>1, <1>2 DEF TypeOK, Turns, Reject, At, In, Saves, RunInv, Shape, Recorded, Untouched, Linked, Pending,
     Before, Remaining, After, Idle, Undoing, historyVars
<1>7. Linked(r)' /\ Kept(r)'
  BY <1>1, <1>2 DEF TypeOK, Turns, Reject, At, In, Saves, RunInv, Shape, Linked, Kept, Before, Idle, historyVars
<1>8. Pending(r)'
  BY <1>1, <1>2 DEF TypeOK, Turns, Reject, At, In, RunInv, Shape, Recorded, Untouched, Linked, Pending,
     Before, Remaining, After, Idle, Undoing, Mutations, historyVars
<1> QED BY <1>3, <1>4, <1>5, <1>6, <1>7, <1>8 DEF RunInv

LEMMA ApproveStep ==
    ASSUME Inv, NEW r \in Runs, Approve(r)
    PROVE  TypeOK' /\ RunInv(r)' /\ Steady(r)
<1>1. TypeOK /\ RunInv(r)
  BY DEF Inv
<1>2. Turns(r, [mode |-> "attach", pc |-> "preflight", state |-> "awaiting_approval", step |-> "none"])
  BY <1>1, SetsTo DEF Approve
<1>3. Shape(task'[r])
  BY <1>1, <1>2 DEF Turns, Approve, At, In, Shape, RunInv, Idle, Undoing, Mutations, States
<1>4. TypeOK'
  <2>1. TaskTypeOK'
    BY <1>1, <1>2, <1>3, TaskTyped DEF Idle
  <2> QED BY <1>1, <2>1 DEF TypeOK, TaskTypeOK, Approve, At, Saves, historyVars
<1>5. Steady(r)
  BY <1>1, <1>2 DEF TypeOK, Turns, Approve, Saves, Steady, historyVars
<1>6. Recorded(r)'
  BY <1>1, <1>2 DEF TypeOK, Turns, Approve, At, In, Saves, RunInv, Shape, Recorded, Untouched, Linked, Pending,
     Before, Remaining, After, Idle, Undoing, historyVars
<1>7. Linked(r)' /\ Kept(r)'
  BY <1>1, <1>2 DEF TypeOK, Turns, Approve, At, In, Saves, RunInv, Shape, Linked, Kept, Before, Idle, historyVars
<1>8. Pending(r)'
  BY <1>1, <1>2 DEF TypeOK, Turns, Approve, At, In, RunInv, Shape, Recorded, Untouched, Linked, Pending,
     Before, Remaining, After, Idle, Undoing, Mutations, historyVars
<1> QED BY <1>3, <1>4, <1>5, <1>6, <1>7, <1>8 DEF RunInv

LEMMA Refuse_before_mutationStep ==
    ASSUME Inv, NEW r \in Runs, _refuse_before_mutation(r)
    PROVE  TypeOK' /\ RunInv(r)' /\ Steady(r)
<1>1. TypeOK /\ RunInv(r)
  BY DEF Inv
<1>2. Turns(r, [mode |-> "decide", pc |-> "settle", state |-> "rejected", step |-> "none"])
  BY <1>1, SetsTo DEF _refuse_before_mutation
<1>3. Shape(task'[r])
  BY <1>1, <1>2 DEF Turns, _refuse_before_mutation, At, In, Shape, RunInv, Idle, Undoing, Mutations, States
<1>4. TypeOK'
  <2>1. TaskTypeOK'
    BY <1>1, <1>2, <1>3, TaskTyped DEF Idle
  <2> QED BY <1>1, <2>1 DEF TypeOK, TaskTypeOK, _refuse_before_mutation, At, Saves, historyVars
<1>5. Steady(r)
  BY <1>1, <1>2 DEF TypeOK, Turns, _refuse_before_mutation, Saves, Steady, historyVars
<1>6. Recorded(r)'
  BY <1>1, <1>2 DEF TypeOK, Turns, _refuse_before_mutation, At, In, Saves, RunInv, Shape, Recorded, Untouched, Linked, Pending,
     Before, Remaining, After, Idle, Undoing, historyVars
<1>7. Linked(r)' /\ Kept(r)'
  BY <1>1, <1>2 DEF TypeOK, Turns, _refuse_before_mutation, At, In, Saves, RunInv, Shape, Linked, Kept, Before, Idle, historyVars
<1>8. Pending(r)'
  BY <1>1, <1>2 DEF TypeOK, Turns, _refuse_before_mutation, At, In, RunInv, Shape, Recorded, Untouched, Linked, Pending,
     Before, Remaining, After, Idle, Undoing, Mutations, historyVars
<1> QED BY <1>3, <1>4, <1>5, <1>6, <1>7, <1>8 DEF RunInv

LEMMA AttachStep ==
    ASSUME Inv, NEW r \in Runs, _attach(r)
    PROVE  TypeOK' /\ RunInv(r)' /\ Steady(r)
<1>1. TypeOK /\ RunInv(r)
  BY DEF Inv
<1>2. Turns(r, [mode |-> "attach", pc |-> "start", state |-> "uploading", step |-> "upload"])
  BY <1>1, SetsTo DEF _attach
<1>3. Shape(task'[r])
  BY <1>1, <1>2 DEF Turns, _attach, At, In, Shape, RunInv, Idle, Undoing, Mutations, States
<1>4. TypeOK'
  <2>1. TaskTypeOK'
    BY <1>1, <1>2, <1>3, TaskTyped DEF Idle
  <2> QED BY <1>1, <2>1 DEF TypeOK, TaskTypeOK, _attach, At, Saves, historyVars
<1>5. Steady(r)
  BY <1>1, <1>2 DEF TypeOK, Turns, _attach, Saves, Steady, historyVars
<1>6. Recorded(r)'
  BY <1>1, <1>2 DEF TypeOK, Turns, _attach, At, In, Saves, RunInv, Shape, Recorded, Untouched, Linked, Pending,
     Before, Remaining, After, Idle, Undoing, historyVars
<1>7. Linked(r)' /\ Kept(r)'
  BY <1>1, <1>2 DEF TypeOK, Turns, _attach, At, In, Saves, RunInv, Shape, Linked, Kept, Before, Idle, historyVars
<1>8. Pending(r)'
  BY <1>1, <1>2 DEF TypeOK, Turns, _attach, At, In, RunInv, Shape, Recorded, Untouched, Linked, Pending,
     Before, Remaining, After, Idle, Undoing, Mutations, historyVars
<1> QED BY <1>3, <1>4, <1>5, <1>6, <1>7, <1>8 DEF RunInv

LEMMA ReleaseStep ==
    ASSUME Inv, NEW r \in Runs, Release(r)
    PROVE  TypeOK' /\ RunInv(r)' /\ Steady(r)
<1>1. TypeOK /\ RunInv(r)
  BY DEF Inv
<1>2. Turns(r, [mode |-> "release", pc |-> "preflight", state |-> "attached", step |-> "none"])
  BY <1>1, SetsTo DEF Release
<1>3. Shape(task'[r])
  BY <1>1, <1>2 DEF Turns, Release, At, In, Shape, RunInv, Idle, Undoing, Mutations, States
<1>4. TypeOK'
  <2>1. TaskTypeOK'
    BY <1>1, <1>2, <1>3, TaskTyped DEF Idle
  <2> QED BY <1>1, <2>1 DEF TypeOK, TaskTypeOK, Release, At, Saves, historyVars
<1>5. Steady(r)
  BY <1>1, <1>2 DEF TypeOK, Turns, Release, Saves, Steady, historyVars
<1>6. Recorded(r)'
  BY <1>1, <1>2 DEF TypeOK, Turns, Release, At, In, Saves, RunInv, Shape, Recorded, Untouched, Linked, Pending,
     Before, Remaining, After, Idle, Undoing, historyVars
<1>7. Linked(r)' /\ Kept(r)'
  BY <1>1, <1>2 DEF TypeOK, Turns, Release, At, In, Saves, RunInv, Shape, Linked, Kept, Before, Idle, historyVars
<1>8. Pending(r)'
  BY <1>1, <1>2 DEF TypeOK, Turns, Release, At, In, RunInv, Shape, Recorded, Untouched, Linked, Pending,
     Before, Remaining, After, Idle, Undoing, Mutations, historyVars
<1> QED BY <1>3, <1>4, <1>5, <1>6, <1>7, <1>8 DEF RunInv

LEMMA ReleaseStartsStep ==
    ASSUME Inv, NEW r \in Runs, ReleaseStarts(r)
    PROVE  TypeOK' /\ RunInv(r)' /\ Steady(r)
<1>1. TypeOK /\ RunInv(r)
  BY DEF Inv
<1>2. Turns(r, [mode |-> "release", pc |-> "start", state |-> "detaching", step |-> "disconnect"])
  BY <1>1, SetsTo DEF ReleaseStarts
<1>3. Shape(task'[r])
  BY <1>1, <1>2 DEF Turns, ReleaseStarts, At, In, Shape, RunInv, Idle, Undoing, Mutations, States
<1>4. TypeOK'
  <2>1. TaskTypeOK'
    BY <1>1, <1>2, <1>3, TaskTyped DEF Idle
  <2> QED BY <1>1, <2>1 DEF TypeOK, TaskTypeOK, ReleaseStarts, At, Saves, historyVars
<1>5. Steady(r)
  BY <1>1, <1>2 DEF TypeOK, Turns, ReleaseStarts, Saves, Steady, historyVars
<1>6. Recorded(r)'
  BY <1>1, <1>2 DEF TypeOK, Turns, ReleaseStarts, At, In, Saves, RunInv, Shape, Recorded, Untouched, Linked, Pending,
     Before, Remaining, After, Idle, Undoing, historyVars
<1>7. Linked(r)' /\ Kept(r)'
  BY <1>1, <1>2 DEF TypeOK, Turns, ReleaseStarts, At, In, Saves, RunInv, Shape, Linked, Kept, Before, Idle, historyVars
<1>8. Pending(r)'
  BY <1>1, <1>2 DEF TypeOK, Turns, ReleaseStarts, At, In, RunInv, Shape, Recorded, Untouched, Linked, Pending,
     Before, Remaining, After, Idle, Undoing, Mutations, historyVars
<1> QED BY <1>3, <1>4, <1>5, <1>6, <1>7, <1>8 DEF RunInv

LEMMA ReleaseRefusedStep ==
    ASSUME Inv, NEW r \in Runs, ReleaseRefused(r)
    PROVE  TypeOK' /\ RunInv(r)' /\ Steady(r)
<1>1. TypeOK /\ RunInv(r)
  BY DEF Inv
<1>2. Turns(r, [mode |-> task[r].mode, pc |-> "latch", state |-> "cleanup_required", step |-> task[r].step])
  BY <1>1, SetsTo DEF ReleaseRefused, Latches
<1>3. Shape(task'[r])
  BY <1>1, <1>2 DEF Turns, ReleaseRefused, At, In, Shape, RunInv, Idle, Undoing, Mutations, States
<1>4. TypeOK'
  <2>1. TaskTypeOK'
    BY <1>1, <1>2, <1>3, TaskTyped DEF Idle
  <2> QED BY <1>1, <2>1 DEF TypeOK, TaskTypeOK, ReleaseRefused, At, Saves, historyVars
<1>5. Steady(r)
  BY <1>1, <1>2 DEF TypeOK, Turns, ReleaseRefused, Saves, Steady, historyVars
<1>6. Recorded(r)'
  BY <1>1, <1>2 DEF TypeOK, Turns, ReleaseRefused, At, In, Saves, RunInv, Shape, Recorded, Untouched, Linked, Pending,
     Before, Remaining, After, Idle, Undoing, historyVars
<1>7. Linked(r)' /\ Kept(r)'
  BY <1>1, <1>2 DEF TypeOK, Turns, ReleaseRefused, At, In, Saves, RunInv, Shape, Linked, Kept, Before, Idle, historyVars
<1>8. Pending(r)'
  BY <1>1, <1>2 DEF TypeOK, Turns, ReleaseRefused, At, In, RunInv, Shape, Recorded, Untouched, Linked, Pending,
     Before, Remaining, After, Idle, Undoing, Mutations, historyVars
<1> QED BY <1>3, <1>4, <1>5, <1>6, <1>7, <1>8 DEF RunInv

(* The one step that sends: the mutation was unsent, and its outcome is known so far. *)
LEMMA CheckpointStep ==
    ASSUME Inv, NEW r \in Runs, Checkpoint(r)
    PROVE  TypeOK' /\ RunInv(r)' /\ Steady(r)
<1>1. TypeOK /\ RunInv(r)
  BY DEF Inv
<1>2. Turns(r, [mode |-> task[r].mode, pc |-> "send", state |-> task[r].state, step |-> task[r].step])
  BY <1>1, GoesTo DEF Checkpoint
<1>3. Shape(task'[r])
  BY <1>1, <1>2 DEF Turns, Checkpoint, At, In, Shape, RunInv, Idle, Undoing, Mutations, States
<1>4. TypeOK'
  <2>1. TaskTypeOK'
    BY <1>1, <1>2, <1>3, TaskTyped DEF Idle
  <2> QED BY <1>1, <2>1 DEF TypeOK, TaskTypeOK, Checkpoint, At, Saves, historyVars
<1>5. Steady(r)
  BY <1>1, <1>2 DEF TypeOK, Turns, Checkpoint, Saves, Steady, historyVars
<1>6. Recorded(r)'
  BY <1>1, <1>2 DEF TypeOK, Turns, Checkpoint, At, In, Saves, RunInv, Shape, Recorded, Untouched, Linked, Pending,
     Before, Remaining, After, Idle, Undoing, historyVars
<1>7. Linked(r)' /\ Kept(r)'
  BY <1>1, <1>2 DEF TypeOK, Turns, Checkpoint, At, In, Saves, RunInv, Shape, Linked, Kept, Before, Idle, historyVars
<1>8. Pending(r)'
  BY <1>1, <1>2 DEF TypeOK, Turns, Checkpoint, At, In, RunInv, Shape, Recorded, Untouched, Linked, Pending,
     Before, Remaining, After, Idle, Undoing, Mutations, historyVars
<1> QED BY <1>3, <1>4, <1>5, <1>6, <1>7, <1>8 DEF RunInv

LEMMA ConfirmedStep ==
    ASSUME Inv, NEW r \in Runs, Confirmed(r)
    PROVE  TypeOK' /\ RunInv(r)' /\ Steady(r)
<1>1. TypeOK /\ RunInv(r)
  BY DEF Inv
<1>2. Turns(r, [mode |-> task[r].mode, pc |-> "inspect", state |-> task[r].state, step |-> task[r].step])
  BY <1>1, GoesTo DEF Confirmed
<1>b. /\ drive' \in [images : SUBSET Runs, selected : Runs \cup {Nobody}, connected : BOOLEAN]
      /\ drive'.images \subseteq drive.images \cup {r}
  <2>1. CASE swapped
    <3>1. drive' = drive
      BY <2>1 DEF Confirmed
    <3> QED BY <1>1, <3>1 DEF TypeOK
  <2>2. CASE ~swapped
    <3>1. task[r].step \in Mutations
      BY <1>1 DEF TypeOK, Confirmed, At
    <3>2. Accepts(r, task[r].step) /\ drive' = Effect(r, task[r].step)
      BY <2>2 DEF Confirmed
    <3> QED BY <1>1, <3>1, <3>2, EffectOnDrive
  <2> QED BY <2>1, <2>2
<1>3. Shape(task'[r])
  BY <1>1, <1>2 DEF Turns, Confirmed, At, In, Shape, RunInv, Idle, Undoing, Mutations, States
<1>4. TypeOK'
  <2>1. TaskTypeOK'
    BY <1>1, <1>2, <1>3, TaskTyped DEF Idle
  <2> QED BY <1>1, <1>b, <2>1 DEF TypeOK, TaskTypeOK, Confirmed, At, Saves, historyVars
<1>5. Steady(r)
  BY <1>1, <1>b, <1>2 DEF TypeOK, Turns, Confirmed, Saves, Steady, historyVars
<1>6. Recorded(r)'
  BY <1>1, <1>2 DEF TypeOK, Turns, Confirmed, At, In, Saves, RunInv, Shape, Recorded, Untouched, Linked, Pending,
     Before, Remaining, After, Idle, Undoing, historyVars
<1>7. Linked(r)' /\ Kept(r)'
  BY <1>1, <1>2 DEF TypeOK, Turns, Confirmed, At, In, Saves, RunInv, Shape, Linked, Kept, Before, Idle, historyVars
<1>8. Pending(r)'
  BY <1>1, <1>2 DEF TypeOK, Turns, Confirmed, At, In, RunInv, Shape, Recorded, Untouched, Linked, Pending,
     Before, Remaining, After, Idle, Undoing, Mutations, historyVars
<1> QED BY <1>3, <1>4, <1>5, <1>6, <1>7, <1>8 DEF RunInv

LEMMA RefusedStep ==
    ASSUME Inv, NEW r \in Runs, Refused(r)
    PROVE  TypeOK' /\ RunInv(r)' /\ Steady(r)
<1>1. TypeOK /\ RunInv(r)
  BY DEF Inv
<1>2. \/ task[r].mode = "attach" /\ Turns(r, [mode |-> "rollback", pc |-> "save", state |-> "rolling_back", step |-> "none"])
      \/ task[r].mode # "attach" /\ Turns(r, [mode |-> task[r].mode, pc |-> "latch", state |-> "cleanup_required", step |-> task[r].step])
  BY <1>1, SetsTo DEF Refused, Latches, In
<1>3. Shape(task'[r])
  BY <1>1, <1>2 DEF Turns, Refused, At, In, Shape, RunInv, Idle, Undoing, Mutations, States
<1>4. TypeOK'
  <2>1. TaskTypeOK'
    BY <1>1, <1>2, <1>3, TaskTyped DEF Idle
  <2> QED BY <1>1, <2>1 DEF TypeOK, TaskTypeOK, Refused, At, Saves, historyVars
<1>5. Steady(r)
  BY <1>1, <1>2 DEF TypeOK, Turns, Refused, Saves, Steady, historyVars
<1>6. Recorded(r)'
  BY <1>1, <1>2 DEF TypeOK, Turns, Refused, At, In, Saves, RunInv, Shape, Recorded, Untouched, Linked, Pending,
     Before, Remaining, After, Idle, Undoing, historyVars
<1>7. Linked(r)' /\ Kept(r)'
  BY <1>1, <1>2 DEF TypeOK, Turns, Refused, At, In, Saves, RunInv, Shape, Linked, Kept, Before, Idle, historyVars
<1>8. Pending(r)'
  BY <1>1, <1>2 DEF TypeOK, Turns, Refused, At, In, RunInv, Shape, Recorded, Untouched, Linked, Pending,
     Before, Remaining, After, Idle, Undoing, Mutations, historyVars
<1> QED BY <1>3, <1>4, <1>5, <1>6, <1>7, <1>8 DEF RunInv

LEMMA ResponseLostStep ==
    ASSUME Inv, NEW r \in Runs, ResponseLost(r)
    PROVE  TypeOK' /\ RunInv(r)' /\ Steady(r)
<1>1. TypeOK /\ RunInv(r)
  BY DEF Inv
<1>2. Turns(r, [mode |-> task[r].mode, pc |-> "latch", state |-> "cleanup_required", step |-> task[r].step])
  BY <1>1, SetsTo DEF ResponseLost, Latches
<1>3. Shape(task'[r])
  BY <1>1, <1>2 DEF Turns, ResponseLost, At, In, Shape, RunInv, Idle, Undoing, Mutations, States
<1>4. TypeOK'
  <2>1. TaskTypeOK'
    BY <1>1, <1>2, <1>3, TaskTyped DEF Idle
  <2> QED BY <1>1, <2>1 DEF TypeOK, TaskTypeOK, ResponseLost, At, Saves, historyVars
<1>5. Steady(r)
  BY <1>1, <1>2 DEF TypeOK, Turns, ResponseLost, Saves, Steady, historyVars
<1>6. Recorded(r)'
  BY <1>1, <1>2 DEF TypeOK, Turns, ResponseLost, At, In, Saves, RunInv, Shape, Recorded, Untouched, Linked, Pending,
     Before, Remaining, After, Idle, Undoing, historyVars
<1>7. Linked(r)' /\ Kept(r)'
  BY <1>1, <1>2 DEF TypeOK, Turns, ResponseLost, At, In, Saves, RunInv, Shape, Linked, Kept, Before, Idle, historyVars
<1>8. Pending(r)'
  BY <1>1, <1>2 DEF TypeOK, Turns, ResponseLost, At, In, RunInv, Shape, Recorded, Untouched, Linked, Pending,
     Before, Remaining, After, Idle, Undoing, Mutations, historyVars
<1> QED BY <1>3, <1>4, <1>5, <1>6, <1>7, <1>8 DEF RunInv

LEMMA Latch_cleanup_requiredStep ==
    ASSUME Inv, NEW r \in Runs, _latch_cleanup_required(r)
    PROVE  TypeOK' /\ RunInv(r)' /\ Steady(r)
<1>1. TypeOK /\ RunInv(r)
  BY DEF Inv
<1>2. Turns(r, Idle)
  BY <1>1, EndsIdle DEF _latch_cleanup_required
<1>3. Shape(task'[r])
  BY <1>1, <1>2 DEF Turns, _latch_cleanup_required, At, In, Shape, RunInv, Idle, Undoing, Mutations, States
<1>4. TypeOK'
  <2>1. TaskTypeOK'
    BY <1>1, <1>2, <1>3, TaskTyped DEF Idle
  <2> QED BY <1>1, <2>1 DEF TypeOK, TaskTypeOK, _latch_cleanup_required, At, Saves, historyVars
<1>5. Steady(r)
  BY <1>1, <1>2 DEF TypeOK, Turns, _latch_cleanup_required, Saves, Steady, historyVars
<1>6. Recorded(r)'
  BY <1>1, <1>2 DEF TypeOK, Turns, _latch_cleanup_required, At, In, Saves, RunInv, Shape, Recorded, Untouched, Linked, Pending,
     Before, Remaining, After, Idle, Undoing, historyVars
<1>7. Linked(r)' /\ Kept(r)'
  BY <1>1, <1>2 DEF TypeOK, Turns, _latch_cleanup_required, At, In, Saves, RunInv, Shape, Linked, Kept, Before, Idle, historyVars
<1>8. Pending(r)'
  BY <1>1, <1>2 DEF TypeOK, Turns, _latch_cleanup_required, At, In, RunInv, Shape, Recorded, Untouched, Linked, Pending,
     Before, Remaining, After, Idle, Undoing, Mutations, historyVars
<1> QED BY <1>3, <1>4, <1>5, <1>6, <1>7, <1>8 DEF RunInv

LEMMA UnprovenStep ==
    ASSUME Inv, NEW r \in Runs, Unproven(r)
    PROVE  TypeOK' /\ RunInv(r)' /\ Steady(r)
<1>1. TypeOK /\ RunInv(r)
  BY DEF Inv
<1>2. Turns(r, [mode |-> task[r].mode, pc |-> "latch", state |-> "cleanup_required", step |-> task[r].step])
  BY <1>1, SetsTo DEF Unproven, Latches
<1>3. Shape(task'[r])
  BY <1>1, <1>2 DEF Turns, Unproven, At, In, Shape, RunInv, Idle, Undoing, Mutations, States
<1>4. TypeOK'
  <2>1. TaskTypeOK'
    BY <1>1, <1>2, <1>3, TaskTyped DEF Idle
  <2> QED BY <1>1, <2>1 DEF TypeOK, TaskTypeOK, Unproven, At, Saves, historyVars
<1>5. Steady(r)
  BY <1>1, <1>2 DEF TypeOK, Turns, Unproven, Saves, Steady, historyVars
<1>6. Recorded(r)'
  BY <1>1, <1>2 DEF TypeOK, Turns, Unproven, At, In, Saves, RunInv, Shape, Recorded, Untouched, Linked, Pending,
     Before, Remaining, After, Idle, Undoing, historyVars
<1>7. Linked(r)' /\ Kept(r)'
  BY <1>1, <1>2 DEF TypeOK, Turns, Unproven, At, In, Saves, RunInv, Shape, Linked, Kept, Before, Idle, historyVars
<1>8. Pending(r)'
  BY <1>1, <1>2 DEF TypeOK, Turns, Unproven, At, In, RunInv, Shape, Recorded, Untouched, Linked, Pending,
     Before, Remaining, After, Idle, Undoing, Mutations, historyVars
<1> QED BY <1>3, <1>4, <1>5, <1>6, <1>7, <1>8 DEF RunInv

(* A verified removal shows that the image is gone.                        *)
LEMMA VerifiedStep ==
    ASSUME Inv, NEW r \in Runs, Verified(r)
    PROVE  TypeOK' /\ RunInv(r)' /\ Steady(r)
<1>1. TypeOK /\ RunInv(r)
  BY DEF Inv
<1>2. \/ task[r].step = "remove" /\ Turns(r, [mode |-> task[r].mode, pc |-> "settle", state |-> "released", step |-> task[r].step])
      \/ task[r].step = "select" /\ Turns(r, [mode |-> task[r].mode, pc |-> "save", state |-> "selected", step |-> task[r].step])
      \/ task[r].step = "connect" /\ Turns(r, [mode |-> task[r].mode, pc |-> "save", state |-> "attached", step |-> task[r].step])
      \/ task[r].step \notin {"remove", "select", "connect"} /\ Turns(r, [mode |-> task[r].mode, pc |-> "save", state |-> task[r].state, step |-> task[r].step])
  BY <1>1, SetsTo DEF Verified, Reached
<1>a. task[r].step = "remove" => r \notin drive.images
  BY MediaConstants DEF Verified, Proves, Shows, Present, SameName
<1>3. Shape(task'[r])
  BY <1>1, <1>2, <1>a DEF Turns, Verified, At, In, Shape, RunInv, Idle, Undoing, Mutations, States, Proves
<1>4. TypeOK'
  <2>1. TaskTypeOK'
    BY <1>1, <1>2, <1>3, TaskTyped DEF Idle
  <2> QED BY <1>1, <2>1 DEF TypeOK, TaskTypeOK, Verified, At, Saves, historyVars
<1>5. Steady(r)
  BY <1>1, <1>2 DEF TypeOK, Turns, Verified, Saves, Steady, historyVars
<1>6. Recorded(r)'
  BY <1>1, <1>2, <1>a DEF TypeOK, Turns, Verified, At, In, Saves, RunInv, Shape, Recorded, Untouched, Linked, Pending,
     Before, Remaining, After, Idle, Undoing, historyVars, Proves
<1>7. Linked(r)' /\ Kept(r)'
  BY <1>1, <1>2, <1>a DEF TypeOK, Turns, Verified, At, In, Saves, RunInv, Shape, Linked, Kept, Before, Idle, historyVars, Proves
<1>8. Pending(r)'
  BY <1>1, <1>2, <1>a DEF TypeOK, Turns, Verified, At, In, RunInv, Shape, Recorded, Untouched, Linked, Pending,
     Before, Remaining, After, Idle, Undoing, Mutations, historyVars, Proves
<1> QED BY <1>3, <1>4, <1>5, <1>6, <1>7, <1>8 DEF RunInv

LEMMA SavedStepStep ==
    ASSUME Inv, NEW r \in Runs, SavedStep(r)
    PROVE  TypeOK' /\ RunInv(r)' /\ Steady(r)
<1>1. TypeOK /\ RunInv(r)
  BY DEF Inv
<1>2. \/ task[r].step = "connect" /\ Turns(r, Idle)
      \/ task[r].step = "upload" /\ Turns(r, [mode |-> task[r].mode, pc |-> "start", state |-> task[r].state, step |-> "select"])
      \/ task[r].step = "select" /\ Turns(r, [mode |-> task[r].mode, pc |-> "start", state |-> task[r].state, step |-> "connect"])
      \/ task[r].step = "disconnect" /\ Turns(r, [mode |-> task[r].mode, pc |-> "start", state |-> task[r].state, step |-> "clear"])
      \/ task[r].step = "clear" /\ Turns(r, [mode |-> task[r].mode, pc |-> "start", state |-> task[r].state, step |-> "remove"])
  BY <1>1, SetsTo, EndsIdle DEF SavedStep, Then, At, RunInv, Shape, Idle
<1>3. Shape(task'[r])
  BY <1>1, <1>2 DEF Turns, SavedStep, At, In, Shape, RunInv, Idle, Undoing, Mutations, States
<1>4. TypeOK'
  <2>1. TaskTypeOK'
    BY <1>1, <1>2, <1>3, TaskTyped DEF Idle
  <2> QED BY <1>1, <2>1 DEF TypeOK, TaskTypeOK, SavedStep, At, Saves, historyVars
<1>5. Steady(r)
  BY <1>1, <1>2 DEF TypeOK, Turns, SavedStep, Saves, Steady, historyVars
<1>6. Recorded(r)'
  BY <1>1, <1>2 DEF TypeOK, Turns, SavedStep, At, In, Saves, RunInv, Shape, Recorded, Untouched, Linked, Pending,
     Before, Remaining, After, Idle, Undoing, historyVars
<1>7. Linked(r)' /\ Kept(r)'
  BY <1>1, <1>2 DEF TypeOK, Turns, SavedStep, At, In, Saves, RunInv, Shape, Linked, Kept, Before, Idle, historyVars
<1>8. Pending(r)'
  BY <1>1, <1>2 DEF TypeOK, Turns, SavedStep, At, In, RunInv, Shape, Recorded, Untouched, Linked, Pending,
     Before, Remaining, After, Idle, Undoing, Mutations, historyVars
<1> QED BY <1>3, <1>4, <1>5, <1>6, <1>7, <1>8 DEF RunInv

LEMMA RollbackBeginsStep ==
    ASSUME Inv, NEW r \in Runs, RollbackBegins(r)
    PROVE  TypeOK' /\ RunInv(r)' /\ Steady(r)
<1>1. TypeOK /\ RunInv(r)
  BY DEF Inv
<1>2. Turns(r, [mode |-> task[r].mode, pc |-> "inspect", state |-> task[r].state, step |-> task[r].step])
  BY <1>1, GoesTo DEF RollbackBegins
<1>3. Shape(task'[r])
  BY <1>1, <1>2 DEF Turns, RollbackBegins, At, In, Shape, RunInv, Idle, Undoing, Mutations, States
<1>4. TypeOK'
  <2>1. TaskTypeOK'
    BY <1>1, <1>2, <1>3, TaskTyped DEF Idle
  <2> QED BY <1>1, <2>1 DEF TypeOK, TaskTypeOK, RollbackBegins, At, Saves, historyVars
<1>5. Steady(r)
  BY <1>1, <1>2 DEF TypeOK, Turns, RollbackBegins, Saves, Steady, historyVars
<1>6. Recorded(r)'
  BY <1>1, <1>2 DEF TypeOK, Turns, RollbackBegins, At, In, Saves, RunInv, Shape, Recorded, Untouched, Linked, Pending,
     Before, Remaining, After, Idle, Undoing, historyVars
<1>7. Linked(r)' /\ Kept(r)'
  BY <1>1, <1>2 DEF TypeOK, Turns, RollbackBegins, At, In, Saves, RunInv, Shape, Linked, Kept, Before, Idle, historyVars
<1>8. Pending(r)'
  BY <1>1, <1>2 DEF TypeOK, Turns, RollbackBegins, At, In, RunInv, Shape, Recorded, Untouched, Linked, Pending,
     Before, Remaining, After, Idle, Undoing, Mutations, historyVars
<1> QED BY <1>3, <1>4, <1>5, <1>6, <1>7, <1>8 DEF RunInv

(* A rollback is over when an inspection shows nothing left to undo.       *)
LEMMA UndoStep ==
    ASSUME Inv, NEW r \in Runs, Undo(r)
    PROVE  TypeOK' /\ RunInv(r)' /\ Steady(r)
<1>1. TypeOK /\ RunInv(r)
  BY DEF Inv
<1>2. \/ StillNeeded(r) = {} /\ Turns(r, [mode |-> "rollback", pc |-> "settle", state |-> "released", step |-> task[r].step])
      \/ "disconnect" \in After(task[r].step) /\ Turns(r, [mode |-> "rollback", pc |-> "start", state |-> "rolling_back", step |-> "disconnect"])
      \/ "clear" \in After(task[r].step) /\ Turns(r, [mode |-> "rollback", pc |-> "start", state |-> "rolling_back", step |-> "clear"])
      \/ "remove" \in After(task[r].step) /\ Turns(r, [mode |-> "rollback", pc |-> "start", state |-> "rolling_back", step |-> "remove"])
  BY <1>1, SetsTo DEF Undo, StillNeeded
<1>a. StillNeeded(r) = {} => r \notin drive.images
  <2>1. ASSUME r \in drive.images PROVE StillNeeded(r) # {}
    <3>1. Present(r)
      BY <2>1, MediaConstants DEF Present, SameName
    <3>2. task[r].step # "remove"
      BY <3>1 DEF Undo, Proves, Shows
    <3>3. "remove" \in After(task[r].step)
      BY <1>1, <3>2 DEF Undo, Proves, At, In, RunInv, Shape, Idle, Undoing, After
    <3> QED BY <3>1, <3>3 DEF StillNeeded
  <2> QED BY <2>1
<1>3. Shape(task'[r])
  BY <1>1, <1>2, <1>a DEF Turns, Undo, At, In, Shape, RunInv, Idle, Undoing, Mutations, States, Proves, After
<1>4. TypeOK'
  <2>1. TaskTypeOK'
    BY <1>1, <1>2, <1>3, TaskTyped DEF Idle
  <2> QED BY <1>1, <2>1 DEF TypeOK, TaskTypeOK, Undo, At, Saves, historyVars
<1>5. Steady(r)
  BY <1>1, <1>2 DEF TypeOK, Turns, Undo, Saves, Steady, historyVars
<1>6. Recorded(r)'
  BY <1>1, <1>2, <1>a DEF TypeOK, Turns, Undo, At, In, Saves, RunInv, Shape, Recorded, Untouched, Linked, Pending,
     Before, Remaining, After, Idle, Undoing, historyVars, Proves, After
<1>7. Linked(r)' /\ Kept(r)'
  BY <1>1, <1>2, <1>a DEF TypeOK, Turns, Undo, At, In, Saves, RunInv, Shape, Linked, Kept, Before, Idle, historyVars, Proves, After
<1>8. Pending(r)'
  BY <1>1, <1>2, <1>a DEF TypeOK, Turns, Undo, At, In, RunInv, Shape, Recorded, Untouched, Linked, Pending,
     Before, Remaining, After, Idle, Undoing, Mutations, historyVars, Proves, After
<1> QED BY <1>3, <1>4, <1>5, <1>6, <1>7, <1>8 DEF RunInv

LEMMA SettledStep ==
    ASSUME Inv, NEW r \in Runs, Settled(r)
    PROVE  TypeOK' /\ RunInv(r)' /\ Steady(r)
<1>1. TypeOK /\ RunInv(r)
  BY DEF Inv
<1>2. Turns(r, [mode |-> task[r].mode, pc |-> "discard", state |-> task[r].state, step |-> task[r].step])
  BY <1>1, GoesTo DEF Settled
<1>3. Shape(task'[r])
  BY <1>1, <1>2 DEF Turns, Settled, At, In, Shape, RunInv, Idle, Undoing, Mutations, States
<1>4. TypeOK'
  <2>1. TaskTypeOK'
    BY <1>1, <1>2, <1>3, TaskTyped DEF Idle
  <2> QED BY <1>1, <2>1 DEF TypeOK, TaskTypeOK, Settled, At, Saves, historyVars
<1>5. Steady(r)
  BY <1>1, <1>2 DEF TypeOK, Turns, Settled, Saves, Steady, historyVars
<1>6. Recorded(r)'
  BY <1>1, <1>2 DEF TypeOK, Turns, Settled, At, In, Saves, RunInv, Shape, Recorded, Untouched, Linked, Pending,
     Before, Remaining, After, Idle, Undoing, historyVars
<1>7. Linked(r)' /\ Kept(r)'
  BY <1>1, <1>2 DEF TypeOK, Turns, Settled, At, In, Saves, RunInv, Shape, Linked, Kept, Before, Idle, historyVars
<1>8. Pending(r)'
  BY <1>1, <1>2 DEF TypeOK, Turns, Settled, At, In, RunInv, Shape, Recorded, Untouched, Linked, Pending,
     Before, Remaining, After, Idle, Undoing, Mutations, historyVars
<1> QED BY <1>3, <1>4, <1>5, <1>6, <1>7, <1>8 DEF RunInv

LEMMA DiscardedStep ==
    ASSUME Inv, NEW r \in Runs, Discarded(r)
    PROVE  TypeOK' /\ RunInv(r)' /\ Steady(r)
<1>1. TypeOK /\ RunInv(r)
  BY DEF Inv
<1>2. Turns(r, Idle)
  BY <1>1, EndsIdle DEF Discarded
<1>3. Shape(task'[r])
  BY <1>1, <1>2 DEF Turns, Discarded, At, In, Shape, RunInv, Idle, Undoing, Mutations, States
<1>4. TypeOK'
  <2>1. TaskTypeOK'
    BY <1>1, <1>2, <1>3, TaskTyped DEF Idle
  <2> QED BY <1>1, <2>1 DEF TypeOK, TaskTypeOK, Discarded, At, Saves, historyVars
<1>5. Steady(r)
  BY <1>1, <1>2 DEF TypeOK, Turns, Discarded, Saves, Steady, historyVars
<1>6. Recorded(r)'
  BY <1>1, <1>2 DEF TypeOK, Turns, Discarded, At, In, Saves, RunInv, Shape, Recorded, Untouched, Linked, Pending,
     Before, Remaining, After, Idle, Undoing, historyVars
<1>7. Linked(r)' /\ Kept(r)'
  BY <1>1, <1>2 DEF TypeOK, Turns, Discarded, At, In, Saves, RunInv, Shape, Linked, Kept, Before, Idle, historyVars
<1>8. Pending(r)'
  BY <1>1, <1>2 DEF TypeOK, Turns, Discarded, At, In, RunInv, Shape, Recorded, Untouched, Linked, Pending,
     Before, Remaining, After, Idle, Undoing, Mutations, historyVars
<1> QED BY <1>3, <1>4, <1>5, <1>6, <1>7, <1>8 DEF RunInv

LEMMA SaveFailsStep ==
    ASSUME Inv, NEW r \in Runs, SaveFails(r)
    PROVE  TypeOK' /\ RunInv(r)' /\ Steady(r)
<1>1. TypeOK /\ RunInv(r)
  BY DEF Inv
<1>2. \/ Turns(r, Idle)
      \/ task[r].mode \in {"attach", "release", "rollback"} /\ Turns(r, [mode |-> task[r].mode, pc |-> "latch", state |-> "cleanup_required", step |-> task[r].step])
  BY <1>1, SetsTo, EndsIdle DEF SaveFails, Caught, Latches, In
<1>3. Shape(task'[r])
  BY <1>1, <1>2 DEF Turns, SaveFails, At, In, Shape, RunInv, Idle, Undoing, Mutations, States
<1>4. TypeOK'
  <2>1. TaskTypeOK'
    BY <1>1, <1>2, <1>3, TaskTyped DEF Idle
  <2> QED BY <1>1, <2>1 DEF TypeOK, TaskTypeOK, SaveFails, At, Saves, historyVars
<1>5. Steady(r)
  BY <1>1, <1>2 DEF TypeOK, Turns, SaveFails, Saves, Steady, historyVars
<1>6. Recorded(r)'
  BY <1>1, <1>2 DEF TypeOK, Turns, SaveFails, At, In, Saves, RunInv, Shape, Recorded, Untouched, Linked, Pending,
     Before, Remaining, After, Idle, Undoing, historyVars
<1>7. Linked(r)' /\ Kept(r)'
  BY <1>1, <1>2 DEF TypeOK, Turns, SaveFails, At, In, Saves, RunInv, Shape, Linked, Kept, Before, Idle, historyVars
<1>8. Pending(r)'
  BY <1>1, <1>2 DEF TypeOK, Turns, SaveFails, At, In, RunInv, Shape, Recorded, Untouched, Linked, Pending,
     Before, Remaining, After, Idle, Undoing, Mutations, historyVars
<1> QED BY <1>3, <1>4, <1>5, <1>6, <1>7, <1>8 DEF RunInv

LEMMA CrashStep ==
    ASSUME Inv, NEW r \in Runs, Crash(r)
    PROVE  TypeOK' /\ RunInv(r)' /\ Steady(r)
<1>1. TypeOK /\ RunInv(r)
  BY DEF Inv
<1>2. Turns(r, Idle)
  BY <1>1, EndsIdle DEF Crash
<1>3. Shape(task'[r])
  BY <1>1, <1>2 DEF Turns, Crash, At, In, Shape, RunInv, Idle, Undoing, Mutations, States
<1>4. TypeOK'
  <2>1. TaskTypeOK'
    BY <1>1, <1>2, <1>3, TaskTyped DEF Idle
  <2> QED BY <1>1, <2>1 DEF TypeOK, TaskTypeOK, Crash, At, Saves, historyVars
<1>5. Steady(r)
  BY <1>1, <1>2 DEF TypeOK, Turns, Crash, Saves, Steady, historyVars
<1>6. Recorded(r)'
  BY <1>1, <1>2 DEF TypeOK, Turns, Crash, At, In, Saves, RunInv, Shape, Recorded, Untouched, Linked, Pending,
     Before, Remaining, After, Idle, Undoing, historyVars
<1>7. Linked(r)' /\ Kept(r)'
  BY <1>1, <1>2 DEF TypeOK, Turns, Crash, At, In, Saves, RunInv, Shape, Linked, Kept, Before, Idle, historyVars
<1>8. Pending(r)'
  BY <1>1, <1>2 DEF TypeOK, Turns, Crash, At, In, RunInv, Shape, Recorded, Untouched, Linked, Pending,
     Before, Remaining, After, Idle, Undoing, Mutations, historyVars
<1> QED BY <1>3, <1>4, <1>5, <1>6, <1>7, <1>8 DEF RunInv

(* A mutation that lands late may add r's image: its record admits it.     *)
LEMMA LateEffectStep ==
    ASSUME Inv, NEW r \in Runs, LateEffect(r)
    PROVE  TypeOK' /\ RunInv(r)' /\ Steady(r)
<1>1. TypeOK /\ RunInv(r)
  BY DEF Inv
<1>2. /\ drive' \in [images : SUBSET Runs, selected : Runs \cup {Nobody}, connected : BOOLEAN]
      /\ drive'.images \subseteq drive.images \cup {r}
  <2>1. late[r] \in Mutations
    BY <1>1 DEF LateEffect, TypeOK
  <2>2. CASE Accepts(r, late[r])
    <3>1. drive' = Effect(r, late[r])
      BY <2>2 DEF LateEffect
    <3> QED BY <1>1, <2>1, <2>2, <3>1, EffectOnDrive
  <2>3. CASE ~Accepts(r, late[r])
    <3>1. drive' = drive
      BY <2>3 DEF LateEffect
    <3> QED BY <1>1, <3>1 DEF TypeOK
  <2> QED BY <2>2, <2>3
<1>3. /\ record' = record /\ artifact' = artifact /\ task' = task /\ swapped' = swapped
      /\ sent' = sent /\ lost' = lost
      /\ late[r] # "none" /\ late' = [late EXCEPT ![r] = "none"]
  BY DEF LateEffect, historyVars
<1>4. TypeOK'
  BY <1>1, <1>2, <1>3 DEF TypeOK
<1>5. Steady(r)
  BY <1>1, <1>2, <1>3 DEF TypeOK, Steady
<1>6. late'[r] = "none"
  BY <1>1, <1>3 DEF TypeOK
<1>7. Shape(task'[r]) /\ Linked(r)' /\ Kept(r)'
  BY <1>1, <1>3 DEF RunInv, Linked, Kept
<1>8. Recorded(r)'
  BY <1>1, <1>3, <1>6 DEF RunInv, Recorded, Untouched
<1>9. Pending(r)'
  <2>1. lost[r]
    BY <1>1, <1>3 DEF RunInv, Recorded
  <2> QED BY <1>1, <1>3, <2>1 DEF RunInv, Pending
<1> QED BY <1>4, <1>5, <1>7, <1>8, <1>9 DEF RunInv

LEMMA ConsoleUndoesStep ==
    ASSUME Inv, NEW r \in Runs, ConsoleUndoes(r)
    PROVE  TypeOK' /\ RunInv(r)' /\ Steady(r)
<1>1. TypeOK /\ RunInv(r)
  BY DEF Inv
<1>2. PICK m \in Undoing : Accepts(r, m) /\ drive' = Effect(r, m)
  BY DEF ConsoleUndoes, Undoing
<1>3. /\ drive' \in [images : SUBSET Runs, selected : Runs \cup {Nobody}, connected : BOOLEAN]
      /\ drive'.images \subseteq drive.images
  BY <1>1, <1>2, EffectOnDrive DEF Undoing, Mutations
<1>4. /\ record' = record /\ artifact' = artifact /\ task' = task /\ swapped' = swapped
      /\ late' = late /\ sent' = sent /\ lost' = lost
  BY DEF ConsoleUndoes, historyVars
<1>5. TypeOK' /\ Steady(r)
  BY <1>1, <1>3, <1>4 DEF TypeOK, Steady
<1>6. Shape(task'[r]) /\ Linked(r)' /\ Kept(r)'
  BY <1>1, <1>4 DEF RunInv, Linked, Kept
<1>7. Recorded(r)' /\ Pending(r)'
  BY <1>1, <1>3, <1>4 DEF RunInv, Recorded, Untouched, Pending, Remaining, After
<1> QED BY <1>5, <1>6, <1>7 DEF RunInv

-----------------------------------------------------------------------------
LEMMA InvInit ==
    ASSUME Init
    PROVE  Inv
<1>1. TypeOK
  <2>1. Idle \in [mode : {"none", "stage", "decide", "attach", "release", "rollback"},
                  pc : {"idle", "save", "preflight", "start", "send", "inspect",
                        "latch", "settle", "discard"},
                  state : States, step : Mutations \cup {"none"}]
    BY DEF Idle, States
  <2>2. drive \in [images : SUBSET Runs, selected : Runs \cup {Nobody}, connected : BOOLEAN]
    BY DEF Init
  <2> QED BY <2>1, <2>2 DEF Init, TypeOK, Idle, States
<1>2. ASSUME NEW r \in Runs PROVE RunInv(r)
  <2>1. /\ task[r] = Idle /\ record[r] = "none" /\ late[r] = "none" /\ ~lost[r]
        /\ r \notin drive.images /\ \A m \in Mutations : sent[r][m] = 0
    BY DEF Init
  <2>2. Shape(task[r]) /\ Linked(r) /\ Kept(r)
    BY <2>1 DEF Shape, Linked, Kept, Idle
  <2>3. Recorded(r) /\ Pending(r)
    BY <2>1 DEF Recorded, Untouched, Pending, Undoing, Idle
  <2> QED BY <2>2, <2>3 DEF RunInv
<1> QED BY <1>1, <1>2 DEF Inv

(* Whoever acts keeps its own part of the invariant and leaves the others'. *)
LEMMA ActorStep ==
    ASSUME Inv, NEW r \in Runs, Operation(r) \/ Environment(r)
    PROVE  TypeOK' /\ RunInv(r)' /\ Steady(r)
<1>1. CASE StageArtifact(r)
  BY <1>1, StageArtifactStep
<1>2. CASE Staged(r)
  BY <1>2, StagedStep
<1>3. CASE Reject(r)
  BY <1>3, RejectStep
<1>4. CASE Approve(r)
  BY <1>4, ApproveStep
<1>5. CASE _refuse_before_mutation(r)
  BY <1>5, Refuse_before_mutationStep
<1>6. CASE _attach(r)
  BY <1>6, AttachStep
<1>7. CASE Release(r)
  BY <1>7, ReleaseStep
<1>8. CASE ReleaseStarts(r)
  BY <1>8, ReleaseStartsStep
<1>9. CASE ReleaseRefused(r)
  BY <1>9, ReleaseRefusedStep
<1>10. CASE Checkpoint(r)
  BY <1>10, CheckpointStep
<1>11. CASE Verified(r)
  BY <1>11, VerifiedStep
<1>12. CASE SavedStep(r)
  BY <1>12, SavedStepStep
<1>13. CASE Unproven(r)
  BY <1>13, UnprovenStep
<1>14. CASE _latch_cleanup_required(r)
  BY <1>14, Latch_cleanup_requiredStep
<1>15. CASE RollbackBegins(r)
  BY <1>15, RollbackBeginsStep
<1>16. CASE Undo(r)
  BY <1>16, UndoStep
<1>17. CASE Settled(r)
  BY <1>17, SettledStep
<1>18. CASE Discarded(r)
  BY <1>18, DiscardedStep
<1>19. CASE Confirmed(r)
  BY <1>19, ConfirmedStep
<1>20. CASE Refused(r)
  BY <1>20, RefusedStep
<1>21. CASE ResponseLost(r)
  BY <1>21, ResponseLostStep
<1>22. CASE SaveFails(r)
  BY <1>22, SaveFailsStep
<1>23. CASE Crash(r)
  BY <1>23, CrashStep
<1>24. CASE LateEffect(r)
  BY <1>24, LateEffectStep
<1>25. CASE ConsoleUndoes(r)
  BY <1>25, ConsoleUndoesStep
<1> QED
  BY <1>1, <1>2, <1>3, <1>4, <1>5, <1>6, <1>7, <1>8, <1>9, <1>10, <1>11,
     <1>12, <1>13, <1>14, <1>15, <1>16, <1>17, <1>18, <1>19, <1>20, <1>21,
     <1>22, <1>23, <1>24, <1>25
     DEF Operation, Environment

LEMMA InvStep ==
    ASSUME Inv, [Next]_vars
    PROVE  Inv'
<1>1. CASE TargetSwapped
  <2>1. /\ record' = record /\ artifact' = artifact /\ task' = task /\ drive' = drive
        /\ late' = late /\ sent' = sent /\ lost' = lost /\ swapped' = TRUE
    BY <1>1 DEF TargetSwapped, historyVars
  <2>2. TypeOK'
    BY <2>1 DEF Inv, TypeOK
  <2> QED BY <2>1, <2>2 DEF Inv, RunInv, Recorded, Untouched, Linked, Pending, Kept
<1>2. ASSUME NEW r \in Runs, Operation(r) \/ Environment(r)
      PROVE  Inv'
  <2>1. TypeOK' /\ RunInv(r)' /\ Steady(r)
    BY <1>2, ActorStep
  <2>2. \A q \in Runs \ {r} : RunInv(q)'
    BY <2>1, Others DEF Inv
  <2> QED BY <2>1, <2>2 DEF Inv
<1>3. CASE UNCHANGED vars
  BY <1>3 DEF vars, historyVars, Inv, TypeOK, RunInv, Recorded, Untouched, Linked, Pending, Kept
<1> QED BY <1>1, <1>2, <1>3 DEF Next

LEMMA InvHolds == Spec => []Inv
<1> QED BY InvInit, InvStep, PTL DEF Spec

-----------------------------------------------------------------------------
(* Every variable keeps its type: in particular an operation that is about *)
(* to send names the mutation it sends.                                    *)
THEOREM TypeCorrect == Spec => []TypeOK
<1>1. Inv => TypeOK
  BY DEF Inv
<1> QED BY <1>1, InvHolds, PTL

(* No run forgets an image: what is on the drive, or may still land there  *)
(* after a lost upload, is admitted by the saved state of the run it       *)
(* belongs to, so the rejected and released of resolve_approval, release   *)
(* and the rollback are never said too early.                              *)
THEOREM DriveStaysAccounted == Spec => []DriveAccounted
<1>1. ASSUME Inv PROVE DriveAccounted
  <2> SUFFICES ASSUME NEW r \in Runs, r \in drive.images \/ late[r] = "upload",
                      record[r] \in Before \cup {"released"}
               PROVE  FALSE
    BY <1>1 DEF DriveAccounted, Inv, TypeOK, States, Before
  <2>1. Recorded(r)
    BY <1>1 DEF Inv, RunInv
  <2> QED BY <2>1 DEF Recorded, Untouched
<1> QED BY <1>1, InvHolds, PTL

(* The private copy is dropped only after the end of its transaction was   *)
(* saved, whatever fails or crashes in between.                            *)
THEOREM ArtifactStaysKept == Spec => []ArtifactKept
<1>1. Inv => ArtifactKept
  BY DEF Inv, RunInv, Kept, ArtifactKept
<1> QED BY <1>1, InvHolds, PTL

(* A mutation of the drive is sent at most once in a transaction, and none *)
(* after one whose outcome is unknown: the retry that                      *)
(* media_transaction.py never makes.                                       *)
THEOREM NeverRetried == Spec => NoRetry
<1> DEFINE A == \A r \in Runs : sent'[r] # sent[r] =>
                   /\ ~lost[r]
                   /\ \A m \in Mutations : sent'[r][m] <= 1
<1>1. ASSUME Inv, Inv', [Next]_vars PROVE A
  <2> SUFFICES ASSUME NEW r \in Runs, sent'[r] # sent[r]
               PROVE  ~lost[r] /\ \A m \in Mutations : sent'[r][m] <= 1
    OBVIOUS
  <2>1. Checkpoint(r)
    <3>1. ~UNCHANGED sent
      OBVIOUS
    <3>2. PICK p \in Runs : Operation(p) \/ Environment(p)
      BY <1>1, <3>1 DEF Next, TargetSwapped, vars, historyVars
    <3>3. Checkpoint(p)
      BY <3>1, <3>2 DEF Operation, Environment, historyVars, StageArtifact, Staged, Reject, Approve,
         _refuse_before_mutation, _attach, Release, ReleaseStarts, ReleaseRefused, Verified,
         SavedStep, Unproven, _latch_cleanup_required, RollbackBegins, Undo, Settled, Discarded,
         Confirmed, Refused, ResponseLost, SaveFails, Crash, LateEffect, ConsoleUndoes
    <3>4. p = r
      BY <1>1, <3>3 DEF Checkpoint, Inv, TypeOK
    <3> QED BY <3>3, <3>4
  <2>2. ~lost[r]
    BY <1>1, <2>1 DEF Checkpoint, At, Inv, RunInv, Shape, Pending, Idle
  <2>3. \A m \in Mutations : sent'[r][m] <= 1
    BY <1>1 DEF Inv, RunInv, Recorded
  <2> QED BY <2>2, <2>3
<1>2. Inv /\ Inv' /\ [Next]_vars => [A]_vars
  BY <1>1
<1>3. Spec => [][A]_vars
  BY <1>2, InvInit, InvStep, PTL DEF Spec
<1> QED BY <1>3 DEF NoRetry
=============================================================================
