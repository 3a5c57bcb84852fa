------------------------- MODULE AgentHarnessProofs -------------------------
(***************************************************************************)
(* What the supervised run guarantees for any budgets, any number of       *)
(* sessions, disturbances and actions.                                     *)
(***************************************************************************)
EXTENDS AgentHarness, TLAPS

(* What a saved record says of itself: a pending action is the next one,   *)
(* only a pending action is held, and none outlives the end of the run.    *)
Fits(r) ==
    /\ r.pending # Nothing => r.pending.index = r.next /\ r.next < MaxIndex
    /\ r.hold => r.pending # Nothing
    /\ r.status \in Settled => r.pending = Nothing
    /\ r.gap => r.status # "needs_approval"

(* The daemon may start only what the record holds as pending, and knows   *)
(* nothing yet of sessions it has not opened.                              *)
Owned ==
    /\ run.session <= opened
    /\ \A k \in Key :
          run.session \notin stopped /\ job[<<run.session, k>>] \in {"asked", "granted"} => k = run.pending
    /\ \A s \in 1 .. MaxSessions, k \in Key : s > opened => job[<<s, k>>] = "none"

Thinking == {"plan", "control", "replan", "check"}
Acting == {"send", "burst", "dismiss", "renav", "freshen", "approve", "reject", "take_over", "quit"}

(* What holds at the await the holder is suspended at.                     *)
Placed ==
    /\ pc # "idle" => line # <<>>
    /\ pc \in Thinking => run.pending = Nothing
    /\ pc \in {"plan", "control"} => run.next < MaxIndex
    /\ pc \in Acting => run.pending # Nothing
    /\ pc = "renav" => Phase = "none" /\ run.navs < MaxNav
    /\ pc = "freshen" => Phase = "refused"
    /\ pc = "quit" => Phase \in Ended \cup {"refused"}
    /\ pc = "reopen" => run.gap
    /\ run.gap => pc \in {"idle", "reopen", "abort"}
    /\ pc \in {"loop", "plan", "control", "replan", "abort"} \/ (pc = "check" /\ ctl = "off")
          => run.status \notin Settled
    /\ ctl # "off" => pc = "check"

(* A run that was blocked for its machine rests.                           *)
Noted ==
    swapped = "alone" => run.status = "blocked" /\ run.tail = "identity" /\ ~run.gap /\ pc = "idle"

Inv == TypeOK /\ Fits(run) /\ Owned /\ Placed /\ Noted

-----------------------------------------------------------------------------
(* The type invariant, by who changes what.                                *)

HolderTypeOK ==
    /\ line \in Seq({"cont", "appr", "op"})
    /\ op \in BOOLEAN
    /\ pc \in {"idle", "reopen", "loop", "plan", "control", "send", "burst", "dismiss",
               "renav", "freshen", "check", "replan", "approve", "reject", "take_over", "quit", "abort"}
    /\ slice \in [acts : 0 .. PerAdvance, why : {"first", "nav", "unread", "long"}]
    /\ check \in [stage : {"off", "image", "asking", "delayed", "over"},
                  for : {"action", "done", "answer"}, moved : BOOLEAN,
                  verdict : {"none", "complete", "verified", "uncertain", "failed"}]
    /\ ctl \in {"off", "asking", "ready", "lost"}

DaemonTypeOK ==
    /\ job \in [(1 .. MaxSessions) \X Key -> InFlight \cup Ended \cup {"none", "refused"}]
    /\ stopped \subseteq 1 .. MaxSessions /\ opened \in 1 .. MaxSessions
    /\ target \in {1, 2}
    /\ draft \subseteq Surfaces

RestTypeOK ==
    /\ prefetch \in BOOLEAN
    /\ disturbed \in 0 .. MaxDisturbances
    /\ excused \in BOOLEAN
    /\ swapped \in {"no", "alone", "overlapped"}

LEMMA TypeParts == TypeOK <=> run \in RunSnapshot /\ HolderTypeOK /\ DaemonTypeOK /\ RestTypeOK
BY DEF TypeOK, HolderTypeOK, DaemonTypeOK, RestTypeOK

LEMMA TypePartsNext ==
    TypeOK' <=> run' \in RunSnapshot /\ HolderTypeOK' /\ DaemonTypeOK' /\ RestTypeOK'
BY DEF TypeOK, HolderTypeOK, DaemonTypeOK, RestTypeOK

(* The record a step saves, up to what the supervisor adds of its own.     *)
Saves(r) ==
    /\ run' \in RunSnapshot
    /\ run'.status = r.status /\ run'.session = r.session
    /\ run'.pending = r.pending /\ run'.hold = r.hold /\ run'.next = r.next
    /\ run'.gap = r.gap /\ run'.navs = r.navs
    /\ r.tail # "yield" => run'.tail = r.tail

Resting == pc' = "idle" /\ HolderTypeOK' /\ ctl' = "off"

LEMMA Sliceless == NewSlice \in [acts : 0 .. PerAdvance, why : {"first", "nav", "unread", "long"}]
BY HarnessConstants DEF NewSlice

LEMMA Unchecked ==
    NoCheck \in [stage : {"off", "image", "asking", "delayed", "over"},
                 for : {"action", "done", "answer"}, moved : BOOLEAN,
                 verdict : {"none", "complete", "verified", "uncertain", "failed"}]
BY DEF NoCheck

LEMMA PausedFields ==
    ASSUME NEW r \in RunSnapshot
    PROVE  /\ Paused(r) \in RunSnapshot
           /\ Paused(r).status = "paused" /\ Paused(r).session = r.session
           /\ Paused(r).pending = r.pending /\ Paused(r).hold = r.hold /\ Paused(r).next = r.next
           /\ Paused(r).gap = r.gap /\ Paused(r).navs = r.navs /\ Paused(r).tail = "other"
BY DEF Paused, RunSnapshot, Statuses

LEMMA ReleasedSaves ==
    ASSUME TypeOK, line # <<>>, NEW r \in RunSnapshot, Released(r)
    PROVE  Saves(r) /\ Resting
<1>1. Saves(r)
  <2>1. CASE Holds("cont") /\ r.status = "paused" /\ r.tail = "yield" /\ r.resumes < MaxResumes
    <3>1. run' = [r EXCEPT !.resumes = @ + 1]
      BY <2>1 DEF Released
    <3> QED BY <2>1, <3>1, HarnessConstants, SMTT(30) DEF Saves, RunSnapshot
  <2>2. CASE Holds("cont") /\ r.status = "paused" /\ r.tail = "yield" /\ ~(r.resumes < MaxResumes)
    <3>1. run' = Paused(r)
      BY <2>2 DEF Released
    <3> QED BY <2>2, <3>1, PausedFields DEF Saves
  <2>3. CASE ~(Holds("cont") /\ r.status = "paused" /\ r.tail = "yield")
    <3>1. run' = r
      BY <2>3 DEF Released
    <3> QED BY <3>1 DEF Saves
  <2> QED BY <2>1, <2>2, <2>3
<1>2. line' \in Seq({"cont", "appr", "op"})
  <2>1. line \in Seq({"cont", "appr", "op"}) /\ Tail(line) \in Seq({"cont", "appr", "op"})
    BY DEF TypeOK
  <2>2. Append(Tail(line), "cont") \in Seq({"cont", "appr", "op"})
    BY <2>1
  <2> QED BY <2>1, <2>2 DEF Released
<1>3. pc' = "idle" /\ op' \in BOOLEAN /\ slice' = NewSlice /\ check' = NoCheck /\ ctl' = "off"
  BY DEF Released, Forgotten, TypeOK
<1> QED BY <1>1, <1>2, <1>3, Sliceless, Unchecked DEF Resting, HolderTypeOK

LEMMA RestPlaced ==
    ASSUME Resting
    PROVE  Placed'
BY DEF Resting, Placed, Thinking, Acting

LEMMA SavedFits ==
    ASSUME NEW r, Fits(r), Saves(r)
    PROVE  Fits(run)'
BY DEF Saves, Fits

(* A slice that ends.                                                      *)
LEMMA Ends ==
    ASSUME TypeOK, line # <<>>, NEW r \in RunSnapshot, Fits(r), Released(r)
    PROVE  Saves(r) /\ Fits(run)' /\ HolderTypeOK' /\ Placed' /\ ctl' = "off" /\ pc' = "idle"
BY ReleasedSaves, RestPlaced, SavedFits DEF Resting

(* An accepted action, after which the slice goes on or ends.              *)
LEMMA Proceeds ==
    ASSUME TypeOK, line # <<>>, NEW r \in RunSnapshot, Fits(r), ~r.gap, AfterAction(r)
    PROVE  /\ Saves(r) /\ Fits(run)' /\ HolderTypeOK' /\ Placed' /\ ctl' = "off"
           /\ r.status = "blocked" => pc' = "idle"
<1>1. CASE Released(r)
  BY <1>1, Ends
<1>2. CASE ~Released(r)
  <2>1. /\ run' = r /\ pc' = "loop" /\ line' = line /\ op' = op
        /\ slice' = [slice EXCEPT !.why = "first"] /\ check' = NoCheck /\ ctl' = "off"
        /\ r.status \notin Settled \cup {"blocked"}
    BY <1>2 DEF AfterAction, Goes, TERMINAL_RUN_STATUSES, Settled
  <2>2. HolderTypeOK'
    BY <2>1, Unchecked DEF HolderTypeOK, TypeOK
  <2>3. Saves(r) /\ Fits(run)'
    BY <2>1 DEF Saves, Fits
  <2>4. Placed'
    BY <2>1 DEF Placed, Thinking, Acting
  <2> QED BY <2>1, <2>2, <2>3, <2>4
<1> QED BY <1>1, <1>2

LEMMA KeyForm == Key \subseteq [index : Nat, act : Contents] /\ Nothing \notin Key
BY HarnessConstants DEF Key

LEMMA NotYetOpen ==
    ASSUME TypeOK, Owned, opened <= opened', opened' \in Nat, NEW s \in 1 .. MaxSessions, s > opened'
    PROVE  s > opened /\ s # run.session
<1>1. run.session \in 1 .. MaxSessions /\ opened \in 1 .. MaxSessions /\ MaxSessions \in Nat
  BY HarnessConstants DEF TypeOK, RunSnapshot
<1>2. run.session <= opened
  BY DEF Owned
<1> QED BY <1>1, <1>2

LEMMA NotOlder ==
    ASSUME TypeOK, Owned, opened <= opened', opened' \in Nat
    PROVE  run.session <= opened'
<1>1. run.session \in 1 .. MaxSessions /\ opened \in 1 .. MaxSessions /\ MaxSessions \in Nat
  BY HarnessConstants DEF TypeOK, RunSnapshot
<1>2. run.session <= opened
  BY DEF Owned
<1> QED BY <1>1, <1>2

(* The daemon's queue stays within the pending action.                     *)
LEMMA Owning ==
    ASSUME TypeOK, Owned,
           run'.session = run.session, opened <= opened', opened' \in Nat, stopped \subseteq stopped',
           \A s \in 1 .. MaxSessions, k \in Key :
              job'[<<s, k>>] # job[<<s, k>>] => s = run.session /\ k = run.pending,
           run'.pending = run.pending \/ run.session \in stopped'
              \/ (run.pending # Nothing => job'[<<run.session, run.pending>>] \notin {"asked", "granted"})
    PROVE  Owned'
<1>1. run'.session <= opened'
  BY NotOlder DEF Owned
<1>2. run.session \in 1 .. MaxSessions
  BY DEF TypeOK, RunSnapshot
<1>3. \A k \in Key :
         run'.session \notin stopped' /\ job'[<<run'.session, k>>] \in {"asked", "granted"} => k = run'.pending
  <2> SUFFICES ASSUME NEW k \in Key, run.session \notin stopped', job'[<<run.session, k>>] \in {"asked", "granted"}
               PROVE  k = run'.pending
    OBVIOUS
  <2>1. k = run.pending
    BY <1>2 DEF Owned
  <2> QED BY <2>1, KeyForm
<1>4. \A s \in 1 .. MaxSessions, k \in Key : s > opened' => job'[<<s, k>>] = "none"
  <2> SUFFICES ASSUME NEW s \in 1 .. MaxSessions, NEW k \in Key, s > opened'
               PROVE  job'[<<s, k>>] = "none"
    OBVIOUS
  <2>1. s > opened /\ s # run.session
    BY NotYetOpen
  <2>2. job[<<s, k>>] = "none"
    BY <2>1 DEF Owned
  <2> QED BY <2>1, <2>2
<1> QED BY <1>1, <1>3, <1>4 DEF Owned

(* What becomes of the daemon's queue in a step of the run.                *)
QueueKept ==
    /\ DaemonTypeOK'
    /\ opened <= opened' /\ stopped \subseteq stopped'
    /\ \A s \in 1 .. MaxSessions, k \in Key :
          job'[<<s, k>>] # job[<<s, k>>] => s = run.session /\ k = run.pending

(* A pending action is given up only where the daemon can no longer start  *)
(* it.                                                                     *)
KeepsOrQuiet(pending) ==
    \/ pending = run.pending
    \/ run.session \in stopped'
    \/ run.pending # Nothing => job'[<<run.session, run.pending>>] \notin {"asked", "granted"}

LEMMA Unmoved ==
    ASSUME TypeOK, UNCHANGED <<job, stopped, opened>>, target' \in {1, 2}, draft' \subseteq Surfaces
    PROVE  QueueKept
BY DEF TypeOK, DaemonTypeOK, QueueKept

LEMMA Turned ==
    ASSUME TypeOK, run.pending # Nothing,
           NEW phase \in InFlight \cup Ended \cup {"none", "refused"},
           job' = [job EXCEPT ![<<run.session, run.pending>>] = phase],
           UNCHANGED <<stopped, opened, target>>, draft' \subseteq Surfaces
    PROVE  QueueKept /\ job'[<<run.session, run.pending>>] = phase
<1>1. run.session \in 1 .. MaxSessions /\ run.pending \in Key
  BY DEF TypeOK, RunSnapshot
<1>2. DaemonTypeOK'
  BY <1>1 DEF TypeOK, DaemonTypeOK
<1>3. \A s \in 1 .. MaxSessions, k \in Key :
         job'[<<s, k>>] # job[<<s, k>>] => s = run.session /\ k = run.pending
  BY <1>1 DEF TypeOK
<1>4. job'[<<run.session, run.pending>>] = phase
  BY <1>1 DEF TypeOK
<1>5. opened <= opened' /\ stopped \subseteq stopped'
  BY DEF TypeOK
<1> QED BY <1>2, <1>3, <1>4, <1>5 DEF QueueKept

LEMMA StillOwned ==
    ASSUME Inv, QueueKept, run'.session = run.session, KeepsOrQuiet(run'.pending)
    PROVE  Owned'
<1>1. opened' \in Nat
  BY HarnessConstants DEF QueueKept, DaemonTypeOK
<1> QED BY <1>1, Owning DEF Inv, QueueKept, KeepsOrQuiet

(* A step that ends the slice, or accepts an action, saving r.             *)
LEMMA Concludes ==
    ASSUME Inv, line # <<>>, NEW r \in RunSnapshot, Fits(r), r.session = run.session,
           Released(r) \/ (~r.gap /\ AfterAction(r)),
           QueueKept, KeepsOrQuiet(r.pending), RestTypeOK',
           swapped' = "alone" => r.status = "blocked" /\ r.tail = "identity" /\ ~r.gap
    PROVE  Inv'
<1>1. TypeOK
  BY DEF Inv
<1>2. /\ Saves(r) /\ Fits(run)' /\ HolderTypeOK' /\ Placed'
      /\ r.status = "blocked" => pc' = "idle"
  BY <1>1, Ends, Proceeds
<1>3. Owned'
  BY <1>2, StillOwned DEF Saves, KeepsOrQuiet
<1>4. Noted'
  BY <1>2 DEF Saves, Noted
<1>5. TypeOK'
  BY <1>2, TypePartsNext DEF Saves, QueueKept
<1> QED BY <1>2, <1>3, <1>4, <1>5 DEF Inv

(* A step that leaves the holder at another await.                         *)
LEMMA Moves ==
    ASSUME Inv, run' \in RunSnapshot, Fits(run)', run'.session = run.session,
           HolderTypeOK', Placed', Noted',
           QueueKept, KeepsOrQuiet(run'.pending), RestTypeOK'
    PROVE  Inv'
<1>1. Owned'
  BY StillOwned
<1>2. TypeOK'
  BY TypePartsNext DEF QueueKept
<1> QED BY <1>1, <1>2 DEF Inv

-----------------------------------------------------------------------------
(* The forms a record takes.                                               *)

(* q is a record like r, with this status and tail.                        *)
Form(q, r, status, tail) ==
    /\ q \in RunSnapshot /\ Fits(q)
    /\ q.session = r.session /\ q.gap = r.gap /\ q.navs = r.navs
    /\ q.status = status /\ q.tail = tail

Holding(q, r) == q.pending = r.pending /\ q.hold = r.hold /\ q.next = r.next
Shed(q) == q.pending = Nothing /\ q.hold = FALSE

LEMMA PausedForm ==
    ASSUME NEW r \in RunSnapshot, Fits(r)
    PROVE  Form(Paused(r), r, "paused", "other") /\ Holding(Paused(r), r)
BY PausedFields DEF Form, Holding, Fits, Settled

LEMMA YieldedForm ==
    ASSUME NEW r \in RunSnapshot, Fits(r)
    PROVE  Form(Yielded(r), r, "paused", "yield") /\ Holding(Yielded(r), r)
<1>1. Yielded(r) \in RunSnapshot
  BY DEF Yielded, RunSnapshot, Statuses
<1>2. /\ Yielded(r).status = "paused" /\ Yielded(r).tail = "yield" /\ Yielded(r).session = r.session
      /\ Yielded(r).pending = r.pending /\ Yielded(r).hold = r.hold /\ Yielded(r).next = r.next
      /\ Yielded(r).gap = r.gap /\ Yielded(r).navs = r.navs
  BY DEF Yielded, RunSnapshot
<1> QED BY <1>1, <1>2 DEF Form, Holding, Fits, Settled

LEMMA UnplannedForm ==
    ASSUME NEW r \in RunSnapshot, Fits(r)
    PROVE  Form(Unplanned(r), r, r.status, r.tail) /\ Holding(Unplanned(r), r)
<1>1. Unplanned(r) \in RunSnapshot
  BY DEF Unplanned, RunSnapshot
<1>2. /\ Unplanned(r).status = r.status /\ Unplanned(r).tail = r.tail
      /\ Unplanned(r).session = r.session /\ Unplanned(r).pending = r.pending
      /\ Unplanned(r).hold = r.hold /\ Unplanned(r).next = r.next
      /\ Unplanned(r).gap = r.gap /\ Unplanned(r).navs = r.navs
  BY DEF Unplanned, RunSnapshot
<1> QED BY <1>1, <1>2 DEF Form, Holding, Fits

LEMMA BlockedForm ==
    ASSUME NEW r \in RunSnapshot, Fits(r)
    PROVE  Form(Blocked(r), r, "blocked", "other") /\ Holding(Blocked(r), r)
<1>1. Blocked(r) \in RunSnapshot
  BY DEF Blocked, RunSnapshot, Statuses, TERMINAL_RUN_STATUSES
<1>2. /\ Blocked(r).status = "blocked" /\ Blocked(r).tail = "other"
      /\ Blocked(r).session = r.session /\ Blocked(r).pending = r.pending
      /\ Blocked(r).hold = r.hold /\ Blocked(r).next = r.next
      /\ Blocked(r).gap = r.gap /\ Blocked(r).navs = r.navs
  BY DEF Blocked, RunSnapshot
<1> QED BY <1>1, <1>2 DEF Form, Holding, Fits, Settled

LEMMA IdentityForm ==
    ASSUME NEW r \in RunSnapshot, Fits(r), target \in {1, 2}
    PROVE  Form(IdentityChanged(r), r, "blocked", "identity") /\ Holding(IdentityChanged(r), r)
<1>1. IdentityChanged(r) \in RunSnapshot
  BY DEF IdentityChanged, RunSnapshot, Statuses, TERMINAL_RUN_STATUSES
<1>2. /\ IdentityChanged(r).status = "blocked" /\ IdentityChanged(r).tail = "identity"
      /\ IdentityChanged(r).session = r.session /\ IdentityChanged(r).pending = r.pending
      /\ IdentityChanged(r).hold = r.hold /\ IdentityChanged(r).next = r.next
      /\ IdentityChanged(r).gap = r.gap /\ IdentityChanged(r).navs = r.navs
  BY DEF IdentityChanged, RunSnapshot
<1> QED BY <1>1, <1>2 DEF Form, Holding, Fits, Settled

LEMMA DroppedForm ==
    ASSUME NEW r \in RunSnapshot, Fits(r)
    PROVE  Form(Dropped(r), r, r.status, r.tail) /\ Shed(Dropped(r)) /\ Dropped(r).next = r.next
<1>1. Dropped(r) \in RunSnapshot
  BY DEF Dropped, RunSnapshot
<1>2. /\ Dropped(r).status = r.status /\ Dropped(r).tail = r.tail
      /\ Dropped(r).session = r.session /\ Dropped(r).pending = Nothing
      /\ Dropped(r).hold = FALSE /\ Dropped(r).next = r.next
      /\ Dropped(r).gap = r.gap /\ Dropped(r).navs = r.navs
  BY DEF Dropped, RunSnapshot
<1> QED BY <1>1, <1>2 DEF Form, Shed, Fits

LEMMA AdvancedForm ==
    ASSUME NEW r \in RunSnapshot, Fits(r), r.pending # Nothing
    PROVE  Form(Advanced(r), r, r.status, r.tail) /\ Shed(Advanced(r))
<1>1. r.pending.index + 1 \in 0 .. MaxIndex
  <2>1. r.next \in Nat /\ r.next < MaxIndex /\ r.pending.index = r.next /\ MaxIndex \in Nat
    BY HarnessConstants DEF Fits, RunSnapshot
  <2> QED BY <2>1
<1>2. Advanced(r) = [Dropped(r) EXCEPT !.next = r.pending.index + 1]
  BY DEF Advanced
<1>3. Advanced(r) \in RunSnapshot
  BY <1>1, <1>2, DroppedForm DEF Form, RunSnapshot
<1>4. /\ Advanced(r).status = r.status /\ Advanced(r).tail = r.tail
      /\ Advanced(r).session = r.session /\ Advanced(r).pending = Nothing
      /\ Advanced(r).hold = FALSE
      /\ Advanced(r).gap = r.gap /\ Advanced(r).navs = r.navs
  BY <1>2, DroppedForm DEF Form, Shed, RunSnapshot
<1> QED BY <1>3, <1>4 DEF Form, Shed, Fits

(* A status that neither ends the run nor asks the operator fits any run;  *)
(* the others need the pending action, or its absence.                     *)
LEMMA StatusForm ==
    ASSUME NEW r \in RunSnapshot, Fits(r), NEW status \in Statuses,
           status \in Settled => r.pending = Nothing,
           status = "needs_approval" => ~r.gap,
           NEW q, q = [r EXCEPT !.status = status, !.tail = "other"]
    PROVE  Form(q, r, status, "other") /\ Holding(q, r)
<1>1. q \in RunSnapshot
  BY DEF RunSnapshot
<1>2. /\ q.status = status /\ q.tail = "other" /\ q.session = r.session
      /\ q.pending = r.pending /\ q.hold = r.hold /\ q.next = r.next
      /\ q.gap = r.gap /\ q.navs = r.navs
  BY DEF RunSnapshot
<1> QED BY <1>1, <1>2 DEF Form, Holding, Fits

(* Locals and flags that no invariant depends on.                          *)
LEMMA FlagForm ==
    ASSUME NEW r \in RunSnapshot, Fits(r), NEW plan \in BOOLEAN, NEW disagreed \in BOOLEAN,
           NEW machine \in {1, 2}, NEW unread \in SUBSET Surfaces, NEW q,
           q = [r EXCEPT !.plan = plan, !.disagreed = disagreed, !.machine = machine, !.unread = unread]
    PROVE  Form(q, r, r.status, r.tail) /\ Holding(q, r)
<1>1. q \in RunSnapshot
  BY DEF RunSnapshot
<1>2. /\ q.status = r.status /\ q.tail = r.tail /\ q.session = r.session
      /\ q.pending = r.pending /\ q.hold = r.hold /\ q.next = r.next
      /\ q.gap = r.gap /\ q.navs = r.navs
  BY DEF RunSnapshot
<1> QED BY <1>1, <1>2 DEF Form, Holding, Fits

-----------------------------------------------------------------------------
(* The supervisor.                                                         *)

LEMMA Ready ==
    ASSUME Inv
    PROVE  /\ TypeOK /\ run \in RunSnapshot /\ Fits(run)
           /\ HolderTypeOK /\ RestTypeOK /\ target \in {1, 2}
           /\ pc # "idle" => line # <<>> /\ swapped # "alone"
BY TypeParts DEF Inv, TypeOK, Placed, Noted

LEMMA Calm ==
    ASSUME Inv, UNCHANGED daemonVars
    PROVE  QueueKept
BY Unmoved DEF Inv, daemonVars, TypeOK

LEMMA Queued ==
    ASSUME Inv, NEW actor \in {"cont", "appr", "op"}, line' = Append(line, actor),
           UNCHANGED <<run, op, holderVars, prefetch, daemonVars, disturbed, excused, swapped>>
    PROVE  Inv'
<1>1. QueueKept
  BY Calm
<1>2. line' \in Seq({"cont", "appr", "op"}) /\ line' # <<>>
  BY Ready DEF HolderTypeOK
<1>3. HolderTypeOK'
  BY <1>2, Ready DEF HolderTypeOK, holderVars
<1>4. Placed'
  BY <1>2 DEF Inv, Placed, Phase, holderVars, daemonVars
<1>5. Noted' /\ Fits(run)' /\ run' \in RunSnapshot
  BY Ready DEF Inv, Noted, Fits, holderVars
<1>6. RestTypeOK'
  BY Ready DEF RestTypeOK
<1> QED BY <1>1, <1>3, <1>4, <1>5, <1>6, Moves DEF KeepsOrQuiet

LEMMA RequestStep ==
    ASSUME Inv, ContinueRequested \/ ApprovalRequested \/ OperatorQueues
    PROVE  Inv'
BY Queued DEF ContinueRequested, ApprovalRequested, OperatorQueues

LEMMA Emptied == <<>> \in Seq({"cont", "appr", "op"})
OBVIOUS

LEMMA Counted ==
    ASSUME TypeOK, disturbed < MaxDisturbances
    PROVE  disturbed + 1 \in 0 .. MaxDisturbances
BY HarnessConstants DEF TypeOK

LEMMA OperatorCancelsStep ==
    ASSUME Inv, OperatorCancels
    PROVE  Inv'
<1>1. QueueKept
  BY Calm DEF OperatorCancels
<1>2. HolderTypeOK'
  BY Emptied, Sliceless, Unchecked DEF HolderTypeOK, OperatorCancels, Forgotten
<1>3. Resting
  BY <1>2 DEF Resting, OperatorCancels, Forgotten
<1>4. Noted' /\ Fits(run)' /\ run' \in RunSnapshot /\ run'.session = run.session
  BY Ready DEF Inv, Noted, Fits, OperatorCancels
<1>5. RestTypeOK'
  BY Ready, Counted DEF RestTypeOK, OperatorCancels
<1>6. KeepsOrQuiet(run'.pending)
  BY DEF KeepsOrQuiet, OperatorCancels
<1> QED BY <1>1, <1>2, <1>3, <1>4, <1>5, <1>6, RestPlaced, Moves

LEMMA PauseStep ==
    ASSUME Inv, Pause
    PROVE  Inv'
<1>1. QueueKept /\ RestTypeOK' /\ line # <<>> /\ swapped' = swapped
  BY Calm, Ready DEF Pause, RestTypeOK, Holds
<1>2. CASE run.status \in TERMINAL_RUN_STATUSES \cup {"needs_approval"}
  <2>1. Released(run) /\ KeepsOrQuiet(run.pending)
    BY <1>2 DEF Pause, KeepsOrQuiet
  <2> QED BY <1>1, <2>1, Ready, Concludes DEF Inv, Noted
<1>3. CASE run.status \notin TERMINAL_RUN_STATUSES \cup {"needs_approval"}
  <2>1. Released(Paused(run)) /\ swapped # "alone"
    BY <1>3 DEF Pause, Inv, Noted, TERMINAL_RUN_STATUSES
  <2>2. Form(Paused(run), run, "paused", "other") /\ KeepsOrQuiet(Paused(run).pending)
    BY Ready, PausedForm DEF Holding, KeepsOrQuiet
  <2> QED BY <1>1, <2>1, <2>2, Concludes DEF Form
<1> QED BY <1>2, <1>3

LEMMA SteerStep ==
    ASSUME Inv, Steer
    PROVE  Inv'
<1>1. QueueKept /\ RestTypeOK' /\ line # <<>> /\ swapped' = swapped
  BY Calm, Ready DEF Steer, RestTypeOK, Holds
<1> DEFINE refused ==
               \/ run.status \in (TERMINAL_RUN_STATUSES \ {"blocked"}) \cup {"needs_approval"}
               \/ run.status = "blocked" /\ run.tail = "identity"
               \/ run.pending # Nothing
<1>2. CASE refused
  <2>1. Released(run) /\ KeepsOrQuiet(run.pending)
    BY <1>2 DEF Steer, KeepsOrQuiet
  <2> QED BY <1>1, <2>1, Ready, Concludes DEF Inv, Noted
<1>3. CASE ~refused
  <2>1. Released(Paused(Unplanned(run))) /\ swapped # "alone"
    BY <1>3 DEF Steer, Inv, Noted
  <2>2. Form(Unplanned(run), run, run.status, run.tail) /\ Holding(Unplanned(run), run)
    BY Ready, UnplannedForm
  <2>3. /\ Form(Paused(Unplanned(run)), run, "paused", "other")
        /\ KeepsOrQuiet(Paused(Unplanned(run)).pending)
    BY <2>2, PausedForm DEF Form, Holding, KeepsOrQuiet
  <2> QED BY <1>1, <2>1, <2>3, Concludes DEF Form
<1> QED BY <1>2, <1>3

LEMMA AbortStep ==
    ASSUME Inv, Abort
    PROVE  Inv'
<1>1. QueueKept /\ RestTypeOK' /\ line # <<>> /\ swapped' = swapped
  BY Calm, Ready DEF Abort, RestTypeOK, Holds
<1>2. CASE run.status \in TERMINAL_RUN_STATUSES
  <2>1. Released(run) /\ KeepsOrQuiet(run.pending)
    BY <1>2 DEF Abort, KeepsOrQuiet
  <2> QED BY <1>1, <2>1, Ready, Concludes DEF Inv, Noted
<1>3. CASE run.status \notin TERMINAL_RUN_STATUSES
  <2>1. /\ pc' = "abort" /\ run' = run /\ line' = line /\ op' = op
        /\ slice' = NewSlice /\ check' = NoCheck /\ ctl' = "off"
    BY <1>3 DEF Abort, Goes, Forgotten
  <2>2. HolderTypeOK'
    BY <2>1, Ready, Sliceless, Unchecked DEF HolderTypeOK
  <2>3. Placed'
    BY <1>1, <1>3, <2>1 DEF Placed, Thinking, Acting, TERMINAL_RUN_STATUSES
  <2>4. Noted' /\ Fits(run)' /\ KeepsOrQuiet(run'.pending) /\ run' \in RunSnapshot
    BY <1>1, <1>3, <2>1, Ready DEF Inv, Noted, Fits, KeepsOrQuiet, TERMINAL_RUN_STATUSES
  <2> QED BY <1>1, <2>1, <2>2, <2>3, <2>4, Moves
<1> QED BY <1>2, <1>3

(* An end given to a run: its pending action goes with it.                 *)
LEMMA EndForm ==
    ASSUME Inv, NEW status \in Settled, NEW q,
           q = [Dropped(run) EXCEPT !.status = status, !.tail = "other"]
    PROVE  Form(q, run, status, "other") /\ Shed(q)
<1>1. Form(Dropped(run), run, run.status, run.tail) /\ Shed(Dropped(run))
  BY Ready, DroppedForm
<1>2. status \in Statuses /\ status # "needs_approval"
  BY DEF Statuses, TERMINAL_RUN_STATUSES, Settled
<1>3. Dropped(run) \in RunSnapshot /\ Fits(Dropped(run)) /\ Dropped(run).pending = Nothing
  BY <1>1 DEF Form, Shed
<1>4. Form(q, Dropped(run), status, "other") /\ Holding(q, Dropped(run))
  BY <1>2, <1>3, StatusForm
<1> QED BY <1>1, <1>4 DEF Form, Holding, Shed

LEMMA AbortConfirmedStep ==
    ASSUME Inv, AbortConfirmed
    PROVE  Inv'
<1>1. run.session \in 1 .. MaxSessions
  BY Ready DEF RunSnapshot
<1>2. QueueKept /\ run.session \in stopped'
  BY <1>1, Ready DEF AbortConfirmed, QueueKept, DaemonTypeOK, TypeOK
<1>3. RestTypeOK' /\ line # <<>> /\ swapped' # "alone"
  BY Ready DEF AbortConfirmed, RestTypeOK
<1>4. PICK q : q = [Dropped(run) EXCEPT !.status = "aborted", !.tail = "other"]
  OBVIOUS
<1>5. Released(q)
  BY <1>4 DEF AbortConfirmed
<1>6. Form(q, run, "aborted", "other")
  BY <1>4, EndForm DEF Settled
<1> QED BY <1>2, <1>3, <1>5, <1>6, Concludes DEF Form, KeepsOrQuiet

LEMMA AbortFailsStep ==
    ASSUME Inv, AbortFails
    PROVE  Inv'
<1>1. run.session \in 1 .. MaxSessions
  BY Ready DEF RunSnapshot
<1>2. QueueKept
  BY <1>1, Ready DEF AbortFails, QueueKept, DaemonTypeOK, TypeOK
<1>3. RestTypeOK' /\ line # <<>> /\ swapped' # "alone" /\ Released(run)
  BY Ready DEF AbortFails, RestTypeOK
<1> QED BY <1>2, <1>3, Ready, Concludes DEF KeepsOrQuiet

LEMMA InterruptedForm ==
    ASSUME NEW r \in RunSnapshot, Fits(r)
    PROVE  /\ Interrupted(r) \in RunSnapshot /\ Fits(Interrupted(r))
           /\ Interrupted(r).session = r.session /\ Interrupted(r).pending = r.pending
           /\ r.status \notin {"running", "paused"} => Interrupted(r) = r
<1>1. CASE r.status = "running" \/ (r.status = "paused" /\ r.tail # "interrupted")
  <2>1. PICK q : q = [r EXCEPT !.status = "paused", !.tail = "interrupted", !.gap = TRUE]
    OBVIOUS
  <2>2. Interrupted(r) = q
    BY <1>1, <2>1 DEF Interrupted
  <2>3. q \in RunSnapshot
    BY <2>1 DEF RunSnapshot, Statuses
  <2>4. /\ q.status = "paused" /\ q.session = r.session
        /\ q.pending = r.pending /\ q.hold = r.hold /\ q.next = r.next
    BY <2>1 DEF RunSnapshot
  <2> QED BY <1>1, <2>2, <2>3, <2>4 DEF Fits, Settled
<1>2. CASE ~(r.status = "running" \/ (r.status = "paused" /\ r.tail # "interrupted"))
  BY <1>2 DEF Interrupted
<1> QED BY <1>1, <1>2

LEMMA RestartStep ==
    ASSUME Inv, Restart
    PROVE  Inv'
<1>1. QueueKept
  BY Calm DEF Restart
<1>2. HolderTypeOK'
  BY Emptied, Sliceless, Unchecked DEF HolderTypeOK, Restart, Forgotten
<1>3. Resting
  BY <1>2 DEF Resting, Restart, Forgotten
<1>4. /\ run' \in RunSnapshot /\ Fits(run)' /\ run'.session = run.session
      /\ KeepsOrQuiet(run'.pending)
  <2>1. run' = Interrupted(run)
    BY DEF Restart
  <2>2. run' \in RunSnapshot /\ Fits(run') /\ run'.session = run.session /\ run'.pending = run.pending
    BY <2>1, Ready, InterruptedForm
  <2> QED BY <2>2 DEF Fits, KeepsOrQuiet
<1>5. Noted'
  BY <1>3, Ready, InterruptedForm DEF Inv, Noted, Restart, Resting
<1>6. RestTypeOK'
  BY Ready, Counted DEF RestTypeOK, Restart
<1> QED BY <1>1, <1>2, <1>3, <1>4, <1>5, <1>6, RestPlaced, Moves

-----------------------------------------------------------------------------
(* continue_run, planning and control.                                     *)

(* The holder goes on from its lock with a run that is running.            *)
LEMMA Enters ==
    ASSUME Inv, line # <<>>, QueueKept, RestTypeOK', NEW q, Form(q, run, "running", "other"),
           run' = q, ~run.gap, KeepsOrQuiet(q.pending),
           pc' = "loop", UNCHANGED <<line, op>>, Forgotten, swapped' # "alone"
    PROVE  Inv'
<1>1. HolderTypeOK'
  BY Ready, Sliceless, Unchecked DEF HolderTypeOK, Forgotten
<1>2. Placed'
  BY DEF Placed, Thinking, Acting, Forgotten, Form, Settled
<1>3. Noted' /\ Fits(run)' /\ run' \in RunSnapshot /\ run'.session = run.session
  BY DEF Noted, Form, Fits
<1> QED BY <1>1, <1>2, <1>3, Moves

LEMMA ContinueStep ==
    ASSUME Inv, Continue
    PROVE  Inv'
<1>1. QueueKept /\ line # <<>> /\ swapped' = swapped /\ disturbed' = disturbed /\ prefetch' = FALSE
  BY Calm DEF Continue, Holds
<1>2. CASE /\ run.gap /\ Goes("reopen") /\ Forgotten /\ UNCHANGED <<run, excused>>
  <2>1. HolderTypeOK'
    BY <1>2, Ready, Sliceless, Unchecked DEF HolderTypeOK, Forgotten, Goes
  <2>4. RestTypeOK'
    BY <1>1, <1>2, Ready DEF RestTypeOK
  <2>2. Placed'
    BY <1>1, <1>2 DEF Placed, Thinking, Acting, Forgotten, Goes
  <2>3. Noted' /\ Fits(run)' /\ run' \in RunSnapshot /\ KeepsOrQuiet(run'.pending)
    BY <1>1, <1>2, Ready DEF Inv, Noted, Fits, KeepsOrQuiet
  <2> QED BY <1>1, <1>2, <2>1, <2>2, <2>3, <2>4, Moves
<1>3. CASE Released(run) /\ UNCHANGED excused
  <2>1. RestTypeOK' /\ KeepsOrQuiet(run.pending)
    BY <1>1, <1>3, Ready DEF RestTypeOK, KeepsOrQuiet
  <2> QED BY <1>1, <1>3, <2>1, Ready, Concludes DEF Inv, Noted
<1>4. CASE /\ ~run.gap /\ run.status \in {"running", "paused"}
           /\ run' = [run EXCEPT !.status = "running", !.tail = "other"]
           /\ Goes("loop") /\ Forgotten /\ UNCHANGED excused
  <2>1. Form(run', run, "running", "other") /\ Holding(run', run)
    BY <1>4, Ready, StatusForm DEF Statuses, Settled
  <2>2. RestTypeOK' /\ KeepsOrQuiet(run'.pending) /\ swapped' # "alone"
    BY <1>1, <1>4, <2>1, Ready DEF RestTypeOK, KeepsOrQuiet, Holding, Inv, Noted
  <2> QED BY <1>1, <1>4, <2>1, <2>2, Enters DEF Goes
<1>5. CASE /\ ~run.gap
           /\ \/ run.status = "blocked" /\ run.tail # "identity"
              \/ run.status = "failed" /\ run.disagreed
           /\ run' = [Unplanned(run) EXCEPT !.status = "running", !.tail = "other"]
           /\ excused' = (excused \/ run.status = "failed")
           /\ Goes("loop") /\ Forgotten
  <2>1. Form(Unplanned(run), run, run.status, run.tail) /\ Holding(Unplanned(run), run)
    BY Ready, UnplannedForm
  <2>5. "running" \in Statuses /\ "running" \notin Settled
    BY DEF Statuses, Settled
  <2>2. Form(run', Unplanned(run), "running", "other") /\ Holding(run', Unplanned(run))
    <3>1. Unplanned(run) \in RunSnapshot /\ Fits(Unplanned(run))
      BY <2>1 DEF Form
    <3>2. run' = [Unplanned(run) EXCEPT !.status = "running", !.tail = "other"]
      BY <1>5
    <3> QED BY <2>5, <3>1, <3>2, StatusForm
  <2>3. Form(run', run, "running", "other") /\ Holding(run', run)
    BY <2>1, <2>2 DEF Form, Holding
  <2>4. RestTypeOK' /\ KeepsOrQuiet(run'.pending) /\ swapped' # "alone"
    BY <1>1, <1>5, <2>3, Ready DEF RestTypeOK, KeepsOrQuiet, Holding, Inv, Noted
  <2> QED BY <1>1, <1>5, <2>3, <2>4, Enters DEF Goes
<1> QED BY <1>2, <1>3, <1>4, <1>5 DEF Continue

LEMMA Loaded ==
    ASSUME Inv, Load
    PROVE  /\ run' \in RunSnapshot /\ Fits(run') /\ (run'.gap => run.gap)
           /\ run'.status = run.status /\ run'.tail = run.tail /\ run'.session = run.session
           /\ run'.pending = run.pending /\ run'.next = run.next /\ run'.machine = run.machine
           /\ run'.unread \subseteq run.unread
           /\ draft' = draft \ (run.unread \ run'.unread) /\ draft' \subseteq Surfaces
<1>1. PICK unread \in SUBSET run.unread, navs \in 0 .. run.navs, gap \in {run.gap, FALSE} :
         /\ run' = [run EXCEPT !.unread = unread, !.navs = navs, !.gap = gap]
         /\ draft' = draft \ (run.unread \ unread)
  BY DEF Load
<1>2. navs \in 0 .. MaxNav /\ unread \in SUBSET Surfaces /\ gap \in BOOLEAN
  <2>1. run.navs \in 0 .. MaxNav /\ run.unread \in SUBSET Surfaces /\ run.gap \in BOOLEAN
    BY Ready DEF RunSnapshot
  <2>2. navs \in 0 .. MaxNav
    BY <1>1, <2>1, HarnessConstants
  <2>3. unread \in SUBSET Surfaces
    BY <1>1, <2>1
  <2>4. gap \in BOOLEAN
    BY <1>1, <2>1, Zenon
  <2> QED BY <2>2, <2>3, <2>4
<1>3. run' \in RunSnapshot
  BY <1>1, <1>2, Ready DEF RunSnapshot
<1>4. /\ run'.status = run.status /\ run'.tail = run.tail /\ run'.session = run.session
      /\ run'.pending = run.pending /\ run'.hold = run.hold /\ run'.next = run.next
      /\ run'.gap = gap /\ run'.unread = unread /\ run'.machine = run.machine
  BY <1>1, Ready DEF RunSnapshot
<1>5. run'.gap => run.gap
  BY <1>4, Zenon
<1>6. Fits(run')
  BY <1>4, <1>5, Ready DEF Fits
<1> QED BY <1>1, <1>3, <1>4, <1>5, <1>6, Ready DEF TypeOK

LEMMA LoadStep ==
    ASSUME Inv, Load
    PROVE  Inv'
<1>2. /\ run' \in RunSnapshot /\ Fits(run') /\ (run'.gap => run.gap)
      /\ run'.status = run.status /\ run'.tail = run.tail /\ run'.session = run.session
      /\ run'.pending = run.pending /\ draft' \subseteq Surfaces
  BY Loaded
<1>3. pc = "idle" /\ UNCHANGED <<line, op, holderVars, prefetch, job, stopped, opened, target, disturbed,
                                excused, swapped>>
  BY DEF Load
<1>4. QueueKept
  BY <1>2, <1>3, Ready, Unmoved
<1>5. HolderTypeOK' /\ RestTypeOK'
  BY <1>3, Ready DEF HolderTypeOK, RestTypeOK, holderVars
<1>6. Placed'
  BY <1>2, <1>3 DEF Inv, Placed, Phase, holderVars, Thinking, Acting
<1>7. Noted'
  BY <1>2, <1>3 DEF Inv, Noted, holderVars
<1>8. KeepsOrQuiet(run'.pending) /\ Fits(run)'
  BY <1>2 DEF KeepsOrQuiet, Fits
<1> QED BY <1>2, <1>4, <1>5, <1>6, <1>7, <1>8, Moves


(* Nothing was ever sent in the session just opened.                       *)
LEMMA FreshSession ==
    ASSUME TypeOK, Owned, opened < MaxSessions, opened' = opened + 1,
           UNCHANGED <<job, stopped>>, run'.session = opened'
    PROVE  Owned' /\ opened' \in 1 .. MaxSessions
<1>1. /\ opened \in 1 .. MaxSessions /\ MaxSessions \in Nat /\ opened' \in 1 .. MaxSessions
      /\ opened' > opened
  BY HarnessConstants DEF TypeOK
<1>2. run'.session <= opened'
  BY <1>1
<1>3. \A s \in 1 .. MaxSessions, k \in Key : s > opened => job[<<s, k>>] = "none"
  BY DEF Owned
<1>4. \A s \in 1 .. MaxSessions : s > opened' => s > opened
  BY <1>1
<1>5. \A s \in 1 .. MaxSessions, k \in Key : s > opened' => job'[<<s, k>>] = "none"
  BY <1>3, <1>4
<1>6. \A k \in Key : job'[<<run'.session, k>>] = "none"
  BY <1>1, <1>3
<1> QED BY <1>1, <1>2, <1>5, <1>6 DEF Owned

LEMMA ReopenedStep ==
    ASSUME Inv, Reopened
    PROVE  Inv'
<1>1. /\ opened < MaxSessions /\ opened' = opened + 1 /\ UNCHANGED <<job, stopped, target, draft>>
      /\ pc' = "loop" /\ UNCHANGED <<line, op, slice, check, ctl, prefetch, disturbed, swapped>>
      /\ excused' = (excused \/ run.pending # Nothing) /\ pc = "reopen"
      /\ run' = [Dropped(run) EXCEPT !.session = opened', !.disagreed = FALSE, !.gap = FALSE,
                                     !.status = "running", !.tail = "other", !.machine = target]
  BY DEF Reopened, Goes
<1>2. opened' \in 1 .. MaxSessions
  BY <1>1, HarnessConstants, Ready DEF TypeOK
<1>3. Dropped(run) \in RunSnapshot /\ Shed(Dropped(run))
  BY Ready, DroppedForm DEF Form
<1>4. run' \in RunSnapshot
  BY <1>1, <1>2, <1>3, Ready DEF RunSnapshot, Statuses
<1>5. /\ run'.session = opened' /\ run'.gap = FALSE /\ run'.status = "running"
      /\ run'.pending = Nothing /\ run'.hold = FALSE
  BY <1>1, <1>3 DEF RunSnapshot, Shed
<1>6. Owned'
  BY <1>1, <1>5, Ready, FreshSession DEF Inv
<1>7. DaemonTypeOK' /\ RestTypeOK' /\ HolderTypeOK'
  BY <1>1, <1>2, Ready DEF TypeOK, DaemonTypeOK, RestTypeOK, HolderTypeOK
<1>8. Fits(run)'
  BY <1>5 DEF Fits, Settled
<1>9. Placed' /\ Noted'
  BY <1>1, <1>5, Ready DEF Inv, Placed, Noted, Thinking, Acting, Settled
<1> QED BY <1>4, <1>6, <1>7, <1>8, <1>9, TypePartsNext DEF Inv

LEMMA ReopenFailsStep ==
    ASSUME Inv, ReopenFails
    PROVE  Inv'
<1>1. QueueKept /\ RestTypeOK' /\ line # <<>> /\ swapped' # "alone" /\ Released(Paused(run))
  BY Calm, Ready DEF ReopenFails, RestTypeOK
<1>2. Form(Paused(run), run, "paused", "other") /\ KeepsOrQuiet(Paused(run).pending)
  BY Ready, PausedForm DEF Holding, KeepsOrQuiet
<1> QED BY <1>1, <1>2, Concludes DEF Form

-----------------------------------------------------------------------------
(* Planning and control.                                                   *)

(* What the loop may count on.                                             *)
LEMMA InLoop ==
    ASSUME Inv, pc \in {"loop", "plan", "control", "replan"}
    PROVE  line # <<>> /\ ~run.gap /\ ctl = "off" /\ run.status \notin Settled /\ swapped # "alone"
BY DEF Inv, Placed, Noted

LEMMA ActionBound ==
    ASSUME Inv, run.next # MaxIndex
    PROVE  run.next < MaxIndex
BY HarnessConstants, Ready DEF RunSnapshot

LEMMA BudgetReachedStep ==
    ASSUME Inv, BudgetReached
    PROVE  Inv'
<1>1. /\ QueueKept /\ RestTypeOK' /\ line # <<>> /\ swapped' # "alone"
  BY Calm, Ready, InLoop DEF BudgetReached, RestTypeOK
<1>2. CASE Released(Yielded(run))
  <2>1. Form(Yielded(run), run, "paused", "yield") /\ KeepsOrQuiet(Yielded(run).pending)
    BY Ready, YieldedForm DEF Holding, KeepsOrQuiet
  <2> QED BY <1>1, <1>2, <2>1, Concludes DEF Form
<1>3. CASE Released([run EXCEPT !.status = "blocked", !.tail = "other"])
  <2>1. PICK q : q = [run EXCEPT !.status = "blocked", !.tail = "other"]
    OBVIOUS
  <2>2. Form(q, run, "blocked", "other") /\ Holding(q, run)
    BY <2>1, Ready, StatusForm DEF Statuses, TERMINAL_RUN_STATUSES, Settled
  <2>3. Released(q) /\ KeepsOrQuiet(q.pending)
    BY <1>3, <2>1, <2>2 DEF KeepsOrQuiet, Holding
  <2> QED BY <1>1, <2>2, <2>3, Concludes DEF Form
<1> QED BY <1>2, <1>3 DEF BudgetReached

LEMMA PlannedForm ==
    ASSUME Inv, NEW q, q = [run EXCEPT !.plan = TRUE]
    PROVE  Form(q, run, run.status, run.tail) /\ Holding(q, run)
<1>1. q \in RunSnapshot
  BY Ready DEF RunSnapshot
<1>2. /\ q.status = run.status /\ q.tail = run.tail /\ q.session = run.session
      /\ q.pending = run.pending /\ q.hold = run.hold /\ q.next = run.next
      /\ q.gap = run.gap /\ q.navs = run.navs
  BY Ready DEF RunSnapshot
<1> QED BY <1>1, <1>2, Ready DEF Form, Holding, Fits

(* A step of the loop that goes on to an await that needs no pending       *)
(* action, or back to the loop.                                            *)
LEMMA Steps ==
    ASSUME Inv, pc \in {"loop", "plan", "control"}, run.pending = Nothing, run.next < MaxIndex,
           QueueKept, RestTypeOK', swapped' = swapped,
           Form(run', run, run.status, run.tail), Holding(run', run),
           pc' \in {"loop", "plan", "control", "replan", "check"}, UNCHANGED <<line, op, ctl>>,
           slice' \in [acts : 0 .. PerAdvance, why : {"first", "nav", "unread", "long"}],
           check' \in [stage : {"off", "image", "asking", "delayed", "over"},
                  for : {"action", "done", "answer"}, moved : BOOLEAN,
                  verdict : {"none", "complete", "verified", "uncertain", "failed"}]
    PROVE  Inv'
<1>1. HolderTypeOK'
  BY Ready DEF HolderTypeOK
<1>2. Placed'
  BY InLoop DEF Placed, Thinking, Acting, Form, Holding
<1>3. Noted' /\ Fits(run)' /\ run' \in RunSnapshot /\ run'.session = run.session /\ KeepsOrQuiet(run'.pending)
  BY InLoop DEF Noted, Form, Holding, Fits, KeepsOrQuiet
<1> QED BY <1>1, <1>2, <1>3, Moves

LEMMA Same ==
    ASSUME Inv, run' = run
    PROVE  Form(run', run, run.status, run.tail) /\ Holding(run', run)
BY Ready DEF Form, Holding

LEMMA ObserveOnlyStep ==
    ASSUME Inv, ObserveOnly
    PROVE  Inv'
<1>1. /\ QueueKept /\ RestTypeOK' /\ swapped' = swapped /\ pc = "loop" /\ run.pending = Nothing
      /\ run.next < MaxIndex /\ pc' = "check" /\ UNCHANGED <<line, op, ctl, slice>>
  BY Calm, Ready DEF ObserveOnly, MayAct, RestTypeOK, Goes
<1>2. Form(run', run, run.status, run.tail) /\ Holding(run', run)
  BY PlannedForm DEF ObserveOnly
<1>3. check' \in [stage : {"off", "image", "asking", "delayed", "over"},
                  for : {"action", "done", "answer"}, moved : BOOLEAN,
                  verdict : {"none", "complete", "verified", "uncertain", "failed"}]
  BY DEF ObserveOnly, NoCheck
<1>4. slice' \in [acts : 0 .. PerAdvance, why : {"first", "nav", "unread", "long"}]
  BY <1>1, Ready DEF HolderTypeOK
<1> QED BY <1>1, <1>2, <1>3, <1>4, Steps

LEMMA FastPathStep ==
    ASSUME Inv, FastPath
    PROVE  Inv'
<1>1. /\ QueueKept /\ RestTypeOK' /\ swapped' = swapped /\ pc = "loop" /\ run.pending = Nothing
      /\ run.next < MaxIndex /\ pc' = "loop" /\ UNCHANGED <<line, op, ctl, slice>> /\ check' = NoCheck
  BY Calm, Ready DEF FastPath, MayAct, RestTypeOK
<1>2. Form(run', run, run.status, run.tail) /\ Holding(run', run)
  BY PlannedForm DEF FastPath
<1>3. slice' \in [acts : 0 .. PerAdvance, why : {"first", "nav", "unread", "long"}]
  BY <1>1, Ready DEF HolderTypeOK
<1> QED BY <1>1, <1>2, <1>3, Unchecked, Steps

LEMMA AskStep ==
    ASSUME Inv, AskPlan \/ AskControl
    PROVE  Inv'
<1>1. /\ QueueKept /\ RestTypeOK' /\ swapped' = swapped /\ pc = "loop" /\ run.pending = Nothing
      /\ run.next < MaxIndex /\ pc' \in {"plan", "control"}
      /\ UNCHANGED <<line, op, ctl, slice, check, run>>
  BY Calm, Ready DEF AskPlan, AskControl, MayAct, RestTypeOK, Goes
<1>2. Form(run', run, run.status, run.tail) /\ Holding(run', run)
  BY <1>1, Same
<1> QED BY <1>1, <1>2, Ready, Steps DEF HolderTypeOK

LEMMA PlanAnsweredStep ==
    ASSUME Inv, PlanAnswered
    PROVE  Inv'
<1>1. /\ QueueKept /\ RestTypeOK' /\ swapped' = swapped /\ pc = "plan" /\ run.pending = Nothing
      /\ run.next < MaxIndex /\ pc' = "loop" /\ UNCHANGED <<line, op, ctl, slice, check>>
  BY Calm, Ready DEF PlanAnswered, RestTypeOK, Goes, Inv, Placed, Thinking
<1>2. Form(run', run, run.status, run.tail) /\ Holding(run', run)
  BY PlannedForm DEF PlanAnswered
<1> QED BY <1>1, <1>2, Ready, Steps DEF HolderTypeOK

(* The slice ends, leaving the run paused or blocked, planned or not.      *)
LEMMA Stops ==
    ASSUME Inv, pc # "idle", QueueKept, RestTypeOK', swapped' = swapped,
           \/ Released(Paused(run)) \/ Released(Paused(Unplanned(run))) \/ Released(Blocked(run))
           \/ Released([run EXCEPT !.status = "blocked", !.tail = "other"])
    PROVE  Inv'
<1>1. line # <<>> /\ swapped' # "alone"
  BY Ready
<1>2. CASE Released(Paused(run))
  <2>1. Form(Paused(run), run, "paused", "other") /\ KeepsOrQuiet(Paused(run).pending)
    BY Ready, PausedForm DEF Holding, KeepsOrQuiet
  <2> QED BY <1>1, <1>2, <2>1, Concludes DEF Form
<1>3. CASE Released(Paused(Unplanned(run)))
  <2>1. Form(Unplanned(run), run, run.status, run.tail) /\ Holding(Unplanned(run), run)
    BY Ready, UnplannedForm
  <2>2. /\ Form(Paused(Unplanned(run)), run, "paused", "other")
        /\ KeepsOrQuiet(Paused(Unplanned(run)).pending)
    BY <2>1, PausedForm DEF Form, Holding, KeepsOrQuiet
  <2> QED BY <1>1, <1>3, <2>2, Concludes DEF Form
<1>4. CASE Released(Blocked(run))
  <2>1. Form(Blocked(run), run, "blocked", "other") /\ KeepsOrQuiet(Blocked(run).pending)
    BY Ready, BlockedForm DEF Holding, KeepsOrQuiet
  <2> QED BY <1>1, <1>4, <2>1, Concludes DEF Form
<1>5. CASE Released([run EXCEPT !.status = "blocked", !.tail = "other"])
  <2>1. PICK q : q = [run EXCEPT !.status = "blocked", !.tail = "other"]
    OBVIOUS
  <2>2. Form(q, run, "blocked", "other") /\ Holding(q, run)
    BY <2>1, Ready, StatusForm DEF Statuses, TERMINAL_RUN_STATUSES, Settled
  <2>3. Released(q) /\ KeepsOrQuiet(q.pending)
    BY <1>5, <2>1, <2>2 DEF KeepsOrQuiet, Holding
  <2> QED BY <1>1, <2>2, <2>3, Concludes DEF Form
<1> QED BY <1>2, <1>3, <1>4, <1>5

LEMMA ModelFailsStep ==
    ASSUME Inv, ModelFails
    PROVE  Inv'
BY Calm, Ready, Stops DEF ModelFails, RestTypeOK

LEMMA ReplannedStep ==
    ASSUME Inv, Replanned
    PROVE  Inv'
<1>1. QueueKept /\ RestTypeOK' /\ line # <<>> /\ swapped' # "alone"
  BY Calm, Ready DEF Replanned, RestTypeOK
<1>2. PICK m \in {run.machine, target} : Released([Paused(Unplanned(run)) EXCEPT !.machine = m])
  BY DEF Replanned
<1>3. m \in {1, 2}
  BY Ready DEF RunSnapshot
<1>4. PICK p : p = Paused(Unplanned(run))
  OBVIOUS
<1>5. Form(Unplanned(run), run, run.status, run.tail) /\ Holding(Unplanned(run), run)
  BY Ready, UnplannedForm
<1>6. Form(p, run, "paused", "other") /\ Holding(p, run)
  BY <1>4, <1>5, PausedForm DEF Form, Holding
<1>7. PICK q : q = [p EXCEPT !.machine = m]
  OBVIOUS
<1>8. q \in RunSnapshot
  BY <1>3, <1>6, <1>7 DEF Form, RunSnapshot
<1>9. /\ q.status = p.status /\ q.session = p.session /\ q.pending = p.pending
      /\ q.hold = p.hold /\ q.next = p.next /\ q.gap = p.gap
  BY <1>6, <1>7 DEF Form, RunSnapshot
<1>10. Fits(q) /\ q.session = run.session /\ KeepsOrQuiet(q.pending)
  BY <1>6, <1>9 DEF Form, Holding, Fits, KeepsOrQuiet
<1> QED BY <1>1, <1>2, <1>4, <1>7, <1>8, <1>10, Concludes

(* A new pending action is the next one.                                   *)
LEMMA ProposedForm ==
    ASSUME Inv, run.pending = Nothing, run.next < MaxIndex, run.status \notin Settled, NEW d \in Contents,
           NEW q, q = [run EXCEPT !.pending = [index |-> run.next, act |-> d]]
    PROVE  /\ q \in RunSnapshot /\ Fits(q) /\ q.pending # Nothing
           /\ q.session = run.session /\ q.gap = run.gap /\ q.status = run.status
<1>1. [index |-> run.next, act |-> d] \in Key
  BY Ready DEF RunSnapshot, Key
<1>2. q \in RunSnapshot
  BY <1>1, Ready DEF RunSnapshot
<1>3. /\ q.status = run.status /\ q.session = run.session
      /\ q.pending = [index |-> run.next, act |-> d] /\ q.hold = run.hold /\ q.next = run.next
      /\ q.gap = run.gap
  BY Ready DEF RunSnapshot
<1>4. run.hold = FALSE
  BY Ready DEF Fits, RunSnapshot
<1> QED BY <1>1, <1>2, <1>3, <1>4, KeyForm, Ready DEF Fits

LEMMA ConsideredStep ==
    ASSUME Inv, pc \in {"loop", "control"}, run.pending = Nothing, run.next < MaxIndex,
           NEW why \in {"first", "nav", "unread", "long"}, NEW d \in Decisions, Considered(why, d),
           prefetch' \in BOOLEAN, UNCHANGED <<daemonVars, disturbed, swapped>>
    PROVE  Inv'
<1>1. excused' \in BOOLEAN
  BY Ready DEF Considered, RestTypeOK
<1>2. RestTypeOK'
  BY <1>1, Ready DEF RestTypeOK
<1>3. QueueKept
  BY Calm
<1>4. CASE \/ Released(Paused(run)) \/ Released(Paused(Unplanned(run))) \/ Released(Blocked(run))
           \/ Released([run EXCEPT !.status = "blocked", !.tail = "other"])
  BY <1>2, <1>3, <1>4, Stops
<1>5. CASE \E turn \in {"nav", "unread", "long"} :
              slice' = [slice EXCEPT !.why = turn] /\ Goes("control") /\ UNCHANGED <<run, check, ctl>>
  <2>1. slice' \in [acts : 0 .. PerAdvance, why : {"first", "nav", "unread", "long"}]
    BY <1>5, Ready DEF HolderTypeOK
  <2>2. Form(run', run, run.status, run.tail) /\ Holding(run', run)
    BY <1>5, Same
  <2> QED BY <1>2, <1>3, <1>5, <2>1, <2>2, Ready, Steps DEF Goes, HolderTypeOK
<1>6. CASE Goes("replan") /\ UNCHANGED <<run, slice, check, ctl>>
  <2>1. Form(run', run, run.status, run.tail) /\ Holding(run', run)
    BY <1>6, Same
  <2> QED BY <1>2, <1>3, <1>6, <2>1, Ready, Steps DEF Goes, HolderTypeOK
<1>7. CASE /\ \E stage \in {"image", "asking"} : check' = [NoCheck EXCEPT !.stage = stage, !.for = "done"]
           /\ Goes("check") /\ UNCHANGED <<run, slice, ctl>>
  <2>1. Form(run', run, run.status, run.tail) /\ Holding(run', run)
    BY <1>7, Same
  <2>2. check' \in [stage : {"off", "image", "asking", "delayed", "over"},
                    for : {"action", "done", "answer"}, moved : BOOLEAN,
                    verdict : {"none", "complete", "verified", "uncertain", "failed"}]
    BY <1>7 DEF NoCheck
  <2> QED BY <1>2, <1>3, <1>7, <2>1, <2>2, Ready, Steps DEF Goes, HolderTypeOK
<1>8. CASE /\ d \in Contents
           /\ run' = [run EXCEPT !.pending = [index |-> run.next, act |-> d]]
           /\ slice' = [slice EXCEPT !.why = "first"]
           /\ Goes("loop") /\ UNCHANGED <<check, ctl>>
  <2>1. /\ run' \in RunSnapshot /\ Fits(run') /\ run'.pending # Nothing
        /\ run'.session = run.session /\ run'.gap = run.gap /\ run'.status = run.status
    BY <1>8, InLoop, ProposedForm
  <2>2. HolderTypeOK'
    BY <1>8, Ready DEF HolderTypeOK, Goes
  <2>3. Placed'
    BY <1>8, <2>1, InLoop DEF Placed, Thinking, Acting, Goes
  <2>4. Noted' /\ Fits(run)' /\ KeepsOrQuiet(run'.pending)
    BY <2>1, InLoop DEF Noted, Fits, KeepsOrQuiet
  <2> QED BY <1>2, <1>3, <2>1, <2>2, <2>3, <2>4, Moves
<1> QED BY <1>4, <1>5, <1>6, <1>7, <1>8 DEF Considered, Corrected, Proposed

LEMMA ControlAnsweredStep ==
    ASSUME Inv, ControlAnswered
    PROVE  Inv'
<1>1. pc = "control" /\ run.pending = Nothing /\ run.next < MaxIndex
  BY DEF ControlAnswered, Inv, Placed, Thinking
<1>2. slice.why \in {"first", "nav", "unread", "long"} /\ prefetch' \in BOOLEAN
  BY Ready DEF HolderTypeOK, RestTypeOK, ControlAnswered
<1> QED BY <1>1, <1>2, ConsideredStep DEF ControlAnswered

LEMMA AdoptStep ==
    ASSUME Inv, Adopt
    PROVE  Inv'
BY ConsideredStep DEF Adopt, MayAct

-----------------------------------------------------------------------------
(* Execution.                                                              *)

(* What the holder may count on while an action is with the daemon.        *)
LEMMA InAction ==
    ASSUME Inv, pc \in Acting
    PROVE  /\ line # <<>> /\ ~run.gap /\ ctl = "off" /\ swapped # "alone" /\ run.pending # Nothing
           /\ run.session \in 1 .. MaxSessions /\ run.pending \in Key
           /\ Phase \in InFlight \cup Ended \cup {"none", "refused"}
           /\ run.status \in Statuses
<1>1. /\ line # <<>> /\ ~run.gap /\ ctl = "off" /\ swapped # "alone" /\ run.pending # Nothing
  BY DEF Inv, Placed, Noted, Acting
<1>2. run.session \in 1 .. MaxSessions /\ run.pending \in Key /\ run.status \in Statuses
  BY <1>1, Ready DEF RunSnapshot
<1>3. Phase \in InFlight \cup Ended \cup {"none", "refused"}
  BY <1>2, Ready DEF TypeOK, Phase
<1> QED BY <1>1, <1>2, <1>3

LEMMA AttemptStep ==
    ASSUME Inv, Attempt
    PROVE  Inv'
<1>1. /\ QueueKept /\ RestTypeOK' /\ pc = "loop" /\ run.pending # Nothing /\ pc' = "send"
      /\ UNCHANGED <<run, line, op, check, ctl, swapped>>
  BY Calm, Ready DEF Attempt, MayAct, RestTypeOK, Goes
<1>2. slice' \in [acts : 0 .. PerAdvance, why : {"first", "nav", "unread", "long"}]
  <2>1. slice.acts \in 0 .. PerAdvance /\ slice.acts < PerAdvance
    BY Ready DEF HolderTypeOK, Attempt, MayAct
  <2>2. slice.acts + 1 \in 0 .. PerAdvance
    BY <2>1, HarnessConstants
  <2> QED BY <2>2, Ready DEF Attempt, HolderTypeOK
<1>3. HolderTypeOK'
  BY <1>1, <1>2, Ready DEF HolderTypeOK
<1>4. Placed'
  BY <1>1, InLoop DEF Placed, Thinking, Acting
<1>5. Noted' /\ Fits(run)' /\ KeepsOrQuiet(run'.pending) /\ run' \in RunSnapshot
  BY <1>1, InLoop, Ready DEF Noted, Fits, KeepsOrQuiet
<1> QED BY <1>1, <1>3, <1>4, <1>5, Moves

(* A step between the awaits of one action.                                *)
LEMMA Turns ==
    ASSUME Inv, pc \in Acting, pc' \in Acting, QueueKept, RestTypeOK',
           UNCHANGED <<run, line, op, slice, check, ctl, swapped>>,
           pc' = "renav" => Phase' = "none" /\ run.navs < MaxNav,
           pc' = "freshen" => Phase' = "refused",
           pc' = "quit" => Phase' \in Ended \cup {"refused"}
    PROVE  Inv'
<1>1. HolderTypeOK'
  BY Ready DEF HolderTypeOK, Acting
<1>2. Placed'
  BY InAction DEF Placed, Thinking, Acting
<1>3. Noted' /\ Fits(run)' /\ KeepsOrQuiet(run'.pending) /\ run' \in RunSnapshot
  BY InAction, Ready DEF Noted, Fits, KeepsOrQuiet
<1> QED BY <1>1, <1>2, <1>3, Moves

LEMMA SendStep ==
    ASSUME Inv, Send
    PROVE  Inv'
<1>1. pc \in Acting /\ pc' = "burst" /\ UNCHANGED <<run, line, op, slice, check, ctl, swapped>>
  BY DEF Send, Acting, Goes
<1>2. PICK phase \in InFlight \cup Ended \cup {"none", "refused"} :
         job' = [job EXCEPT ![<<run.session, run.pending>>] = phase]
  BY <1>1, InAction DEF Send, Phase, InFlight
<1>3. QueueKept
  BY <1>1, <1>2, InAction, Ready, Turned DEF Send, TypeOK
<1>4. RestTypeOK'
  BY Ready DEF Send, RestTypeOK
<1> QED BY <1>1, <1>3, <1>4, Turns DEF Acting

LEMMA TransportFailsStep ==
    ASSUME Inv, TransportFails
    PROVE  Inv'
BY Calm, Ready, Stops DEF TransportFails, RestTypeOK

(* An answer has been read: nothing is under way for the action.           *)
LEMMA Read ==
    ASSUME Inv, pc \in Acting, AnswerRead, UNCHANGED <<stopped, opened, target>>, draft' \subseteq Surfaces
    PROVE  QueueKept /\ job'[<<run.session, run.pending>>] = "none"
BY InAction, Ready, Turned DEF AnswerRead

LEMMA AnsweredFacts ==
    ASSUME Inv, Answered
    PROVE  pc \in Acting /\ Phase \in Ended \cup {"held", "refused"}
BY DEF Answered, Acting

LEMMA NoticedType ==
    ASSUME Inv, Noticed
    PROVE  swapped' \in {"no", "alone", "overlapped"}
BY Ready DEF Noticed, RestTypeOK

LEMMA DroppedIdentity ==
    ASSUME Inv
    PROVE  /\ Form(IdentityChanged(Dropped(run)), run, "blocked", "identity")
           /\ Shed(IdentityChanged(Dropped(run)))
<1>1. Form(Dropped(run), run, run.status, run.tail) /\ Shed(Dropped(run))
  BY Ready, DroppedForm
<1>2. /\ Form(IdentityChanged(Dropped(run)), Dropped(run), "blocked", "identity")
      /\ Holding(IdentityChanged(Dropped(run)), Dropped(run))
  BY <1>1, Ready, IdentityForm DEF Form
<1> QED BY <1>1, <1>2 DEF Form, Holding, Shed

LEMMA AcceptOtherStep ==
    ASSUME Inv, AcceptOther
    PROVE  Inv'
<1>1. pc \in Acting /\ job'[<<run.session, run.pending>>] \notin {"asked", "granted"}
  BY AnsweredFacts DEF AcceptOther, Phase, daemonVars, Ended
<1>2. QueueKept /\ line # <<>> /\ ~run.gap
  BY <1>1, Calm, InAction DEF AcceptOther
<1>3. RestTypeOK'
  BY NoticedType, Ready DEF AcceptOther, RestTypeOK
<1>4. Released(IdentityChanged(Dropped(run)))
  BY DEF AcceptOther
<1> QED BY <1>1, <1>2, <1>3, <1>4, DroppedIdentity, Concludes DEF Form, KeepsOrQuiet

(* The daemon asks the operator: the action stays, under its hold.         *)
LEMMA HeldForm ==
    ASSUME Inv, run.pending # Nothing, ~run.gap, NEW q,
           q = [run EXCEPT !.hold = TRUE, !.status = "needs_approval", !.tail = "other"]
    PROVE  Form(q, run, "needs_approval", "other") /\ q.pending = run.pending
<1>1. q \in RunSnapshot
  BY Ready DEF RunSnapshot, Statuses
<1>2. /\ q.status = "needs_approval" /\ q.tail = "other" /\ q.session = run.session
      /\ q.pending = run.pending /\ q.next = run.next /\ q.gap = run.gap /\ q.navs = run.navs
  BY Ready DEF RunSnapshot
<1> QED BY <1>1, <1>2, Ready DEF Form, Fits, Settled

LEMMA AcceptHeldStep ==
    ASSUME Inv, AcceptHeld
    PROVE  Inv'
<1>1. pc \in Acting /\ QueueKept /\ RestTypeOK' /\ swapped' = swapped
  BY AnsweredFacts, Calm, Ready DEF AcceptHeld, RestTypeOK
<1>2. CASE Goes("dismiss") /\ UNCHANGED <<run, slice, check, ctl>>
  BY <1>1, <1>2, Turns DEF Goes, Acting
<1>3. CASE AfterAction([run EXCEPT !.hold = TRUE, !.status = "needs_approval", !.tail = "other"])
  <2>1. PICK q : q = [run EXCEPT !.hold = TRUE, !.status = "needs_approval", !.tail = "other"]
    OBVIOUS
  <2>2. Form(q, run, "needs_approval", "other") /\ KeepsOrQuiet(q.pending)
    BY <1>1, <2>1, InAction, HeldForm DEF KeepsOrQuiet
  <2>3. AfterAction(q) /\ ~q.gap
    BY <1>1, <1>3, <2>1, <2>2, InAction DEF Form
  <2> QED BY <1>1, <2>2, <2>3, InAction, Concludes DEF Form
<1> QED BY <1>2, <1>3 DEF AcceptHeld

LEMMA AcceptRefusedStep ==
    ASSUME Inv, AcceptRefused
    PROVE  Inv'
<1>1. /\ pc \in Acting /\ QueueKept /\ RestTypeOK'
      /\ UNCHANGED <<run, line, op, slice, check, ctl, swapped>> /\ pc' = "freshen"
  BY AnsweredFacts, Calm, Ready DEF AcceptRefused, RestTypeOK, Goes
<1>2. Phase' = "refused"
  BY <1>1 DEF AcceptRefused, Phase, daemonVars
<1> QED BY <1>1, <1>2, Turns DEF Acting

(* The common end of an answered action: q is saved, its action gone, and  *)
(* the daemon has nothing of it left.                                      *)
LEMMA Accepts ==
    ASSUME Inv, pc \in Acting, QueueKept, RestTypeOK', swapped' = swapped,
           job'[<<run.session, run.pending>>] \notin {"asked", "granted"},
           NEW q \in RunSnapshot, Fits(q), q.session = run.session, q.gap = run.gap, AfterAction(q)
    PROVE  Inv'
BY InAction, Concludes DEF KeepsOrQuiet

LEMMA AcceptUnreadStep ==
    ASSUME Inv, AcceptUnread
    PROVE  Inv'
<1>1. pc \in Acting /\ RestTypeOK' /\ swapped' = swapped
  BY AnsweredFacts, Ready DEF AcceptUnread, RestTypeOK
<1>3. PICK plan \in {FALSE, run.plan}, attested \in {{}, Types(run.pending.act)} :
         /\ AfterAction([Paused(Advanced(run)) EXCEPT
                            !.plan = plan, !.unread = @ \cup attested])
         /\ draft' = draft \ (Types(run.pending.act) \ (run.unread \cup attested))
  BY DEF AcceptUnread
<1>12. draft' \subseteq Surfaces
  BY <1>3, Ready DEF TypeOK
<1>2. QueueKept /\ job'[<<run.session, run.pending>>] \notin {"asked", "granted"}
  BY <1>1, <1>12, Read DEF AcceptUnread
<1>4. Form(Advanced(run), run, run.status, run.tail) /\ Shed(Advanced(run))
  BY <1>1, InAction, Ready, AdvancedForm
<1>5. PICK p : p = Paused(Advanced(run))
  OBVIOUS
<1>6. Form(p, run, "paused", "other") /\ Shed(p)
  BY <1>4, <1>5, PausedForm DEF Form, Holding, Shed
<1>7. PICK q : q = [p EXCEPT !.plan = plan, !.unread = @ \cup attested]
  OBVIOUS
<1>8. q \in RunSnapshot
  BY <1>6, <1>7, Ready DEF Form, RunSnapshot, Types
<1>9. /\ q.status = p.status /\ q.session = p.session /\ q.pending = p.pending
      /\ q.hold = p.hold /\ q.gap = p.gap
  BY <1>6, <1>7 DEF Form, RunSnapshot
<1>10. Fits(q) /\ q.session = run.session /\ q.gap = run.gap
  BY <1>6, <1>9 DEF Form, Shed, Fits
<1>11. AfterAction(q)
  BY <1>3, <1>5, <1>7
<1> QED BY <1>1, <1>2, <1>8, <1>10, <1>11, Accepts

LEMMA AcceptFailedStep ==
    ASSUME Inv, AcceptFailed
    PROVE  Inv'
<1>1. pc \in Acting /\ QueueKept /\ RestTypeOK' /\ swapped' = swapped
  BY AnsweredFacts, Calm, Ready DEF AcceptFailed, RestTypeOK
<1>2. job'[<<run.session, run.pending>>] \notin {"asked", "granted"}
  BY DEF AcceptFailed, Phase, daemonVars
<1>3. PICK q : q = [Dropped(run) EXCEPT !.status = "failed", !.tail = "other"]
  OBVIOUS
<1>4. Form(Dropped(run), run, run.status, run.tail) /\ Shed(Dropped(run))
  BY Ready, DroppedForm
<1>5. "failed" \in Statuses /\ "failed" \notin Settled
  BY DEF Statuses, TERMINAL_RUN_STATUSES, Settled
<1>6. Dropped(run) \in RunSnapshot /\ Fits(Dropped(run))
  BY <1>4 DEF Form
<1>7. Form(q, Dropped(run), "failed", "other")
  BY <1>3, <1>5, <1>6, StatusForm
<1>8. q \in RunSnapshot /\ Fits(q) /\ q.session = run.session /\ q.gap = run.gap
  BY <1>4, <1>7 DEF Form
<1> QED BY <1>1, <1>2, <1>3, <1>8, Accepts DEF AcceptFailed

LEMMA CompletedForm ==
    ASSUME Inv, run.pending # Nothing, NEW r,
           r = [Advanced(run) EXCEPT !.status = "running", !.tail = "other",
                                     !.unread = @ \ Clears(run.pending.act)]
    PROVE  Form(r, run, "running", "other") /\ Shed(r)
<1>1. PICK a : a = Advanced(run)
  OBVIOUS
<1>2. Form(a, run, run.status, run.tail) /\ Shed(a)
  BY <1>1, Ready, AdvancedForm
<1>3. r = [a EXCEPT !.status = "running", !.tail = "other", !.unread = @ \ Clears(run.pending.act)]
  BY <1>1
<1>4. r \in RunSnapshot
  BY <1>2, <1>3, ZenonT(30) DEF Form, RunSnapshot, Statuses
<1>5. /\ r.status = "running" /\ r.tail = "other" /\ r.session = a.session /\ r.pending = a.pending
      /\ r.hold = a.hold /\ r.gap = a.gap /\ r.navs = a.navs
  BY <1>2, <1>3 DEF Form, RunSnapshot
<1> QED BY <1>2, <1>4, <1>5 DEF Form, Shed, Fits, Settled

LEMMA AcceptCompletedStep ==
    ASSUME Inv, AcceptCompleted
    PROVE  Inv'
<1>1. pc \in Acting /\ swapped' = swapped
  BY AnsweredFacts DEF AcceptCompleted
<1>2. QueueKept /\ job'[<<run.session, run.pending>>] \notin {"asked", "granted"}
  BY <1>1, Read, Ready DEF AcceptCompleted, TypeOK
<1>3. PICK r : r = [Advanced(run) EXCEPT !.status = "running", !.tail = "other",
                                         !.unread = @ \ Clears(run.pending.act)]
  OBVIOUS
<1>4. Form(r, run, "running", "other") /\ Shed(r)
  BY <1>1, <1>3, InAction, CompletedForm
<1>5. CASE AfterAction([r EXCEPT !.disagreed = FALSE]) /\ prefetch' \in BOOLEAN
  <2>1. PICK q : q = [r EXCEPT !.disagreed = FALSE]
    OBVIOUS
  <2>2. q \in RunSnapshot
    BY <1>4, <2>1 DEF Form, RunSnapshot
  <2>3. /\ q.status = r.status /\ q.session = r.session /\ q.pending = r.pending
        /\ q.hold = r.hold /\ q.gap = r.gap
    BY <1>4, <2>1 DEF Form, RunSnapshot
  <2>4. Fits(q) /\ q.session = run.session /\ q.gap = run.gap
    BY <1>4, <2>3 DEF Form, Shed, Fits
  <2>5. RestTypeOK'
    BY <1>5, Ready DEF AcceptCompleted, RestTypeOK
  <2> QED BY <1>1, <1>2, <1>5, <2>1, <2>2, <2>4, <2>5, Accepts
<1>6. CASE /\ run' = r /\ Goes("check")
           /\ \E stage \in {"image", "asking"} : check' = [NoCheck EXCEPT !.stage = stage]
           /\ ctl' \in {"off", "asking", "ready"}
           /\ UNCHANGED <<slice, prefetch>>
  <2>1. RestTypeOK'
    BY <1>6, Ready DEF AcceptCompleted, RestTypeOK
  <2>2. check' \in [stage : {"off", "image", "asking", "delayed", "over"},
                    for : {"action", "done", "answer"}, moved : BOOLEAN,
                    verdict : {"none", "complete", "verified", "uncertain", "failed"}]
    BY <1>6 DEF NoCheck
  <2>3. HolderTypeOK'
    BY <1>6, <2>2, Ready DEF HolderTypeOK, Goes
  <2>4. Placed'
    BY <1>1, <1>4, <1>6, InAction DEF Placed, Thinking, Acting, Goes, Form, Shed, Settled
  <2>5. Noted' /\ Fits(run)' /\ KeepsOrQuiet(run'.pending) /\ run' \in RunSnapshot /\ run'.session = run.session
    BY <1>1, <1>2, <1>4, <1>6, InAction DEF Noted, Fits, KeepsOrQuiet, Form
  <2> QED BY <1>2, <2>1, <2>3, <2>4, <2>5, Moves
<1> QED BY <1>3, <1>5, <1>6 DEF AcceptCompleted

-----------------------------------------------------------------------------
(* An action the daemon holds or refuses.                                  *)

LEMMA NavBound ==
    ASSUME Inv, run.navs # MaxNav
    PROVE  run.navs < MaxNav /\ run.navs + 1 \in 0 .. MaxNav
<1>1. run.navs \in 0 .. MaxNav
  BY Ready DEF RunSnapshot
<1> QED BY <1>1, HarnessConstants

LEMMA DismissedStep ==
    ASSUME Inv, Dismissed
    PROVE  Inv'
<1>1. /\ pc \in Acting /\ RestTypeOK' /\ swapped' = swapped
      /\ job' = [job EXCEPT ![<<run.session, run.pending>>] = "none"]
      /\ UNCHANGED <<stopped, opened, target, draft>>
  BY Ready DEF Dismissed, RestTypeOK, Acting
<1>2. QueueKept /\ job'[<<run.session, run.pending>>] = "none"
  BY <1>1, Read, Ready DEF AnswerRead, TypeOK
<1>3. CASE run.navs = MaxNav
  <2>1. AfterAction(Blocked(Dropped(run)))
    BY <1>3 DEF Dismissed
  <2>2. Form(Dropped(run), run, run.status, run.tail)
    BY Ready, DroppedForm
  <2>3. Form(Blocked(Dropped(run)), Dropped(run), "blocked", "other")
    BY <2>2, BlockedForm DEF Form
  <2> QED BY <1>1, <1>2, <2>1, <2>2, <2>3, Accepts DEF Form
<1>4. CASE run.navs # MaxNav
  <2>1. pc' = "renav" /\ UNCHANGED <<run, line, op, slice, check, ctl>>
    BY <1>4 DEF Dismissed, Goes
  <2>2. Phase' = "none" /\ run.navs < MaxNav
    BY <1>2, <1>4, <2>1, NavBound DEF Phase
  <2> QED BY <1>1, <1>2, <2>1, <2>2, Turns DEF Acting
<1> QED BY <1>3, <1>4

LEMMA DismissFailsStep ==
    ASSUME Inv, DismissFails
    PROVE  Inv'
<1>1. /\ pc \in Acting /\ RestTypeOK' /\ swapped' = swapped
      /\ UNCHANGED <<stopped, opened, target, draft>>
  BY Ready DEF DismissFails, RestTypeOK, Acting
<1>2. QueueKept
  <2>1. CASE job' = job
    BY <1>1, <2>1, Unmoved, Ready DEF TypeOK
  <2>2. CASE job' = [job EXCEPT ![<<run.session, run.pending>>] = "refused"]
    BY <1>1, <2>2, Turned, InAction, Ready DEF TypeOK
  <2> QED BY <2>1, <2>2 DEF DismissFails
<1>3. PICK q : q = [run EXCEPT !.hold = TRUE, !.status = "needs_approval", !.tail = "other"]
  OBVIOUS
<1>4. Form(q, run, "needs_approval", "other") /\ KeepsOrQuiet(q.pending)
  BY <1>1, <1>3, InAction, HeldForm DEF KeepsOrQuiet
<1>5. AfterAction(q) /\ ~q.gap
  BY <1>1, <1>3, <1>4, InAction DEF Form, DismissFails
<1> QED BY <1>1, <1>2, <1>4, <1>5, InAction, Concludes DEF Form

LEMMA RenavigatedForm ==
    ASSUME Inv, run.navs < MaxNav, NEW session \in 1 .. MaxSessions, NEW q,
           q = [Yielded(Dropped(run)) EXCEPT !.session = session, !.navs = @ + 1]
    PROVE  /\ q \in RunSnapshot /\ Fits(q) /\ q.session = session /\ q.gap = run.gap /\ q.status = "paused"
           /\ q.pending = Nothing
<1>1. Form(Dropped(run), run, run.status, run.tail) /\ Shed(Dropped(run))
  BY Ready, DroppedForm
<1>2. PICK p : p = Yielded(Dropped(run))
  OBVIOUS
<1>3. Form(p, run, "paused", "yield") /\ Shed(p)
  BY <1>1, <1>2, YieldedForm DEF Form, Holding, Shed
<1>4. p.navs + 1 \in 0 .. MaxNav
  BY <1>3, NavBound, Ready DEF Form, RunSnapshot
<1>5. q = [p EXCEPT !.session = session, !.navs = @ + 1]
  BY <1>2
<1>6. q \in RunSnapshot
  BY <1>3, <1>4, <1>5 DEF Form, RunSnapshot
<1>7. /\ q.status = p.status /\ q.session = session /\ q.pending = p.pending
      /\ q.hold = p.hold /\ q.gap = p.gap
  BY <1>3, <1>5 DEF Form, RunSnapshot
<1> QED BY <1>3, <1>6, <1>7 DEF Form, Shed, Fits, Settled

LEMMA RenavigatedStep ==
    ASSUME Inv, Renavigated
    PROVE  Inv'
<1>1. /\ pc \in Acting /\ pc = "renav" /\ run.navs < MaxNav /\ Phase = "none"
      /\ opened < MaxSessions /\ opened' = opened + 1
      /\ UNCHANGED <<prefetch, job, stopped, target, draft, disturbed, excused>>
  BY DEF Renavigated, Acting, Inv, Placed
<1>2. opened' \in 1 .. MaxSessions /\ opened <= opened'
  BY <1>1, HarnessConstants, Ready DEF TypeOK
<1>3. QueueKept
  BY <1>1, <1>2, Ready DEF QueueKept, DaemonTypeOK, TypeOK
<1>4. CASE SameMachine
  <2>1. PICK q : q = [Yielded(Dropped(run)) EXCEPT !.session = opened', !.navs = @ + 1]
    OBVIOUS
  <2>2. /\ q \in RunSnapshot /\ Fits(q) /\ q.session = opened' /\ ~q.gap /\ q.pending = Nothing
    BY <1>1, <1>2, <2>1, InAction, RenavigatedForm
  <2>3. AfterAction(q) /\ swapped' = swapped
    BY <1>4, <2>1 DEF Renavigated
  <2>4. Saves(q) /\ Fits(run)' /\ HolderTypeOK' /\ Placed'
    BY <1>1, <2>2, <2>3, InAction, Ready, Proceeds
  <2>5. Owned'
    BY <1>1, <2>2, <2>4, FreshSession, Ready DEF Saves, Inv
  <2>6. RestTypeOK' /\ Noted'
    BY <1>1, <2>3, InAction, Ready DEF RestTypeOK, Noted
  <2>7. TypeOK'
    BY <1>3, <2>4, <2>6, TypePartsNext DEF Saves, QueueKept
  <2> QED BY <2>4, <2>5, <2>6, <2>7 DEF Inv
<1>5. CASE ~SameMachine
  <2>1. Released(IdentityChanged(Dropped(run))) /\ Noticed
    BY <1>5 DEF Renavigated
  <2>2. RestTypeOK'
    BY <1>1, <2>1, NoticedType, Ready DEF RestTypeOK
  <2>3. job'[<<run.session, run.pending>>] \notin {"asked", "granted"}
    BY <1>1 DEF Phase
  <2> QED BY <1>1, <1>3, <2>1, <2>2, <2>3, InAction, DroppedIdentity, Concludes DEF Form, KeepsOrQuiet
<1> QED BY <1>4, <1>5

(* Ways to leave an action that is given up.                               *)
LEMMA DroppedPaused ==
    ASSUME Inv
    PROVE  /\ Form(Dropped(run), run, run.status, run.tail) /\ Shed(Dropped(run))
           /\ Form(Paused(Dropped(run)), run, "paused", "other")
           /\ Form(Yielded(Dropped(run)), run, "paused", "yield")
           /\ Form(Paused(Unplanned(Dropped(run))), run, "paused", "other")
<1>1. Form(Dropped(run), run, run.status, run.tail) /\ Shed(Dropped(run))
  BY Ready, DroppedForm
<1>2. Form(Paused(Dropped(run)), run, "paused", "other")
  BY <1>1, PausedForm DEF Form
<1>3. Form(Yielded(Dropped(run)), run, "paused", "yield")
  BY <1>1, YieldedForm DEF Form
<1>4. Form(Unplanned(Dropped(run)), run, run.status, run.tail)
  BY <1>1, UnplannedForm DEF Form
<1>5. Form(Paused(Unplanned(Dropped(run))), run, "paused", "other")
  BY <1>4, PausedForm DEF Form
<1> QED BY <1>1, <1>2, <1>3, <1>5

LEMMA RenavigateFailsStep ==
    ASSUME Inv, RenavigateFails
    PROVE  Inv'
<1>1. /\ pc \in Acting /\ QueueKept /\ RestTypeOK' /\ swapped' = swapped
      /\ AfterAction(Paused(Dropped(run)))
  BY Calm, Ready DEF RenavigateFails, RestTypeOK, Acting
<1>2. job'[<<run.session, run.pending>>] \notin {"asked", "granted"}
  BY DEF RenavigateFails, Phase, daemonVars, Inv, Placed
<1> QED BY <1>1, <1>2, DroppedPaused, Accepts DEF Form

LEMMA FreshenedStep ==
    ASSUME Inv, Freshened
    PROVE  Inv'
<1>1. pc \in Acting /\ RestTypeOK' /\ swapped' = swapped
  BY Ready DEF Freshened, RestTypeOK, Acting
<1>2. QueueKept /\ job'[<<run.session, run.pending>>] \notin {"asked", "granted"}
  BY <1>1, Read, Ready DEF Freshened, TypeOK
<1>3. CASE AfterAction(Yielded(Dropped(run)))
  BY <1>1, <1>2, <1>3, DroppedPaused, Accepts DEF Form
<1>4. CASE AfterAction(Paused(Unplanned(Dropped(run))))
  BY <1>1, <1>2, <1>4, DroppedPaused, Accepts DEF Form
<1> QED BY <1>3, <1>4 DEF Freshened

LEMMA FreshenFailsStep ==
    ASSUME Inv, FreshenFails
    PROVE  Inv'
<1>1. pc \in Acting /\ RestTypeOK' /\ swapped' = swapped
  BY Ready DEF FreshenFails, RestTypeOK, Acting
<1>2. QueueKept /\ job'[<<run.session, run.pending>>] \notin {"asked", "granted"}
  BY <1>1, Read, Ready DEF FreshenFails, TypeOK
<1>3. PICK plan \in {run.plan, FALSE} : AfterAction([Paused(Dropped(run)) EXCEPT !.plan = plan])
  BY DEF FreshenFails
<1>4. PICK p : p = Paused(Dropped(run))
  OBVIOUS
<1>5. PICK q : q = [p EXCEPT !.plan = plan]
  OBVIOUS
<1>6. Form(p, run, "paused", "other")
  BY <1>4, DroppedPaused
<1>7. q \in RunSnapshot
  BY <1>5, <1>6, Ready DEF Form, RunSnapshot
<1>8. /\ q.status = p.status /\ q.session = p.session /\ q.pending = p.pending
      /\ q.hold = p.hold /\ q.next = p.next /\ q.gap = p.gap
  BY <1>5, <1>6 DEF Form, RunSnapshot
<1>9. Fits(q) /\ q.session = run.session /\ q.gap = run.gap /\ AfterAction(q)
  BY <1>3, <1>4, <1>5, <1>6, <1>8 DEF Form, Fits
<1> QED BY <1>1, <1>2, <1>7, <1>9, Accepts

LEMMA FreshenedElsewhereStep ==
    ASSUME Inv, FreshenedElsewhere
    PROVE  Inv'
<1>1. pc \in Acting /\ QueueKept
  BY Calm DEF FreshenedElsewhere, Acting
<1>2. RestTypeOK'
  BY NoticedType, Ready DEF FreshenedElsewhere, RestTypeOK
<1>3. PICK plan \in {run.plan, FALSE} :
         Released([IdentityChanged(run) EXCEPT !.hold = FALSE, !.plan = plan, !.machine = run.machine])
  BY DEF FreshenedElsewhere
<1>4. PICK p : p = IdentityChanged(run)
  OBVIOUS
<1>5. PICK q : q = [p EXCEPT !.hold = FALSE, !.plan = plan, !.machine = run.machine]
  OBVIOUS
<1>6. Form(p, run, "blocked", "identity") /\ Holding(p, run)
  BY <1>4, Ready, IdentityForm
<1>7. q \in RunSnapshot
  BY <1>5, <1>6, Ready DEF Form, RunSnapshot
<1>8. /\ q.status = p.status /\ q.tail = p.tail /\ q.session = p.session /\ q.pending = p.pending
      /\ q.hold = FALSE /\ q.next = p.next /\ q.gap = p.gap
  BY <1>5, <1>6 DEF Form, RunSnapshot
<1>9. Fits(q) /\ q.session = run.session /\ Released(q) /\ KeepsOrQuiet(q.pending)
  BY <1>3, <1>4, <1>5, <1>6, <1>8 DEF Form, Holding, Fits, KeepsOrQuiet
<1>10. q.status = "blocked" /\ q.tail = "identity" /\ ~q.gap /\ line # <<>>
  BY <1>1, <1>6, <1>8, InAction DEF Form
<1> QED BY <1>1, <1>2, <1>7, <1>9, <1>10, Concludes

-----------------------------------------------------------------------------
(* Verification.                                                           *)

LEMMA InCheck ==
    ASSUME Inv, pc = "check"
    PROVE  /\ line # <<>> /\ ~run.gap /\ swapped # "alone" /\ run.pending = Nothing
           /\ ctl = "off" => run.status \notin Settled
BY DEF Inv, Placed, Noted, Thinking

(* A step of the verification that leaves it under way.                    *)
LEMMA Checks ==
    ASSUME Inv, pc = "check", pc' = "check", UNCHANGED <<line, op, slice>>,
           HolderTypeOK', QueueKept, RestTypeOK', swapped' # "alone",
           run' \in RunSnapshot, Fits(run'), run'.session = run.session, run'.pending = Nothing, ~run'.gap,
           ctl' = "off" => run'.status \notin Settled
    PROVE  Inv'
<1>1. Placed'
  BY InCheck DEF Placed, Thinking, Acting
<1>2. Noted' /\ Fits(run)' /\ KeepsOrQuiet(run'.pending)
  BY InCheck DEF Noted, Fits, KeepsOrQuiet
<1> QED BY <1>1, <1>2, Moves

LEMMA VerifiedStep ==
    ASSUME Inv, pc = "check", QueueKept, RestTypeOK',
           NEW r \in RunSnapshot, Fits(r), r.session = run.session, r.pending = Nothing, ~r.gap,
           NEW v \in {"none", "complete", "verified", "uncertain", "failed"}, Verified(r, v),
           swapped' = "alone" => ctl = "off" /\ r.status = "blocked" /\ r.tail = "identity"
    PROVE  Inv'
<1>1. KeepsOrQuiet(r.pending) /\ line # <<>>
  BY InCheck DEF KeepsOrQuiet
<1>2. CASE ctl # "off"
  <2>1. /\ run' = r /\ check' = [check EXCEPT !.stage = "over", !.verdict = v]
        /\ pc' = "check" /\ UNCHANGED <<line, op, slice, ctl>>
    BY <1>2 DEF Verified, Goes
  <2>2. HolderTypeOK'
    BY <2>1, Ready DEF HolderTypeOK
  <2> QED BY <1>2, <2>1, <2>2, Checks
<1>3. CASE ctl = "off" /\ AfterAction(r)
  BY <1>1, <1>3, Concludes
<1>4. CASE ctl = "off" /\ Released(r)
  BY <1>1, <1>4, Concludes
<1>5. CASE ctl = "off" /\ r.status = "running" /\ Released(Yielded(Unplanned(r)))
  <2>1. Form(Unplanned(r), r, r.status, r.tail) /\ Holding(Unplanned(r), r)
    BY UnplannedForm
  <2>2. Form(Yielded(Unplanned(r)), r, "paused", "yield") /\ Holding(Yielded(Unplanned(r)), r)
    BY <2>1, YieldedForm DEF Form, Holding
  <2> QED BY <1>1, <1>5, <2>2, Concludes DEF Form, Holding
<1>6. CASE ctl = "off" /\ r.status = "running" /\ Released(Paused(r))
  <2>1. Form(Paused(r), r, "paused", "other") /\ Holding(Paused(r), r)
    BY PausedForm
  <2> QED BY <1>1, <1>6, <2>1, Concludes DEF Form, Holding
<1> QED BY <1>2, <1>3, <1>4, <1>5, <1>6 DEF Verified

LEMMA CheckPaused ==
    ASSUME Inv, pc = "check"
    PROVE  /\ Paused(run) \in RunSnapshot /\ Fits(Paused(run)) /\ Paused(run).session = run.session
           /\ Paused(run).pending = Nothing /\ ~Paused(run).gap
BY InCheck, Ready, PausedForm DEF Form, Holding

LEMMA CheckFailsStep ==
    ASSUME Inv, EvidenceMissing \/ VerifierFails
    PROVE  Inv'
<1>1. pc = "check" /\ QueueKept /\ RestTypeOK' /\ swapped' # "alone" /\ Verified(Paused(run), "none")
  BY Calm, Ready DEF EvidenceMissing, VerifierFails, RestTypeOK
<1> QED BY <1>1, CheckPaused, VerifiedStep

LEMMA EvidenceRefreshedStep ==
    ASSUME Inv, EvidenceRefreshed
    PROVE  Inv'
<1>1. /\ pc = "check" /\ pc' = "check" /\ UNCHANGED <<run, line, op, slice, ctl, swapped>>
      /\ QueueKept /\ RestTypeOK'
  BY Calm, Ready DEF EvidenceRefreshed, RestTypeOK
<1>2. HolderTypeOK'
  BY <1>1, Ready DEF HolderTypeOK, EvidenceRefreshed
<1> QED BY <1>1, <1>2, Ready, InCheck, Checks

LEMMA JudgedForm ==
    ASSUME Inv, pc = "check", NEW v
    PROVE  /\ Judged(run, v) \in RunSnapshot /\ Fits(Judged(run, v))
           /\ Judged(run, v).session = run.session /\ Judged(run, v).pending = Nothing
           /\ ~Judged(run, v).gap
<1>1. PICK q : q = Judged(run, v)
  OBVIOUS
<1>2. CASE v = "complete"
  <2>1. q = [run EXCEPT !.status = "completed", !.tail = "other", !.disagreed = FALSE]
    BY <1>1, <1>2 DEF Judged
  <2>2. q \in RunSnapshot
    BY <2>1, Ready DEF RunSnapshot, Statuses, TERMINAL_RUN_STATUSES, Settled
  <2>3. /\ q.status = "completed" /\ q.session = run.session /\ q.pending = run.pending
        /\ q.hold = run.hold /\ q.next = run.next /\ q.gap = run.gap
    BY <2>1, Ready DEF RunSnapshot
  <2> QED BY <1>1, <2>2, <2>3, InCheck, Ready DEF Fits
<1>3. CASE v = "verified"
  <2>1. q = [run EXCEPT !.status = "running", !.tail = "other", !.disagreed = FALSE]
    BY <1>1, <1>3 DEF Judged
  <2>2. q \in RunSnapshot
    BY <2>1, Ready DEF RunSnapshot, Statuses
  <2>3. /\ q.status = "running" /\ q.session = run.session /\ q.pending = run.pending
        /\ q.hold = run.hold /\ q.next = run.next /\ q.gap = run.gap
    BY <2>1, Ready DEF RunSnapshot
  <2> QED BY <1>1, <2>2, <2>3, InCheck, Ready DEF Fits
<1>4. CASE v = "uncertain"
  <2>1. Form(Unplanned(run), run, run.status, run.tail) /\ Holding(Unplanned(run), run)
    BY Ready, UnplannedForm
  <2>2. PICK p : p = Paused(Unplanned(run))
    OBVIOUS
  <2>3. Form(p, run, "paused", "other") /\ Holding(p, run)
    BY <2>1, <2>2, PausedForm DEF Form, Holding
  <2>4. q = [p EXCEPT !.disagreed = FALSE]
    BY <1>1, <1>4, <2>2 DEF Judged
  <2>5. q \in RunSnapshot
    BY <2>3, <2>4 DEF Form, RunSnapshot
  <2>6. /\ q.status = p.status /\ q.session = p.session /\ q.pending = p.pending
        /\ q.hold = p.hold /\ q.next = p.next /\ q.gap = p.gap
    BY <2>3, <2>4 DEF Form, RunSnapshot
  <2> QED BY <1>1, <2>3, <2>5, <2>6, InCheck DEF Form, Holding, Fits
<1>5. CASE v \notin {"complete", "verified", "uncertain"}
  <2>1. PICK p : p = Yielded(run)
    OBVIOUS
  <2>2. Form(p, run, "paused", "yield") /\ Holding(p, run)
    BY <2>1, Ready, YieldedForm
  <2>3. q = [p EXCEPT !.disagreed = TRUE]
    BY <1>1, <1>5, <2>1 DEF Judged
  <2>4. q \in RunSnapshot
    BY <2>2, <2>3 DEF Form, RunSnapshot
  <2>5. /\ q.status = p.status /\ q.session = p.session /\ q.pending = p.pending
        /\ q.hold = p.hold /\ q.next = p.next /\ q.gap = p.gap
    BY <2>2, <2>3 DEF Form, RunSnapshot
  <2> QED BY <1>1, <2>2, <2>4, <2>5, InCheck DEF Form, Holding, Fits
<1> QED BY <1>2, <1>3, <1>4, <1>5

LEMMA VerifierAnsweredStep ==
    ASSUME Inv, VerifierAnswered
    PROVE  Inv'
<1>1. pc = "check" /\ QueueKept /\ RestTypeOK' /\ swapped' = swapped /\ swapped' # "alone"
  BY Calm, Ready DEF VerifierAnswered, RestTypeOK
<1>2. CASE \E v \in {"complete", "verified", "uncertain", "failed"} : Verified(Judged(run, v), v)
  BY <1>1, <1>2, JudgedForm, VerifiedStep
<1>3. CASE /\ \E v \in {"uncertain", "failed"} :
                 check' = [check EXCEPT !.stage = "delayed", !.verdict = v]
           /\ Goes("check") /\ UNCHANGED <<run, slice, ctl>>
  <2>1. pc' = "check" /\ UNCHANGED <<line, op, run, slice, ctl>>
    BY <1>3 DEF Goes
  <2>2. HolderTypeOK'
    BY <1>3, <2>1, Ready DEF HolderTypeOK
  <2> QED BY <1>1, <2>1, <2>2, Ready, InCheck, Checks
<1> QED BY <1>2, <1>3 DEF VerifierAnswered

LEMMA DelayedFrameStep ==
    ASSUME Inv, DelayedFrame
    PROVE  Inv'
<1>1. /\ pc = "check" /\ pc' = "check" /\ UNCHANGED <<line, op, slice, ctl, swapped>>
      /\ QueueKept /\ RestTypeOK'
  BY Calm, Ready DEF DelayedFrame, RestTypeOK
<1>2. HolderTypeOK'
  BY <1>1, Ready DEF HolderTypeOK, DelayedFrame
<1>3. run' \in RunSnapshot
  BY Ready DEF DelayedFrame, RunSnapshot
<1>4. /\ run'.status = run.status /\ run'.session = run.session /\ run'.pending = run.pending
      /\ run'.hold = run.hold /\ run'.next = run.next /\ run'.gap = run.gap
  BY Ready DEF DelayedFrame, RunSnapshot
<1>5. Fits(run')
  BY <1>4, Ready DEF Fits
<1> QED BY <1>1, <1>2, <1>3, <1>4, <1>5, Ready, InCheck, Checks

LEMMA NoDelayedFrameStep ==
    ASSUME Inv, NoDelayedFrame
    PROVE  Inv'
<1>1. /\ pc = "check" /\ QueueKept /\ RestTypeOK' /\ swapped' # "alone"
      /\ Verified(Judged(run, check.verdict), check.verdict)
  BY Calm, Ready DEF NoDelayedFrame, RestTypeOK
<1>2. check.verdict \in {"none", "complete", "verified", "uncertain", "failed"}
  BY Ready DEF HolderTypeOK
<1> QED BY <1>1, <1>2, JudgedForm, VerifiedStep

LEMMA VerifiedElsewhereStep ==
    ASSUME Inv, VerifiedElsewhere
    PROVE  Inv'
<1>1. pc = "check" /\ QueueKept /\ Verified(IdentityChanged(run), check.verdict)
  BY Calm DEF VerifiedElsewhere
<1>2. RestTypeOK'
  BY NoticedType, Ready DEF VerifiedElsewhere, RestTypeOK
<1>3. swapped' = "alone" => ctl = "off"
  BY <1>1, InCheck DEF VerifiedElsewhere, Noticed
<1>4. check.verdict \in {"none", "complete", "verified", "uncertain", "failed"}
  BY Ready DEF HolderTypeOK
<1>5. /\ Form(IdentityChanged(run), run, "blocked", "identity")
      /\ Holding(IdentityChanged(run), run)
  BY Ready, IdentityForm
<1>6. /\ IdentityChanged(run) \in RunSnapshot /\ Fits(IdentityChanged(run))
      /\ IdentityChanged(run).session = run.session /\ IdentityChanged(run).pending = Nothing
      /\ ~IdentityChanged(run).gap /\ IdentityChanged(run).status = "blocked"
      /\ IdentityChanged(run).tail = "identity"
  BY <1>1, <1>5, InCheck DEF Form, Holding
<1> QED BY <1>1, <1>2, <1>3, <1>4, <1>6, VerifiedStep

LEMMA SpeculationAnsweredStep ==
    ASSUME Inv, SpeculationAnswered
    PROVE  Inv'
<1>1. /\ pc = "check" /\ pc' = "check" /\ UNCHANGED <<run, line, op, slice, check, swapped>>
      /\ ctl' = "ready" /\ QueueKept /\ RestTypeOK'
  BY Calm, Ready DEF SpeculationAnswered, RestTypeOK
<1>2. HolderTypeOK'
  BY <1>1, Ready DEF HolderTypeOK
<1> QED BY <1>1, <1>2, Ready, InCheck, Checks

LEMMA SpeculationFailsStep ==
    ASSUME Inv, SpeculationFails
    PROVE  Inv'
<1>1. /\ pc = "check" /\ pc' = "check" /\ UNCHANGED <<line, op, slice, check, swapped>>
      /\ ctl' = "lost" /\ QueueKept /\ RestTypeOK'
  BY Calm, Ready DEF SpeculationFails, RestTypeOK
<1>2. HolderTypeOK'
  BY <1>1, Ready DEF HolderTypeOK
<1>3. run' \in RunSnapshot
  BY Ready DEF SpeculationFails, RunSnapshot, Statuses
<1>4. /\ run'.status = "paused" /\ run'.session = run.session /\ run'.pending = run.pending
      /\ run'.hold = run.hold /\ run'.next = run.next /\ run'.gap = run.gap
  BY Ready DEF SpeculationFails, RunSnapshot
<1>5. Fits(run')
  BY <1>4, Ready DEF Fits, Settled
<1> QED BY <1>1, <1>2, <1>3, <1>4, <1>5, Ready, InCheck, Checks

LEMMA TailForm ==
    ASSUME Inv, NEW tail \in {"other", "yield"}, NEW q, q = [run EXCEPT !.tail = tail]
    PROVE  /\ q \in RunSnapshot /\ Fits(q) /\ q.session = run.session /\ q.pending = run.pending
           /\ q.gap = run.gap
<1>1. q \in RunSnapshot
  BY Ready DEF RunSnapshot
<1>2. /\ q.status = run.status /\ q.session = run.session /\ q.pending = run.pending
      /\ q.hold = run.hold /\ q.next = run.next /\ q.gap = run.gap
  BY Ready DEF RunSnapshot
<1> QED BY <1>1, <1>2, Ready DEF Fits

LEMMA JoinedStep ==
    ASSUME Inv, Joined
    PROVE  Inv'
<1>1. pc = "check" /\ QueueKept /\ swapped' = swapped /\ disturbed' = disturbed /\ excused' = excused
  BY Calm DEF Joined
<1>2. CASE Adoptable
  <2>1. /\ prefetch' \in BOOLEAN /\ pc' = "loop" /\ ctl' = "off" /\ run.status = "running"
        /\ UNCHANGED <<line, op, run, check>> /\ slice' = [slice EXCEPT !.why = "first"]
    BY <1>2 DEF Joined, Adoptable, Goes
  <2>2. HolderTypeOK'
    BY <2>1, Ready DEF HolderTypeOK
  <2>3. RestTypeOK'
    BY <1>1, <2>1, Ready DEF RestTypeOK
  <2>4. Placed'
    BY <1>1, <2>1, InCheck DEF Placed, Thinking, Acting, Settled
  <2>5. Noted' /\ Fits(run)' /\ run' \in RunSnapshot /\ KeepsOrQuiet(run'.pending)
    BY <1>1, <2>1, Ready, InCheck DEF Noted, Fits, KeepsOrQuiet
  <2> QED BY <1>1, <2>1, <2>2, <2>3, <2>4, <2>5, Moves
<1>3. CASE ~Adoptable
  <2>1. PICK tail \in {"other"} \cup ({run.tail} \cap {"yield"}) : AfterAction([run EXCEPT !.tail = tail])
    BY <1>3 DEF Joined
  <2>2. tail \in {"other", "yield"}
    OBVIOUS
  <2>3. PICK q : q = [run EXCEPT !.tail = tail]
    OBVIOUS
  <2>4. /\ q \in RunSnapshot /\ Fits(q) /\ q.session = run.session /\ KeepsOrQuiet(q.pending)
        /\ ~q.gap /\ AfterAction(q)
    BY <1>1, <2>1, <2>2, <2>3, InCheck, TailForm DEF KeepsOrQuiet
  <2>5. RestTypeOK'
    BY <1>1, <1>3, Ready DEF Joined, RestTypeOK
  <2> QED BY <1>1, <2>4, <2>5, InCheck, Concludes
<1> QED BY <1>2, <1>3

-----------------------------------------------------------------------------
(* Approvals.                                                              *)

LEMMA ResolveStep ==
    ASSUME Inv, Resolve
    PROVE  Inv'
<1>1. RestTypeOK' /\ line # <<>> /\ swapped' = swapped /\ pc = "idle"
  BY Ready DEF Resolve, RestTypeOK, Holds
<1>2. CASE run.status # "needs_approval" \/ ~run.hold
  <2>1. Released(run) /\ QueueKept /\ KeepsOrQuiet(run.pending)
    BY <1>2, Unmoved, Ready DEF Resolve, KeepsOrQuiet, TypeOK
  <2> QED BY <1>1, <2>1, Ready, Concludes DEF Inv, Noted
<1>3. CASE run.status = "needs_approval" /\ run.hold
  <2>1. run.pending # Nothing /\ ~run.gap /\ swapped # "alone"
    BY <1>3, Ready DEF Inv, Fits, Noted
  <2>2. run.session \in 1 .. MaxSessions /\ run.pending \in Key
    BY <2>1, Ready DEF RunSnapshot
  <2>3. job[<<run.session, run.pending>>] \in InFlight \cup Ended \cup {"none", "refused"}
    BY <2>2, Ready DEF TypeOK
  <2>4. PICK decision \in {"approve", "reject", "take_over"} :
           /\ job' = [job EXCEPT ![<<run.session, run.pending>>] =
                          IF @ # "held" THEN @ ELSE IF decision = "approve" THEN "granted" ELSE "denied"]
           /\ Goes(decision) /\ Forgotten /\ UNCHANGED run
    BY <1>3 DEF Resolve
  <2>5. PICK phase \in InFlight \cup Ended \cup {"none", "refused"} :
           job' = [job EXCEPT ![<<run.session, run.pending>>] = phase]
    BY <2>2, <2>3, <2>4, Ready DEF InFlight, TypeOK
  <2>6. QueueKept
    BY <2>1, <2>5, Turned, Ready DEF Resolve, TypeOK
  <2>7. HolderTypeOK'
    BY <2>4, Ready, Sliceless, Unchecked DEF HolderTypeOK, Forgotten, Goes
  <2>8. Placed'
    BY <1>1, <2>1, <2>4 DEF Placed, Thinking, Acting, Forgotten, Goes
  <2>9. Noted' /\ Fits(run)' /\ KeepsOrQuiet(run'.pending) /\ run' \in RunSnapshot
    BY <1>1, <2>1, <2>4, Ready DEF Noted, Fits, KeepsOrQuiet
  <2> QED BY <1>1, <2>4, <2>6, <2>7, <2>8, <2>9, Moves
<1> QED BY <1>2, <1>3

LEMMA ResolveFailsStep ==
    ASSUME Inv, ResolveFails
    PROVE  Inv'
<1>1. QueueKept /\ RestTypeOK' /\ line # <<>> /\ swapped' # "alone"
  BY Calm, Ready DEF ResolveFails, RestTypeOK
<1>2. CASE Released(run)
  BY <1>1, <1>2, Ready, Concludes DEF KeepsOrQuiet
<1>3. CASE Released(Paused(run))
  <2>1. Form(Paused(run), run, "paused", "other") /\ KeepsOrQuiet(Paused(run).pending)
    BY Ready, PausedForm DEF Holding, KeepsOrQuiet
  <2> QED BY <1>1, <1>3, <2>1, Concludes DEF Form
<1> QED BY <1>2, <1>3 DEF ResolveFails

LEMMA TakenOverStep ==
    ASSUME Inv, TakenOver
    PROVE  Inv'
<1>1. QueueKept /\ RestTypeOK' /\ line # <<>> /\ swapped' # "alone"
  BY Calm, Ready DEF TakenOver, RestTypeOK
<1>2. job'[<<run.session, run.pending>>] \notin {"asked", "granted"}
  BY DEF TakenOver, Phase, daemonVars, Ended
<1>3. PICK q : q = [Dropped(run) EXCEPT !.status = "aborted", !.tail = "other"]
  OBVIOUS
<1>4. Released(q)
  BY <1>3 DEF TakenOver
<1>5. Form(q, run, "aborted", "other")
  BY <1>3, EndForm DEF Settled
<1> QED BY <1>1, <1>2, <1>4, <1>5, Concludes DEF Form, KeepsOrQuiet

LEMMA RejectedStep ==
    ASSUME Inv, Rejected
    PROVE  Inv'
<1>1. /\ pc \in Acting /\ pc' = "quit" /\ QueueKept /\ RestTypeOK'
      /\ UNCHANGED <<run, line, op, slice, check, ctl, swapped>>
  BY Calm, Ready DEF Rejected, RestTypeOK, Goes, Acting
<1>2. Phase' \in Ended \cup {"refused"}
  BY <1>1 DEF Rejected, Phase, daemonVars
<1> QED BY <1>1, <1>2, Turns DEF Acting

LEMMA QuitStep ==
    ASSUME Inv, Quit
    PROVE  Inv'
<1>1. run.session \in 1 .. MaxSessions
  BY Ready DEF RunSnapshot
<1>2. QueueKept
  BY <1>1, Ready DEF Quit, QueueKept, DaemonTypeOK, TypeOK
<1>3. RestTypeOK' /\ line # <<>> /\ swapped' # "alone"
  BY Ready DEF Quit, RestTypeOK
<1>4. job'[<<run.session, run.pending>>] \notin {"asked", "granted"}
  BY DEF Quit, Phase, Ended, Inv, Placed
<1>5. PICK q : q = [Dropped(run) EXCEPT !.status = "rejected", !.tail = "other"]
  OBVIOUS
<1>6. Released(q)
  BY <1>5 DEF Quit
<1>7. Form(q, run, "rejected", "other")
  BY <1>5, EndForm DEF Settled
<1> QED BY <1>2, <1>3, <1>4, <1>6, <1>7, Concludes DEF Form, KeepsOrQuiet

-----------------------------------------------------------------------------
(* The daemon and the machine.                                             *)

LEMMA Serves ==
    ASSUME Inv, NEW s \in 1 .. MaxSessions, NEW k \in Key, job[<<s, k>>] \in InFlight,
           NEW phase \in {"running", "held", "refused"} \cup Ended,
           job' = [job EXCEPT ![<<s, k>>] = phase], draft' \subseteq Surfaces, External
    PROVE  Inv'
<1>1. /\ UNCHANGED <<run, line, op, prefetch, stopped, opened, target, disturbed, excused, swapped>>
      /\ UNCHANGED <<pc, slice, check, ctl>>
  BY DEF External, holderVars
<1>2. job \in [(1 .. MaxSessions) \X Key -> InFlight \cup Ended \cup {"none", "refused"}]
  BY Ready DEF TypeOK
<1>3. DaemonTypeOK'
  BY <1>1, <1>2, Ready DEF TypeOK, DaemonTypeOK, InFlight
<1>4. HolderTypeOK' /\ RestTypeOK' /\ run' \in RunSnapshot /\ Fits(run)' /\ Noted'
  BY <1>1, Ready DEF HolderTypeOK, RestTypeOK, Fits, Inv, Noted
<1>5. \A z \in 1 .. MaxSessions, q \in Key :
         \/ job'[<<z, q>>] = job[<<z, q>>]
         \/ z = s /\ q = k /\ job'[<<z, q>>] = phase /\ job[<<z, q>>] \in InFlight
  BY <1>2
<1>6. Owned'
  <2>1. run'.session <= opened'
    BY <1>1 DEF Inv, Owned
  <2>2. run.session \in 1 .. MaxSessions
    BY Ready DEF RunSnapshot
  <2>3. \A q \in Key :
           run.session \notin stopped /\ job'[<<run.session, q>>] \in {"asked", "granted"} => q = run.pending
    BY <1>5, <2>2 DEF Inv, Owned, Ended
  <2>4. \A z \in 1 .. MaxSessions, q \in Key : z > opened => job'[<<z, q>>] = "none"
    BY <1>5 DEF Inv, Owned, InFlight
  <2> QED BY <1>1, <2>1, <2>3, <2>4 DEF Owned
<1>7. Placed'
  <2>1. pc \in Acting => Phase' = Phase \/ Phase \in InFlight
    BY <1>1, <1>5, InAction DEF Phase
  <2>2. pc \in Acting /\ (Phase = "none" \/ Phase \in Ended \cup {"refused"}) => Phase' = Phase
    BY <2>1 DEF InFlight, Ended
  <2>3. /\ pc = "renav" => Phase' = "none"
        /\ pc = "freshen" => Phase' = "refused"
        /\ pc = "quit" => Phase' \in Ended \cup {"refused"}
    BY <2>2 DEF Inv, Placed, Acting
  <2> QED BY <1>1, <2>3 DEF Inv, Placed
<1> QED BY <1>3, <1>4, <1>6, <1>7, TypePartsNext DEF Inv

LEMMA DaemonMoves ==
    ASSUME Inv, DaemonStep
    PROVE  Inv'
<1>1. PICK s \in 1 .. MaxSessions, k \in Key : Executes(s, k) \/ Declines(s, k) \/ EndsExecution(s, k)
  BY DEF DaemonStep
<1>2. PICK phase \in {"running", "held", "refused"} \cup Ended : job' = [job EXCEPT ![<<s, k>>] = phase]
  BY <1>1 DEF Executes, Declines, EndsExecution, Becomes
<1>3. job[<<s, k>>] \in InFlight /\ External
  BY <1>1 DEF Executes, Declines, EndsExecution, InFlight
<1>4. draft' \subseteq Surfaces
  BY <1>1, Ready DEF Executes, Declines, EndsExecution, TypeOK, Types
<1> QED BY <1>2, <1>3, <1>4, Serves

LEMMA TargetChangesStep ==
    ASSUME Inv, TargetChanges
    PROVE  Inv'
<1>1. /\ UNCHANGED <<run, line, op, prefetch, job, stopped, opened, draft, disturbed, excused, swapped>>
      /\ UNCHANGED <<pc, slice, check, ctl>> /\ target' = 2
  BY DEF TargetChanges, holderVars
<1>2. QueueKept
  BY <1>1, Unmoved, Ready DEF TypeOK
<1>3. HolderTypeOK' /\ RestTypeOK' /\ run' \in RunSnapshot /\ Fits(run)' /\ Noted'
  BY <1>1, Ready DEF HolderTypeOK, RestTypeOK, Fits, Inv, Noted
<1>4. Placed'
  BY <1>1 DEF Inv, Placed, Phase
<1> QED BY <1>1, <1>2, <1>3, <1>4, Moves DEF KeepsOrQuiet

-----------------------------------------------------------------------------
(* The invariant.                                                          *)

LEMMA InvInit == Init => Inv
<1> SUFFICES ASSUME Init
             PROVE  Inv
  OBVIOUS
<1>1. run \in RunSnapshot
  BY HarnessConstants DEF Init, RunSnapshot, Statuses
<1>2. HolderTypeOK
  BY Emptied, Sliceless, Unchecked DEF Init, HolderTypeOK
<1>3. 1 \in 1 .. MaxSessions /\ 0 \in 0 .. MaxDisturbances
  BY HarnessConstants
<1>4. DaemonTypeOK
  BY <1>3 DEF Init, DaemonTypeOK
<1>5. RestTypeOK
  BY <1>3 DEF Init, RestTypeOK
<1>6. Fits(run) /\ Placed /\ Noted
  BY DEF Init, Fits, Placed, Noted, Settled, Thinking, Acting
<1>7. Owned
  BY HarnessConstants DEF Init, Owned
<1> QED BY <1>1, <1>2, <1>4, <1>5, <1>6, <1>7, TypeParts DEF Inv

LEMMA InvStutter ==
    ASSUME Inv, UNCHANGED vars
    PROVE  Inv'
<1>1. /\ UNCHANGED <<run, line, op, prefetch, job, stopped, opened, target, draft, disturbed, excused, swapped>>
      /\ UNCHANGED <<pc, slice, check, ctl>>
  BY DEF vars, holderVars, daemonVars
<1>2. TypeOK' /\ Fits(run)' /\ Noted'
  BY <1>1 DEF Inv, TypeOK, Fits, Noted
<1>3. Owned' /\ Placed'
  BY <1>1 DEF Inv, Owned, Placed, Phase
<1> QED BY <1>2, <1>3 DEF Inv

LEMMA InvStep == Inv /\ [Next]_vars => Inv'
<1> SUFFICES ASSUME Inv, [Next]_vars
             PROVE  Inv'
  OBVIOUS
<1>1. CASE UNCHANGED vars
  BY <1>1, InvStutter
<1>2. CASE Requests \/ Load
  BY <1>2, RequestStep, OperatorCancelsStep, LoadStep DEF Requests
<1>3. CASE Handler
  <2>1. CASE OperatorQueues \/ Pause \/ Steer \/ Abort \/ AbortConfirmed \/ Continue \/ Reopened
    BY <2>1, RequestStep, PauseStep, SteerStep, AbortStep, AbortConfirmedStep, ContinueStep, ReopenedStep
  <2>2. CASE \/ BudgetReached \/ ObserveOnly \/ FastPath \/ AskPlan \/ PlanAnswered
             \/ AskControl \/ ControlAnswered \/ Adopt \/ Replanned
    BY <2>2, BudgetReachedStep, ObserveOnlyStep, FastPathStep, AskStep, PlanAnsweredStep,
       ControlAnsweredStep, AdoptStep, ReplannedStep
  <2>3. CASE \/ Attempt \/ Send
             \/ AcceptOther \/ AcceptHeld \/ AcceptRefused \/ AcceptUnread \/ AcceptFailed \/ AcceptCompleted
    BY <2>3, AttemptStep, SendStep, AcceptOtherStep, AcceptHeldStep, AcceptRefusedStep,
       AcceptUnreadStep, AcceptFailedStep, AcceptCompletedStep
  <2>4. CASE Dismissed \/ Renavigated \/ Freshened \/ FreshenedElsewhere
    BY <2>4, DismissedStep, RenavigatedStep, FreshenedStep, FreshenedElsewhereStep
  <2>5. CASE \/ EvidenceRefreshed \/ VerifierAnswered \/ DelayedFrame \/ NoDelayedFrame \/ VerifiedElsewhere
             \/ SpeculationAnswered \/ Joined
    BY <2>5, EvidenceRefreshedStep, VerifierAnsweredStep, DelayedFrameStep, NoDelayedFrameStep,
       VerifiedElsewhereStep, SpeculationAnsweredStep, JoinedStep
  <2>6. CASE Resolve \/ TakenOver \/ Rejected \/ Quit
    BY <2>6, ResolveStep, TakenOverStep, RejectedStep, QuitStep
  <2> QED BY <1>3, <2>1, <2>2, <2>3, <2>4, <2>5, <2>6 DEF Handler
<1>4. CASE Failure
  BY <1>4, AbortFailsStep, ReopenFailsStep, ModelFailsStep, TransportFailsStep, DismissFailsStep,
     RenavigateFailsStep, FreshenFailsStep, CheckFailsStep, SpeculationFailsStep, ResolveFailsStep
     DEF Failure
<1>5. CASE DaemonStep \/ Restart \/ TargetChanges
  BY <1>5, DaemonMoves, RestartStep, TargetChangesStep
<1> QED BY <1>1, <1>2, <1>3, <1>4, <1>5 DEF Next

-----------------------------------------------------------------------------
(* What the daemon may start.                                              *)

NothingStarts ==
    \A s \in 1 .. MaxSessions, k \in Key : job'[<<s, k>>] = "running" => job[<<s, k>>] = "running"

LEMMA Quiet ==
    ASSUME Inv, run.pending # Nothing, NEW phase \in {"none", "asked", "refused", "granted", "denied"},
           \/ job' = job
           \/ job' = [job EXCEPT ![<<run.session, run.pending>>] = phase]
    PROVE  NothingStarts
<1>1. job \in [(1 .. MaxSessions) \X Key -> InFlight \cup Ended \cup {"none", "refused"}]
  BY Ready DEF TypeOK
<1> QED BY <1>1 DEF NothingStarts

LEMMA RunStartsNothing ==
    ASSUME Inv, Handler \/ Failure
    PROVE  NothingStarts
<1>1. CASE job' = job
  BY <1>1 DEF NothingStarts
<1>2. CASE Send
  <2>1. pc \in Acting
    BY <1>2 DEF Send, Acting
  <2>2. run.pending # Nothing /\ Phase \in InFlight \cup Ended \cup {"none", "refused"}
    BY <2>1, InAction
  <2>3. job' = [job EXCEPT ![<<run.session, run.pending>>] = "asked"] \/ job' = job
    <3>1. job \in [(1 .. MaxSessions) \X Key -> InFlight \cup Ended \cup {"none", "refused"}]
      BY Ready DEF TypeOK
    <3> QED BY <1>2, <3>1 DEF Send
  <2> QED BY <2>2, <2>3, Quiet
<1>3. CASE AnswerRead /\ pc \in Acting
  BY <1>3, InAction, Quiet DEF AnswerRead
<1>4. CASE Dismissed \/ DismissFails
  <2>1. pc \in Acting
    BY <1>4 DEF Dismissed, DismissFails, Acting
  <2> QED BY <1>4, <2>1, InAction, Quiet DEF Dismissed, DismissFails
<1>5. CASE Resolve
  <2>1. CASE run.status # "needs_approval" \/ ~run.hold
    BY <1>1, <1>5, <2>1 DEF Resolve
  <2>2. CASE run.status = "needs_approval" /\ run.hold
    <3>1. run.pending # Nothing
      BY <2>2, Ready DEF Fits
    <3>2. job \in [(1 .. MaxSessions) \X Key -> InFlight \cup Ended \cup {"none", "refused"}]
      BY Ready DEF TypeOK
    <3>3. \/ job' = [job EXCEPT ![<<run.session, run.pending>>] = "granted"]
          \/ job' = [job EXCEPT ![<<run.session, run.pending>>] = "denied"] \/ job' = job
      BY <1>5, <2>2, <3>2 DEF Resolve
    <3> QED BY <3>1, <3>3, Quiet
  <2> QED BY <2>1, <2>2
<1>6. CASE Handler /\ ~Send /\ ~Dismissed /\ ~Resolve
  <2>1. CASE AcceptUnread \/ AcceptCompleted \/ Freshened
    BY <1>3, <2>1, AnsweredFacts DEF AcceptUnread, AcceptCompleted, Freshened, Acting
  <2>2. CASE ~(AcceptUnread \/ AcceptCompleted \/ Freshened)
    <3>1. job' = job
      BY <1>6, <2>2 DEF Handler, daemonVars, OperatorQueues, Pause, Steer, Abort, AbortConfirmed,
         Continue, Reopened, BudgetReached, ObserveOnly, FastPath, AskPlan, PlanAnswered, AskControl,
         ControlAnswered, Adopt, Replanned, Attempt, AcceptOther, AcceptHeld, AcceptRefused,
         AcceptFailed, Renavigated, FreshenedElsewhere, EvidenceRefreshed, VerifierAnswered,
         DelayedFrame, NoDelayedFrame, VerifiedElsewhere, SpeculationAnswered, Joined, TakenOver,
         Rejected, Quit
    <3> QED BY <1>1, <3>1
  <2> QED BY <2>1, <2>2
<1>7. CASE Failure /\ ~DismissFails
  <2>1. CASE FreshenFails
    BY <1>3, <2>1 DEF FreshenFails, Acting
  <2>2. CASE ~FreshenFails
    <3>1. job' = job
      BY <1>7, <2>2 DEF Failure, daemonVars, AbortFails, ReopenFails, ModelFails, TransportFails,
         RenavigateFails, EvidenceMissing, VerifierFails, SpeculationFails, ResolveFails
    <3> QED BY <1>1, <3>1
  <2> QED BY <2>1, <2>2
<1> QED BY <1>2, <1>4, <1>5, <1>6, <1>7

LEMMA OnlyExecutes ==
    ASSUME Inv, [Next]_vars, NEW s \in 1 .. MaxSessions, NEW k \in Key, Starts(s, k)
    PROVE  Executes(s, k)
<1>1. ~NothingStarts
  BY DEF Starts, NothingStarts
<1>2. job' # job
  BY DEF Starts
<1>3. DaemonStep
  BY <1>1, <1>2, RunStartsNothing
     DEF Next, vars, daemonVars, Requests, ContinueRequested, ApprovalRequested, OperatorCancels,
         Load, Restart, TargetChanges
<1>4. PICK z \in 1 .. MaxSessions, q \in Key : Executes(z, q) \/ Declines(z, q) \/ EndsExecution(z, q)
  BY <1>3 DEF DaemonStep
<1>5. job \in [(1 .. MaxSessions) \X Key -> InFlight \cup Ended \cup {"none", "refused"}]
  BY Ready DEF TypeOK
<1>6. z = s /\ q = k
  BY <1>4, <1>5 DEF Starts, Executes, Declines, EndsExecution, Becomes
<1>7. ~Declines(z, q) /\ ~EndsExecution(z, q)
  BY <1>5, <1>6 DEF Starts, Declines, EndsExecution, Becomes, Ended
<1> QED BY <1>4, <1>6, <1>7

LEMMA StartsPending ==
    ASSUME Inv, [Next]_vars, NEW k \in Key, Starts(run.session, k)
    PROVE  k = run.pending /\ k.index = run.next /\ run.status \notin Settled
<1>1. run.session \in 1 .. MaxSessions
  BY Ready DEF RunSnapshot
<1>2. job[<<run.session, k>>] \in {"asked", "granted"} /\ run.session \notin stopped
  BY <1>1, OnlyExecutes DEF Executes
<1>3. k = run.pending
  BY <1>2 DEF Inv, Owned
<1> QED BY <1>3, KeyForm, Ready DEF Fits

(* A run that has ended, and was not interrupted, has nobody at work.      *)
LEMMA SettledRests ==
    ASSUME Inv, run.status \in Settled, ~run.gap, ctl = "off"
    PROVE  pc = "idle"
<1>1. run.pending = Nothing
  BY Ready DEF Fits
<1>2. pc \notin {"loop", "plan", "control", "replan", "abort", "reopen", "check"} \cup Acting
  BY <1>1 DEF Inv, Placed, Thinking
<1> QED BY <1>2, Ready DEF HolderTypeOK, Acting

LEMMA SettledKept ==
    ASSUME Inv, [Next]_vars, run.status \in Settled, ~run.gap, ctl = "off"
    PROVE  run'.status = run.status
<1>1. pc = "idle"
  BY SettledRests
<1>2. CASE run' = run
  BY <1>2
<1>3. CASE Released(run) /\ line # <<>>
  BY <1>3, Ready, ReleasedSaves DEF Saves
<1>4. CASE Pause \/ Steer \/ Abort \/ Continue \/ Resolve
  <2>1. line # <<>>
    BY <1>4 DEF Pause, Steer, Abort, Continue, Resolve, Holds
  <2>2. Released(run)
    BY <1>4 DEF Pause, Steer, Abort, Continue, Resolve, Settled, TERMINAL_RUN_STATUSES
  <2> QED BY <1>3, <2>1, <2>2
<1>5. CASE Restart
  <2>1. Interrupted(run) = run
    BY DEF Interrupted, Settled
  <2> QED BY <1>2, <1>5, <2>1 DEF Restart
<1>6. CASE Handler /\ ~(Pause \/ Steer \/ Abort \/ Continue \/ Resolve)
  <2>1. OperatorQueues
    BY <1>1, <1>6 DEF Handler, AbortConfirmed, Reopened, BudgetReached, ObserveOnly, FastPath,
       AskPlan, PlanAnswered, AskControl, ControlAnswered, Adopt, Replanned, Attempt, Send, MayAct,
       AcceptOther, AcceptHeld, AcceptRefused, AcceptUnread, AcceptFailed, AcceptCompleted, Answered,
       Dismissed, Renavigated, Freshened, FreshenedElsewhere, EvidenceRefreshed, VerifierAnswered,
       DelayedFrame, NoDelayedFrame, VerifiedElsewhere, SpeculationAnswered, Joined, TakenOver,
       Rejected, Quit
  <2> QED BY <1>2, <2>1 DEF OperatorQueues
<1>7. CASE Failure
  BY <1>1, <1>7 DEF Failure, AbortFails, ReopenFails, ModelFails, TransportFails, DismissFails,
     RenavigateFails, FreshenFails, EvidenceMissing, VerifierFails, SpeculationFails, ResolveFails
<1>8. CASE Requests \/ DaemonStep \/ TargetChanges \/ UNCHANGED vars
  BY <1>2, <1>8 DEF Requests, ContinueRequested, ApprovalRequested, OperatorCancels, DaemonStep,
     Executes, Declines, EndsExecution, External, TargetChanges, vars
<1>9. CASE Load
  BY <1>9, Loaded
<1> QED BY <1>4, <1>5, <1>6, <1>7, <1>8, <1>9 DEF Next

-----------------------------------------------------------------------------
(* No blind input: the record knows of every surface whose text has not    *)
(* been read back, unless it is the pending action that typed it.          *)

Startable == {"asked", "granted"}
Begun == {"running"} \cup Ended
Quieted == {"failed", "aborted", "rejected"}

(* What the record, the holder and the machine say of each other.          *)
Known ==
    /\ run.gap => run.status \in {"paused", "aborted"}
    /\ run.status \in Quieted => run.pending = Nothing /\ (pc = "idle" \/ run.gap)
    /\ run.machine = 2 => target = 2
    /\ swapped = "overlapped" => run.machine = 2
    /\ swapped = "alone" =>
          \A k \in Key : run.session \notin stopped => job[<<run.session, k>>] \notin Startable
    /\ pc = "dismiss" => Phase \in {"held", "refused"}

(* Nothing is left to start in a session the run has left.                 *)
Elsewhere ==
    \A s \in 1 .. MaxSessions, k \in Key :
       s # run.session /\ s \notin stopped => job[<<s, k>>] \notin Startable

(* The pending action was chosen with what is unread in view.              *)
Chosen == run.pending # Nothing => ~_unsafe_unverified_input_followup(run.unread, run.pending.act)

TypedNow(u) == run.pending # Nothing /\ u \in Types(run.pending.act) /\ Phase \in Begun

Covered ==
    swapped # "alone" /\ (run.status \in Quieted => run.gap) =>
       \A u \in draft : u \in run.unread \/ TypedNow(u)

Sighted == Known /\ (~excused => Elsewhere /\ Chosen /\ Covered)

(* A record that goes on from the one saved.                               *)
Continues(q) ==
    /\ q.session = run.session /\ q.pending = run.pending /\ q.unread = run.unread
    /\ q.gap = run.gap /\ q.machine \in {run.machine, target}
    /\ \/ q.status = run.status
       \/ /\ q.status \notin Quieted /\ (run.gap => q.status = "paused")
          /\ run.status \in Quieted /\ ~run.gap => excused'

(* What the daemon may have done meanwhile: what it starts belongs to the  *)
(* run's session, and an action once begun stays so.                       *)
Serving ==
    /\ \A s \in 1 .. MaxSessions, k \in Key :
          job'[<<s, k>>] \in Startable =>
             job[<<s, k>>] \in Startable \/ (s = run.session /\ swapped # "alone")
    /\ run.pending # Nothing /\ Phase \in Begun => job'[<<run.session, run.pending>>] \in Begun
    /\ stopped \subseteq stopped'

Outside ==
    /\ target' \in {target, 2} /\ (excused => excused')
    /\ \/ swapped' = swapped
       \/ swapped # "alone" /\ swapped' = "overlapped" /\ run'.machine = 2

LEMMA Carried ==
    ASSUME Inv, Sighted, Continues(run'), Serving, Outside,
           pc' = "dismiss" => Phase' \in {"held", "refused"},
           run'.status \in Quieted => pc' = "idle" \/ run.gap,
           \A u \in draft' : u \in draft \/ excused' \/ TypedNow(u)'
    PROVE  Sighted'
<1>1. run.session \in 1 .. MaxSessions /\ run.machine \in {1, 2} /\ target \in {1, 2}
  BY Ready DEF RunSnapshot
<1>2. Known'
  <2>1. run'.gap => run'.status \in {"paused", "aborted"}
    BY DEF Sighted, Known, Continues
  <2>2. run'.status \in Quieted => run'.pending = Nothing /\ (pc' = "idle" \/ run'.gap)
    BY DEF Sighted, Known, Continues
  <2>3. /\ run'.machine = 2 => target' = 2
        /\ swapped' = "overlapped" => run'.machine = 2
    BY <1>1 DEF Sighted, Known, Continues, Outside
  <2>4. swapped' = "alone" =>
          \A k \in Key : run'.session \notin stopped' => job'[<<run'.session, k>>] \notin Startable
    BY <1>1 DEF Sighted, Known, Continues, Outside, Serving
  <2> QED BY <2>1, <2>2, <2>3, <2>4 DEF Known, Startable
<1>3. ASSUME ~excused'
      PROVE  Elsewhere' /\ Chosen' /\ Covered'
  <2>1. ~excused /\ Elsewhere /\ Chosen /\ Covered
    BY <1>3 DEF Outside, Sighted
  <2>2. Elsewhere'
    BY <2>1 DEF Elsewhere, Continues, Serving, Startable
  <2>3. Chosen'
    BY <2>1 DEF Chosen, Continues
  <2>4. Covered'
    <3> SUFFICES ASSUME swapped' # "alone", run'.status \in Quieted => run'.gap, NEW u \in draft'
                 PROVE  u \in run'.unread \/ TypedNow(u)'
      BY DEF Covered, Quieted
    <3>1. swapped # "alone" /\ (run.status \in Quieted => run.gap)
      BY <1>3 DEF Outside, Continues
    <3>2. u \in draft => u \in run.unread \/ TypedNow(u)
      BY <2>1, <3>1 DEF Covered
    <3>3. TypedNow(u) => TypedNow(u)'
      BY DEF TypedNow, Continues, Serving, Phase, Begun, Types, Ended
    <3> QED BY <1>3, <3>2, <3>3 DEF Continues
  <2> QED BY <2>2, <2>3, <2>4
<1> QED BY <1>2, <1>3 DEF Sighted

-----------------------------------------------------------------------------
(* The records that a step may save.                                       *)

Kin(q, r) ==
    /\ q \in RunSnapshot
    /\ q.session = r.session /\ q.pending = r.pending /\ q.unread = r.unread
    /\ q.gap = r.gap /\ q.machine = r.machine

LEMMA KinForms ==
    ASSUME NEW r \in RunSnapshot
    PROVE  /\ Kin(Paused(r), r) /\ Paused(r).status = "paused"
           /\ Kin(Yielded(r), r) /\ Yielded(r).status = "paused"
           /\ Kin(Blocked(r), r) /\ Blocked(r).status = "blocked"
           /\ Kin(Unplanned(r), r) /\ Unplanned(r).status = r.status
<1>1. Kin(Paused(r), r) /\ Paused(r).status = "paused"
  BY DEF Kin, Paused, RunSnapshot, Statuses
<1>2. Kin(Yielded(r), r) /\ Yielded(r).status = "paused"
  BY DEF Kin, Yielded, RunSnapshot, Statuses
<1>3. Kin(Blocked(r), r) /\ Blocked(r).status = "blocked"
  BY DEF Kin, Blocked, RunSnapshot, Statuses, TERMINAL_RUN_STATUSES
<1>4. Kin(Unplanned(r), r) /\ Unplanned(r).status = r.status
  BY DEF Kin, Unplanned, RunSnapshot
<1> QED BY <1>1, <1>2, <1>3, <1>4

LEMMA DroppedKin ==
    ASSUME NEW r \in RunSnapshot
    PROVE  /\ Dropped(r) \in RunSnapshot /\ Dropped(r).pending = Nothing
           /\ Dropped(r).session = r.session /\ Dropped(r).unread = r.unread
           /\ Dropped(r).gap = r.gap /\ Dropped(r).machine = r.machine
           /\ Dropped(r).status = r.status
BY DEF Dropped, RunSnapshot

(* What is saved when a slice ends or an action is accepted.               *)
LEMMA Lands ==
    ASSUME NEW r \in RunSnapshot, Released(r) \/ AfterAction(r)
    PROVE  /\ Kin(run', r) /\ run'.status = r.status
           /\ pc' \in {"idle", "loop"} /\ (r.status \in Quieted => pc' = "idle")
<1>1. CASE Released(r)
  <2>1. CASE run' = r
    BY <1>1, <2>1 DEF Kin, Released
  <2>2. CASE run' = Paused(r) /\ r.status = "paused"
    BY <1>1, <2>2, KinForms DEF Released
  <2>3. CASE run' = [r EXCEPT !.resumes = @ + 1] /\ r.resumes < MaxResumes
    <3>1. Kin(run', r) /\ run'.status = r.status
      BY <2>3, HarnessConstants DEF Kin, RunSnapshot
    <3> QED BY <1>1, <3>1 DEF Released
  <2> QED BY <1>1, <2>1, <2>2, <2>3 DEF Released
<1>2. CASE AfterAction(r) /\ ~Released(r)
  BY <1>2 DEF AfterAction, Kin, Goes, TERMINAL_RUN_STATUSES, Settled, Quieted
<1> QED BY <1>1, <1>2

(* Neither the daemon nor the machine has moved.                           *)
LEMMA Stillness ==
    ASSUME UNCHANGED <<daemonVars, swapped>>, excused => excused'
    PROVE  Serving /\ Outside /\ draft' = draft
BY DEF daemonVars, Serving, Outside, Phase

LEMMA Concluded ==
    ASSUME Inv, Sighted, NEW r \in RunSnapshot, Continues(r), Released(r) \/ AfterAction(r),
           Serving, Outside, draft' \subseteq draft
    PROVE  Sighted'
<1>1. /\ Kin(run', r) /\ run'.status = r.status
      /\ pc' \in {"idle", "loop"} /\ (r.status \in Quieted => pc' = "idle")
  BY Lands
<1>2. Continues(run')
  BY <1>1 DEF Kin, Continues
<1> QED BY <1>1, <1>2, Carried

(* The forms that go on from the record, whatever its status was, as long  *)
(* as it had not ended.                                                    *)
LEMMA Onward ==
    ASSUME Inv, run.status \notin Quieted \/ run.gap
    PROVE  /\ Paused(run) \in RunSnapshot /\ Continues(Paused(run))
           /\ Yielded(run) \in RunSnapshot /\ Continues(Yielded(run))
           /\ Paused(Unplanned(run)) \in RunSnapshot /\ Continues(Paused(Unplanned(run)))
           /\ run \in RunSnapshot /\ Continues(run)
           /\ ~run.gap => Blocked(run) \in RunSnapshot /\ Continues(Blocked(run))
<1>1. run \in RunSnapshot
  BY Ready
<1>2. Unplanned(run) \in RunSnapshot
  BY <1>1, KinForms DEF Kin
<1>3. Kin(Paused(Unplanned(run)), run) /\ Paused(Unplanned(run)).status = "paused"
  BY <1>1, <1>2, KinForms DEF Kin
<1> QED BY <1>1, <1>3, KinForms DEF Kin, Continues, Quieted

-----------------------------------------------------------------------------
(* The supervisor.                                                         *)

(* A step that saves nothing new and does not turn to the dialog.          *)
LEMMA Stays ==
    ASSUME Inv, Sighted, UNCHANGED <<run, daemonVars, swapped>>, excused => excused', pc' # "dismiss",
           pc' = pc \/ pc' = "idle" \/ run.gap \/ run.status \notin Quieted
    PROVE  Sighted'
<1>1. Continues(run')
  BY DEF Continues
<1>2. Serving /\ Outside /\ draft' = draft
  BY Stillness
<1>3. run'.status \in Quieted => pc' = "idle" \/ run.gap
  BY DEF Sighted, Known
<1> QED BY <1>1, <1>2, <1>3, Carried

LEMMA UnchangedSighted ==
    ASSUME Inv, Sighted, UNCHANGED <<run, pc, daemonVars, swapped, excused>>
    PROVE  Sighted'
<1>1. CASE pc # "dismiss"
  BY <1>1, Stays
<1>2. CASE pc = "dismiss"
  <2>1. Continues(run') /\ Serving /\ Outside /\ draft' = draft
    BY Stillness DEF Continues
  <2>2. Phase' \in {"held", "refused"}
    BY <1>2 DEF Sighted, Known, Phase, daemonVars
  <2>3. run'.status \in Quieted => run.gap
    BY <1>2 DEF Sighted, Known
  <2> QED BY <2>1, <2>2, <2>3, Carried
<1> QED BY <1>1, <1>2

LEMMA RequestsSighted ==
    ASSUME Inv, Sighted, ContinueRequested \/ ApprovalRequested \/ OperatorCancels \/ OperatorQueues
    PROVE  Sighted'
<1>1. CASE OperatorCancels
  BY <1>1, Stays DEF OperatorCancels
<1>2. CASE ContinueRequested \/ ApprovalRequested \/ OperatorQueues
  BY <1>2, UnchangedSighted DEF ContinueRequested, ApprovalRequested, OperatorQueues, holderVars
<1> QED BY <1>1, <1>2

LEMMA PauseSighted ==
    ASSUME Inv, Sighted, Pause \/ Steer \/ Abort
    PROVE  Sighted'
<1>1. UNCHANGED <<daemonVars, excused, swapped>>
  BY DEF Pause, Steer, Abort
<1>2. Serving /\ Outside /\ draft' = draft /\ Continues(run) /\ run \in RunSnapshot
  BY <1>1, Stillness, Ready DEF Continues
<1>3. CASE Released(run)
  BY <1>2, <1>3, Concluded
<1>4. CASE Released(Paused(run)) /\ run.status \notin TERMINAL_RUN_STATUSES
  BY <1>2, <1>4, Onward, Concluded DEF Quieted, TERMINAL_RUN_STATUSES, Settled
<1>5. CASE Released(Paused(Unplanned(run))) /\ run.status \notin TERMINAL_RUN_STATUSES \ {"blocked"}
  BY <1>2, <1>5, Onward, Concluded DEF Quieted, TERMINAL_RUN_STATUSES, Settled
<1>6. CASE pc' = "abort" /\ run' = run /\ run.status \notin TERMINAL_RUN_STATUSES
  BY <1>1, <1>6, Stays DEF Quieted, TERMINAL_RUN_STATUSES, Settled
<1> QED BY <1>3, <1>4, <1>5, <1>6 DEF Pause, Steer, Abort, Goes

LEMMA AbortConfirmedSighted ==
    ASSUME Inv, Sighted, AbortConfirmed
    PROVE  Sighted'
<1>1. PICK q : q = [Dropped(run) EXCEPT !.status = "aborted", !.tail = "other"]
  OBVIOUS
<1>2. /\ q \in RunSnapshot /\ q.status = "aborted" /\ q.pending = Nothing /\ q.session = run.session
      /\ q.unread = run.unread /\ q.gap = run.gap /\ q.machine = run.machine
  BY <1>1, Ready, DroppedKin, ZenonT(30) DEF RunSnapshot, Statuses, TERMINAL_RUN_STATUSES, Settled
<1>3. Released(q) /\ UNCHANGED <<job, target, draft, swapped>> /\ stopped \subseteq stopped'
  BY <1>1 DEF AbortConfirmed
<1>4. Kin(run', q) /\ run'.status = "aborted" /\ pc' = "idle"
  BY <1>2, <1>3, Lands DEF Quieted
<1>5. swapped # "alone"
  BY Ready DEF AbortConfirmed
<1>6. Known'
  BY <1>2, <1>3, <1>4, <1>5 DEF Sighted, Known, Kin, Quieted
<1>7. ASSUME ~excused'
      PROVE  Elsewhere' /\ Chosen' /\ Covered'
  <2>1. ~excused /\ run.pending = Nothing
    BY <1>7 DEF AbortConfirmed
  <2>2. Elsewhere' /\ Chosen'
    BY <1>2, <1>3, <1>4, <2>1 DEF Sighted, Elsewhere, Chosen, Kin
  <2>3. Covered'
    BY <1>2, <1>3, <1>4, <1>5, <2>1 DEF Sighted, Covered, TypedNow, Kin, Quieted
  <2> QED BY <2>2, <2>3
<1> QED BY <1>6, <1>7 DEF Sighted

LEMMA AbortFailsSighted ==
    ASSUME Inv, Sighted, AbortFails
    PROVE  Sighted'
<1>1. Continues(run) /\ run \in RunSnapshot
  BY Ready DEF Continues
<1>2. Serving /\ Outside /\ draft' = draft
  BY DEF AbortFails, Serving, Outside, Phase
<1> QED BY <1>1, <1>2, Concluded DEF AbortFails

LEMMA RestartSighted ==
    ASSUME Inv, Sighted, Restart
    PROVE  Sighted'
<1>1. UNCHANGED <<daemonVars, excused, swapped>> /\ pc' = "idle" /\ run' = Interrupted(run)
  BY DEF Restart
<1>2. CASE run' = run
  BY <1>1, <1>2, Stays
<1>3. CASE /\ run.status \in {"running", "paused"}
           /\ run' = [run EXCEPT !.status = "paused", !.tail = "interrupted", !.gap = TRUE]
  <2>1. /\ run'.status = "paused" /\ run'.session = run.session /\ run'.pending = run.pending
        /\ run'.unread = run.unread /\ run'.machine = run.machine
    BY <1>3, Ready DEF RunSnapshot
  <2>2. swapped # "alone" /\ run.status \notin Quieted
    BY <1>3 DEF Inv, Noted, Quieted
  <2>3. Known'
    BY <1>1, <2>1, <2>2 DEF Sighted, Known, daemonVars, Quieted
  <2>4. Elsewhere => Elsewhere'
    BY <1>1, <2>1 DEF Elsewhere, daemonVars
  <2>5. Chosen => Chosen'
    BY <2>1 DEF Chosen
  <2>6. Covered => Covered'
    BY <1>1, <2>1, <2>2 DEF Covered, TypedNow, Phase, daemonVars
  <2> QED BY <1>1, <2>3, <2>4, <2>5, <2>6 DEF Sighted
<1> QED BY <1>1, <1>2, <1>3 DEF Interrupted

-----------------------------------------------------------------------------
(* continue_run, planning and control.                                     *)

LEMMA ContinueSighted ==
    ASSUME Inv, Sighted, Continue
    PROVE  Sighted'
<1>1. UNCHANGED <<daemonVars, swapped>> /\ (excused => excused')
  <2>1. UNCHANGED <<daemonVars, swapped>>
    BY DEF Continue
  <2>2. excused' = excused \/ excused' = (excused \/ run.status = "failed")
    BY DEF Continue
  <2>3. excused' = (excused \/ run.status = "failed") => (excused => excused')
    OBVIOUS
  <2> QED BY <2>1, <2>2, <2>3
<1>2. Serving /\ Outside /\ draft' = draft /\ run \in RunSnapshot
  BY <1>1, Stillness, Ready
<1>3. CASE run.gap /\ pc' = "reopen" /\ run' = run
  BY <1>1, <1>3, Stays
<1>4. CASE Released(run)
  BY <1>2, <1>4, Concluded DEF Continues
<1>5. CASE /\ ~run.gap /\ pc' = "loop"
           /\ \/ /\ run.status \in {"running", "paused"}
                 /\ run' = [run EXCEPT !.status = "running", !.tail = "other"]
              \/ /\ run.status \in {"blocked", "failed"}
                 /\ run' = [Unplanned(run) EXCEPT !.status = "running", !.tail = "other"]
                 /\ run.status = "failed" => excused'
  <2>1. Kin(Unplanned(run), run)
    BY <1>2, KinForms
  <2>2. /\ run'.status = "running" /\ run'.session = run.session /\ run'.pending = run.pending
        /\ run'.unread = run.unread /\ run'.machine = run.machine /\ run'.gap = run.gap
    BY <1>2, <1>5, <2>1 DEF RunSnapshot, Kin
  <2>3. Continues(run')
    BY <1>5, <2>2 DEF Continues, Quieted
  <2> QED BY <1>2, <1>5, <2>2, <2>3, Carried DEF Quieted
<1> QED BY <1>3, <1>4, <1>5 DEF Continue, Goes

(* What the loaded events do not report, the record does not know, and the *)
(* promise does not cover.                                                 *)
LEMMA LoadSighted ==
    ASSUME Inv, Sighted, Load
    PROVE  Sighted'
<1>2. /\ (run'.gap => run.gap) /\ run'.unread \subseteq run.unread /\ run'.status = run.status
      /\ run'.session = run.session /\ run'.pending = run.pending /\ run'.machine = run.machine
      /\ draft' = draft \ (run.unread \ run'.unread)
  BY Loaded
<1>3. pc = "idle" /\ UNCHANGED <<pc, job, stopped, target, excused, swapped>>
  BY DEF Load, holderVars
<1>5. Known'
  BY <1>2, <1>3 DEF Sighted, Known
<1>6. Elsewhere => Elsewhere'
  BY <1>2, <1>3 DEF Elsewhere
<1>7. Chosen => Chosen'
  BY <1>2 DEF Chosen, _unsafe_unverified_input_followup
<1>8. Covered => Covered'
  <2> SUFFICES ASSUME Covered, swapped' # "alone", run'.status \in Quieted => run'.gap, NEW u \in draft'
               PROVE  u \in run'.unread \/ TypedNow(u)'
    BY DEF Covered
  <2>1. u \in draft /\ (u \in run.unread => u \in run'.unread)
    BY <1>2
  <2>2. u \in run.unread \/ TypedNow(u)
    BY <1>2, <1>3, <2>1 DEF Covered
  <2>3. TypedNow(u) => TypedNow(u)'
    BY <1>2, <1>3 DEF TypedNow, Phase
  <2> QED BY <2>1, <2>2, <2>3
<1> QED BY <1>3, <1>5, <1>6, <1>7, <1>8 DEF Sighted


(* The session just opened is the next one, and knows no action.           *)
LEMMA Unheard ==
    ASSUME Inv, opened < MaxSessions, opened' = opened + 1
    PROVE  /\ run.session # opened'
           /\ \A k \in Key : job[<<opened', k>>] = "none"
<1>1. opened \in Nat /\ MaxSessions \in Nat /\ run.session \in Nat /\ opened' \in 1 .. MaxSessions
  BY HarnessConstants, Ready, SMTT(30) DEF TypeOK, RunSnapshot
<1>2. run.session <= opened /\ opened' > opened
  BY <1>1 DEF Inv, Owned
<1> QED BY <1>1, <1>2 DEF Inv, Owned

(* A new session, when the old one has nothing of the run's left to start. *)
LEMMA Moved ==
    ASSUME Inv, Sighted, opened < MaxSessions, opened' = opened + 1,
           UNCHANGED <<job, stopped, target, draft, swapped>>, excused => excused',
           run'.session = opened', run'.pending = Nothing, run'.unread = run.unread,
           run'.status \notin Quieted, ~run'.gap, run'.machine \in {run.machine, target},
           pc' \in {"idle", "loop"}, swapped # "alone", run.status \in Quieted => run.gap,
           excused' \/ (\A k \in Key : run.session \notin stopped => job[<<run.session, k>>] \notin Startable),
           excused' \/ run.pending = Nothing \/ Phase \notin Begun
    PROVE  Sighted'
<1>1. run.machine \in {1, 2} /\ target \in {1, 2}
  BY Ready DEF RunSnapshot
<1>2. Known'
  BY <1>1 DEF Sighted, Known
<1>3. ASSUME ~excused'
      PROVE  Elsewhere' /\ Chosen' /\ Covered'
  <2>1. ~excused /\ Elsewhere /\ Covered
    BY <1>3 DEF Sighted
  <2>2. Elsewhere'
    BY <1>3, <2>1 DEF Elsewhere
  <2>3. Covered' /\ Chosen'
    BY <1>3, <2>1 DEF Covered, Chosen, TypedNow
  <2> QED BY <2>2, <2>3
<1> QED BY <1>2, <1>3 DEF Sighted

LEMMA NonePending ==
    ASSUME Inv, run.pending = Nothing
    PROVE  \A k \in Key : run.session \notin stopped => job[<<run.session, k>>] \notin Startable
BY KeyForm DEF Inv, Owned, Startable

LEMMA ReopenedSighted ==
    ASSUME Inv, Sighted, Reopened
    PROVE  Sighted'
<1>1. PICK q : q = [Dropped(run) EXCEPT !.session = opened', !.disagreed = FALSE, !.gap = FALSE,
                                        !.status = "running", !.tail = "other", !.machine = target]
  OBVIOUS
<1>2. run' = q /\ pc' = "loop" /\ run.gap /\ swapped # "alone"
  BY <1>1, Ready DEF Reopened, Goes, Inv, Placed
<1>3. /\ q.session = opened' /\ q.pending = Nothing /\ q.unread = run.unread
      /\ q.status = "running" /\ ~q.gap /\ q.machine = target
  BY <1>1, Ready, DroppedKin DEF RunSnapshot
<1>4. excused' \/ run.pending = Nothing
  BY DEF Reopened
<1> QED BY <1>2, <1>3, <1>4, NonePending, Moved DEF Reopened, Quieted

LEMMA BudgetSighted ==
    ASSUME Inv, Sighted, BudgetReached \/ ModelFails \/ Replanned \/ ReopenFails
    PROVE  Sighted'
<1>1. /\ UNCHANGED <<daemonVars, excused, swapped>> /\ pc # "idle"
  BY DEF BudgetReached, ModelFails, Replanned, ReopenFails
<1>2. run.status \notin Quieted \/ run.gap
  BY <1>1 DEF Sighted, Known
<1>3. Serving /\ Outside /\ draft' = draft
  BY <1>1, Stillness
<1>4. CASE Released(Yielded(run)) \/ Released(Paused(run))
  BY <1>2, <1>3, <1>4, Onward, Concluded
<1>5. CASE BudgetReached /\ Released([run EXCEPT !.status = "blocked", !.tail = "other"])
  <2>1. PICK q : q = [run EXCEPT !.status = "blocked", !.tail = "other"]
    OBVIOUS
  <2>2. q \in RunSnapshot /\ Continues(q)
    BY <1>2, <1>5, <2>1, InLoop, Ready
       DEF BudgetReached, RunSnapshot, Statuses, TERMINAL_RUN_STATUSES, Continues, Quieted
  <2> QED BY <1>3, <1>5, <2>1, <2>2, Concluded
<1>6. CASE Replanned
  <2>1. PICK m \in {run.machine, target} : Released([Paused(Unplanned(run)) EXCEPT !.machine = m])
    BY <1>6 DEF Replanned
  <2>2. PICK q : q = [Paused(Unplanned(run)) EXCEPT !.machine = m]
    OBVIOUS
  <2>3. /\ Paused(Unplanned(run)) \in RunSnapshot /\ Continues(Paused(Unplanned(run)))
        /\ Paused(Unplanned(run)).status = "paused" /\ m \in {1, 2}
    <3>1. run \in RunSnapshot /\ Unplanned(run) \in RunSnapshot /\ m \in {1, 2}
      BY Ready, KinForms DEF Kin, RunSnapshot
    <3> QED BY <1>2, <3>1, Onward, KinForms
  <2>4. q \in RunSnapshot /\ Continues(q)
    BY <1>2, <2>2, <2>3 DEF RunSnapshot, Continues, Quieted
  <2> QED BY <1>3, <2>1, <2>2, <2>4, Concluded
<1> QED BY <1>4, <1>5, <1>6 DEF BudgetReached, ModelFails, ReopenFails

LEMMA PlanSighted ==
    ASSUME Inv, Sighted, ObserveOnly \/ FastPath \/ AskPlan \/ PlanAnswered \/ AskControl \/ Attempt
    PROVE  Sighted'
<1>1. /\ UNCHANGED <<daemonVars, excused, swapped>> /\ pc \in {"loop", "plan"}
      /\ pc' \in {"loop", "plan", "check", "control", "send"}
  BY DEF ObserveOnly, FastPath, AskPlan, PlanAnswered, AskControl, Attempt, MayAct, Goes
<1>2. run.status \notin Quieted \/ run.gap
  BY <1>1 DEF Sighted, Known
<1>3. CASE run' = run
  BY <1>1, <1>2, <1>3, Stays
<1>4. CASE run' = [run EXCEPT !.plan = TRUE]
  <2>1. run'.status = run.status /\ Continues(run')
    BY <1>4, Ready DEF Continues, RunSnapshot
  <2> QED BY <1>1, <1>2, <2>1, Stillness, Carried
<1> QED BY <1>3, <1>4 DEF ObserveOnly, FastPath, AskPlan, PlanAnswered, AskControl, Attempt

(* A proposal becomes the pending action only if nothing unread forbids it, *)
(* or under the excuse of the turn that skips this test.                   *)
LEMMA ProposedSighted ==
    ASSUME Inv, Sighted, pc \in {"loop", "control"}, run.pending = Nothing, run.next < MaxIndex,
           NEW d \in Contents, run' = [run EXCEPT !.pending = [index |-> run.next, act |-> d]],
           pc' = "loop", UNCHANGED <<daemonVars, swapped>>, excused => excused',
           excused' \/ ~_unsafe_unverified_input_followup(run.unread, d)
    PROVE  Sighted'
<1>1. /\ run'.status = run.status /\ run'.session = run.session /\ run'.unread = run.unread
      /\ run'.machine = run.machine /\ run'.gap = run.gap
      /\ run'.pending = [index |-> run.next, act |-> d] /\ run'.pending.act = d
  BY Ready DEF RunSnapshot
<1>2. ~run.gap /\ swapped # "alone" /\ run.status \notin Quieted
  BY InLoop DEF Sighted, Known
<1>3. Known'
  BY <1>1, <1>2 DEF Sighted, Known, daemonVars
<1>4. Chosen' \/ excused'
  BY <1>1 DEF Chosen
<1>5. Elsewhere => Elsewhere'
  BY <1>1 DEF Elsewhere, daemonVars
<1>6. Covered => Covered'
  BY <1>1, <1>2 DEF Covered, TypedNow, daemonVars
<1> QED BY <1>3, <1>4, <1>5, <1>6 DEF Sighted

LEMMA ConsideredSighted ==
    ASSUME Inv, Sighted, pc \in {"loop", "control"}, run.pending = Nothing, run.next < MaxIndex,
           NEW why \in {"first", "nav", "unread", "long"}, NEW d \in Decisions, Considered(why, d),
           UNCHANGED <<daemonVars, swapped>>
    PROVE  Sighted'
<1>1. excused' = (excused \/ (why = "long" /\ _unsafe_unverified_input_followup(run.unread, d)))
  BY DEF Considered
<1>2. excused => excused'
  BY <1>1
<1>3. Serving /\ Outside /\ draft' = draft
  BY <1>2, Stillness
<1>4. ~run.gap /\ run.status \notin Quieted
  BY InLoop DEF Sighted, Known
<1>5. CASE Released(Paused(run)) \/ Released(Paused(Unplanned(run))) \/ Released(Blocked(run))
  BY <1>3, <1>4, <1>5, Onward, Concluded
<1>6. CASE Released([run EXCEPT !.status = "blocked", !.tail = "other"])
  <2>1. PICK q : q = [run EXCEPT !.status = "blocked", !.tail = "other"]
    OBVIOUS
  <2>2. q \in RunSnapshot /\ Continues(q)
    BY <1>4, <2>1, Ready DEF RunSnapshot, Statuses, TERMINAL_RUN_STATUSES, Continues, Quieted
  <2> QED BY <1>3, <1>6, <2>1, <2>2, Concluded
<1>7. CASE run' = run /\ pc' \in {"control", "replan", "check"}
  BY <1>2, <1>4, <1>7, Stays
<1>8. CASE /\ d \in Contents /\ pc' = "loop"
           /\ why = "long" \/ ~_unsafe_unverified_input_followup(run.unread, d)
           /\ run' = [run EXCEPT !.pending = [index |-> run.next, act |-> d]]
  <2>1. excused' \/ ~_unsafe_unverified_input_followup(run.unread, d)
    BY <1>1, <1>8
  <2> QED BY <1>2, <1>8, <2>1, ProposedSighted
<1> QED BY <1>5, <1>6, <1>7, <1>8 DEF Considered, Corrected, Proposed, Goes

LEMMA ControlSighted ==
    ASSUME Inv, Sighted, ControlAnswered \/ Adopt
    PROVE  Sighted'
<1>1. CASE ControlAnswered
  <2>1. pc = "control" /\ run.pending = Nothing /\ run.next < MaxIndex
    BY <1>1 DEF ControlAnswered, Inv, Placed, Thinking
  <2>2. slice.why \in {"first", "nav", "unread", "long"}
    BY Ready DEF HolderTypeOK
  <2> QED BY <1>1, <2>1, <2>2, ConsideredSighted DEF ControlAnswered
<1>2. CASE Adopt
  BY <1>2, ConsideredSighted DEF Adopt, MayAct
<1> QED BY <1>1, <1>2

-----------------------------------------------------------------------------
(* Execution.                                                              *)

LEMMA WhileActing ==
    ASSUME Inv, Sighted, pc \in Acting
    PROVE  /\ run.pending \in Key /\ run.session \in 1 .. MaxSessions /\ ~run.gap /\ ctl = "off"
           /\ run.status \notin Quieted /\ swapped # "alone"
           /\ ~SameMachine => swapped = "no"
<1>1. run.machine \in {1, 2} /\ target \in {1, 2} /\ swapped \in {"no", "alone", "overlapped"}
  BY Ready DEF RunSnapshot, RestTypeOK
<1> QED BY <1>1, InAction DEF Sighted, Known, SameMachine

(* A step that only moves the daemon's work on the pending action.         *)
LEMMA Handed ==
    ASSUME Inv, run.pending # Nothing, swapped # "alone", UNCHANGED <<stopped, target, excused, swapped>>,
           NEW phase, job' = [job EXCEPT ![<<run.session, run.pending>>] = phase]
    PROVE  /\ (Phase \in Begun => phase \in Begun) => Serving /\ Outside
           /\ job'[<<run.session, run.pending>>] = phase
           /\ \A s \in 1 .. MaxSessions, k \in Key : s # run.session => job'[<<s, k>>] = job[<<s, k>>]
<1>1. run.pending \in Key /\ run.session \in 1 .. MaxSessions
  BY Ready DEF RunSnapshot
<1>2. job'[<<run.session, run.pending>>] = phase
  BY <1>1, Ready DEF TypeOK
<1>3. \A s \in 1 .. MaxSessions, k \in Key : s # run.session => job'[<<s, k>>] = job[<<s, k>>]
  BY <1>1, Ready DEF TypeOK
<1> QED BY <1>1, <1>2, <1>3 DEF Serving, Outside

LEMMA SendSighted ==
    ASSUME Inv, Sighted, Send
    PROVE  Sighted'
<1>1. pc \in Acting /\ pc' = "burst" /\ run' = run
  BY DEF Send, Acting, Goes
<1>2. PICK phase : /\ phase = IF Phase \in {"none", "refused"} THEN "asked" ELSE Phase
                   /\ job' = [job EXCEPT ![<<run.session, run.pending>>] = phase]
  BY <1>1, WhileActing, Ready DEF Send, Phase, TypeOK
<1>3. Serving /\ Outside
  BY <1>1, <1>2, InAction, Handed DEF Send, Begun, Ended
<1> QED BY <1>1, <1>3, WhileActing, Carried DEF Send, Continues

LEMMA TransportSighted ==
    ASSUME Inv, Sighted, TransportFails \/ ResolveFails
    PROVE  Sighted'
<1>1. pc \in Acting /\ Serving /\ Outside /\ draft' = draft
  BY Stillness DEF TransportFails, ResolveFails, Acting
<1>2. Released(run) \/ Released(Paused(run))
  BY DEF TransportFails, ResolveFails
<1> QED BY <1>1, <1>2, WhileActing, Onward, Concluded

LEMMA TurnsSighted ==
    ASSUME Inv, Sighted, AcceptRefused \/ Rejected
    PROVE  Sighted'
<1>1. pc \in Acting /\ pc' \in {"freshen", "quit"} /\ UNCHANGED <<run, daemonVars, excused, swapped>>
  BY DEF AcceptRefused, Rejected, Answered, Acting, Goes
<1> QED BY <1>1, WhileActing, Stays

(* The daemon's question becomes the record's.                             *)
LEMMA AskingForm ==
    ASSUME Inv, ~run.gap, run.status \notin Quieted, NEW q,
           q = [run EXCEPT !.hold = TRUE, !.status = "needs_approval", !.tail = "other"]
    PROVE  q \in RunSnapshot /\ Continues(q)
BY Ready DEF RunSnapshot, Statuses, Continues, Quieted

LEMMA AcceptHeldSighted ==
    ASSUME Inv, Sighted, AcceptHeld
    PROVE  Sighted'
<1>1. pc \in Acting /\ Phase = "held" /\ UNCHANGED <<daemonVars, excused, swapped>>
  BY DEF AcceptHeld, Answered, Acting
<1>2. Serving /\ Outside /\ draft' = draft
  BY <1>1, Stillness
<1>3. CASE pc' = "dismiss" /\ run' = run
  <2>1. Phase' = "held" /\ Continues(run')
    BY <1>1, <1>3 DEF Phase, daemonVars, Continues
  <2> QED BY <1>1, <1>2, <1>3, <2>1, WhileActing, Carried
<1>4. CASE AfterAction([run EXCEPT !.hold = TRUE, !.status = "needs_approval", !.tail = "other"])
  BY <1>1, <1>2, <1>4, WhileActing, AskingForm, Concluded
<1> QED BY <1>3, <1>4 DEF AcceptHeld, Goes

LEMMA DismissFailsSighted ==
    ASSUME Inv, Sighted, DismissFails
    PROVE  Sighted'
<1>1. pc \in Acting /\ Phase \notin Begun
  BY DEF DismissFails, Acting, Sighted, Known, Begun, Ended
<1>2. Serving /\ Outside /\ draft' = draft
  <2>1. CASE job' = job
    BY <2>1, Stillness DEF DismissFails, daemonVars
  <2>2. CASE job' = [job EXCEPT ![<<run.session, run.pending>>] = "refused"]
    BY <1>1, <2>2, InAction, Handed DEF DismissFails
  <2> QED BY <2>1, <2>2 DEF DismissFails
<1>3. AfterAction([run EXCEPT !.hold = TRUE, !.status = "needs_approval", !.tail = "other"])
  BY DEF DismissFails
<1> QED BY <1>1, <1>2, <1>3, WhileActing, AskingForm, Concluded

(* The pending action leaves the record: the record knows what it typed,   *)
(* or it typed nothing, or the run has ended for good.                     *)
LEMMA Leaves ==
    ASSUME Inv, Sighted, pc \in Acting, run'.pending = Nothing, run'.session = run.session,
           run'.gap = run.gap, run'.machine = run.machine,
           pc' # "dismiss", run'.status \in Quieted => pc' = "idle",
           UNCHANGED <<target, excused, swapped>>, stopped \subseteq stopped', draft' \subseteq draft,
           \A s \in 1 .. MaxSessions, k \in Key : s # run.session => job'[<<s, k>>] = job[<<s, k>>],
           \/ run'.status \in Quieted
           \/ \A u \in draft' :
                 u \in run.unread \/ (u \in Types(run.pending.act) /\ Phase \in Begun) => u \in run'.unread
    PROVE  Sighted'
<1>1. ~run.gap /\ swapped # "alone" /\ run.status \notin Quieted /\ run.pending \in Key
  BY WhileActing
<1>2. Known'
  BY <1>1 DEF Sighted, Known
<1>3. Elsewhere => Elsewhere'
  BY DEF Elsewhere
<1>4. Chosen'
  BY DEF Chosen
<1>5. Covered => Covered'
  <2> SUFFICES ASSUME Covered, run'.status \notin Quieted, NEW u \in draft'
               PROVE  u \in run'.unread
    BY <1>1 DEF Covered, Quieted
  <2> QED BY <1>1 DEF Covered, TypedNow
<1> QED BY <1>2, <1>3, <1>4, <1>5 DEF Sighted

(* The same for a record r whose saving ends the step.                     *)
LEMMA LeavesBy ==
    ASSUME Inv, Sighted, pc \in Acting, NEW r \in RunSnapshot, Released(r) \/ AfterAction(r),
           r.session = run.session, r.pending = Nothing, r.gap = run.gap, r.machine = run.machine,
           UNCHANGED <<target, excused, swapped>>, stopped \subseteq stopped', draft' \subseteq draft,
           job' = job \/ \E phase : job' = [job EXCEPT ![<<run.session, run.pending>>] = phase],
           \/ r.status \in Quieted
           \/ \A u \in draft' :
                 u \in run.unread \/ (u \in Types(run.pending.act) /\ Phase \in Begun) => u \in r.unread
    PROVE  Sighted'
<1>1. Kin(run', r) /\ run'.status = r.status /\ pc' \in {"idle", "loop"} /\ (r.status \in Quieted => pc' = "idle")
  BY Lands
<1>2. \A s \in 1 .. MaxSessions, k \in Key : s # run.session => job'[<<s, k>>] = job[<<s, k>>]
  <2>1. run.pending \in Key /\ run.session \in 1 .. MaxSessions
    BY WhileActing
  <2> QED BY <2>1, Ready DEF TypeOK
<1> QED BY <1>1, <1>2, Leaves DEF Kin

(* Another machine has answered: the run is blocked where it stands, and   *)
(* nothing of it is left to start.                                         *)
LEMMA Isolated ==
    ASSUME Inv, Sighted, swapped' = "alone", run'.session = run.session,
           run'.pending = Nothing \/ run'.pending = run.pending, run'.unread = run.unread,
           run'.status = "blocked", ~run'.gap, run'.machine \in {run.machine, target}, pc' \in {"idle", "loop"},
           UNCHANGED <<job, stopped, target, excused>>,
           run.pending = Nothing \/ Phase \notin Startable
    PROVE  Sighted'
<1>1. run.session \in 1 .. MaxSessions /\ run.machine \in {1, 2} /\ target \in {1, 2}
  BY Ready DEF RunSnapshot
<1>2. \A k \in Key : run.session \notin stopped => job[<<run.session, k>>] \notin Startable
  BY KeyForm DEF Inv, Owned, Startable, Phase
<1>3. Known'
  BY <1>1, <1>2 DEF Sighted, Known, Quieted, Startable
<1>4. Elsewhere => Elsewhere'
  BY DEF Elsewhere, Startable
<1>5. Chosen => Chosen'
  BY DEF Chosen
<1>6. Covered'
  BY DEF Covered
<1> QED BY <1>3, <1>4, <1>5, <1>6 DEF Sighted

LEMMA NoticedAlone ==
    ASSUME Inv, Sighted, pc \in Acting, ~SameMachine, Noticed
    PROVE  swapped' = "alone"
BY WhileActing DEF Noticed

LEMMA AcceptOtherSighted ==
    ASSUME Inv, Sighted, AcceptOther
    PROVE  Sighted'
<1>1. pc \in Acting /\ Phase \notin Startable /\ swapped' = "alone"
  BY AnsweredFacts, NoticedAlone DEF AcceptOther, Ended, Startable
<1>2. PICK r : r = IdentityChanged(Dropped(run))
  OBVIOUS
<1>3. /\ r \in RunSnapshot /\ r.session = run.session /\ r.pending = Nothing /\ r.unread = run.unread
      /\ r.gap = run.gap /\ r.status = "blocked" /\ r.machine = target
  <2>1. Dropped(run) \in RunSnapshot /\ target \in {1, 2}
    BY Ready, DroppedKin
  <2> QED BY <1>2, <2>1, Ready, DroppedKin DEF IdentityChanged, RunSnapshot, Statuses, TERMINAL_RUN_STATUSES
<1>4. Kin(run', r) /\ run'.status = r.status /\ pc' \in {"idle", "loop"}
  BY <1>2, <1>3, Lands DEF AcceptOther
<1> QED BY <1>1, <1>3, <1>4, WhileActing, Isolated DEF AcceptOther, daemonVars, Kin

LEMMA FreshenedElsewhereSighted ==
    ASSUME Inv, Sighted, FreshenedElsewhere
    PROVE  Sighted'
<1>1. pc \in Acting /\ Phase \notin Startable
  BY DEF FreshenedElsewhere, Acting, Inv, Placed, Startable
<1>2. swapped' = "alone"
  BY <1>1, NoticedAlone DEF FreshenedElsewhere
<1>3. PICK plan \in {run.plan, FALSE} :
         Released([IdentityChanged(run) EXCEPT !.hold = FALSE, !.plan = plan, !.machine = run.machine])
  BY DEF FreshenedElsewhere
<1>4. PICK r : r = [IdentityChanged(run) EXCEPT !.hold = FALSE, !.plan = plan, !.machine = run.machine]
  OBVIOUS
<1>5. /\ r \in RunSnapshot /\ r.session = run.session /\ r.pending = run.pending /\ r.unread = run.unread
      /\ r.gap = run.gap /\ r.status = "blocked" /\ r.machine = run.machine
  BY <1>4, Ready DEF IdentityChanged, RunSnapshot, Statuses, TERMINAL_RUN_STATUSES
<1>6. Kin(run', r) /\ run'.status = r.status /\ pc' \in {"idle", "loop"}
  BY <1>3, <1>4, <1>5, Lands
<1> QED BY <1>1, <1>2, <1>5, <1>6, WhileActing, Isolated DEF FreshenedElsewhere, daemonVars, Kin

LEMMA AcceptUnreadSighted ==
    ASSUME Inv, Sighted, AcceptUnread
    PROVE  Sighted'
<1>1. pc \in Acting
  BY AnsweredFacts DEF AcceptUnread
<1>2. PICK plan \in {FALSE, run.plan}, attested \in {{}, Types(run.pending.act)} :
         /\ AfterAction([Paused(Advanced(run)) EXCEPT
                            !.plan = plan, !.unread = @ \cup attested])
         /\ draft' = draft \ (Types(run.pending.act) \ (run.unread \cup attested))
  BY DEF AcceptUnread
<1>3. PICK r : r = [Paused(Advanced(run)) EXCEPT !.plan = plan, !.unread = @ \cup attested]
  OBVIOUS
<1>4. Form(Advanced(run), run, run.status, run.tail) /\ Shed(Advanced(run))
  BY <1>1, InAction, Ready, AdvancedForm
<1>5. Advanced(run).unread = run.unread /\ Advanced(run).machine = run.machine
  BY Ready DEF Advanced, Dropped, RunSnapshot
<1>6. Kin(Paused(Advanced(run)), Advanced(run)) /\ Paused(Advanced(run)).status = "paused"
  BY <1>4, KinForms DEF Form
<1>7. /\ r \in RunSnapshot /\ r.session = run.session /\ r.pending = Nothing /\ r.gap = run.gap
      /\ r.machine = run.machine /\ r.unread = run.unread \cup attested
  BY <1>3, <1>4, <1>5, <1>6, Ready DEF RunSnapshot, Form, Shed, Kin, Types
<1>8. AfterAction(r) /\ \E phase : job' = [job EXCEPT ![<<run.session, run.pending>>] = phase]
  BY <1>2, <1>3 DEF AcceptUnread, AnswerRead
<1>9. \A u \in draft' :
         u \in run.unread \/ (u \in Types(run.pending.act) /\ Phase \in Begun) => u \in r.unread
  BY <1>2, <1>7
<1> QED BY <1>1, <1>2, <1>7, <1>8, <1>9, LeavesBy DEF AcceptUnread

LEMMA AcceptFailedSighted ==
    ASSUME Inv, Sighted, AcceptFailed
    PROVE  Sighted'
<1>1. pc \in Acting
  BY AnsweredFacts DEF AcceptFailed
<1>2. PICK r : r = [Dropped(run) EXCEPT !.status = "failed", !.tail = "other"]
  OBVIOUS
<1>3. /\ r \in RunSnapshot /\ r.session = run.session /\ r.pending = Nothing /\ r.gap = run.gap
      /\ r.machine = run.machine /\ r.status = "failed"
  BY <1>2, Ready, DroppedKin DEF RunSnapshot, Statuses, TERMINAL_RUN_STATUSES
<1>4. AfterAction(r)
  BY <1>2 DEF AcceptFailed
<1> QED BY <1>1, <1>3, <1>4, LeavesBy DEF AcceptFailed, daemonVars, Quieted

LEMMA AcceptCompletedSighted ==
    ASSUME Inv, Sighted, AcceptCompleted
    PROVE  Sighted'
<1>1. pc \in Acting
  BY AnsweredFacts DEF AcceptCompleted
<1>2. PICK r : r = [Advanced(run) EXCEPT !.status = "running", !.tail = "other",
                                         !.unread = @ \ Clears(run.pending.act)]
  OBVIOUS
<1>3. Form(Advanced(run), run, run.status, run.tail) /\ Shed(Advanced(run))
  BY <1>1, InAction, Ready, AdvancedForm
<1>4. Advanced(run).unread = run.unread /\ Advanced(run).machine = run.machine
  BY Ready DEF Advanced, Dropped, RunSnapshot
<1>5. /\ r \in RunSnapshot /\ r.session = run.session /\ r.pending = Nothing /\ r.gap = run.gap
      /\ r.machine = run.machine /\ r.unread = run.unread \ Clears(run.pending.act) /\ r.status = "running"
  BY <1>2, <1>3, <1>4, Ready DEF RunSnapshot, Form, Shed, Statuses
<1>6. PICK q : q = [r EXCEPT !.disagreed = FALSE]
  OBVIOUS
<1>7. q \in RunSnapshot /\ Kin(q, r) /\ q.status = "running"
  BY <1>5, <1>6 DEF RunSnapshot, Kin
<1>8. Kin(run', r) /\ run'.status = "running" /\ pc' # "dismiss"
  <2>1. CASE AfterAction(q)
    BY <1>5, <1>7, <2>1, Lands DEF Kin
  <2>2. CASE run' = r /\ Goes("check")
    BY <1>5, <2>2 DEF Kin, Goes
  <2> QED BY <1>2, <1>6, <2>1, <2>2 DEF AcceptCompleted
<1>9. /\ UNCHANGED <<target, excused, swapped, stopped>>
      /\ draft' = draft \ (Types(run.pending.act) \cup Clears(run.pending.act))
  BY DEF AcceptCompleted
<1>10. \A s \in 1 .. MaxSessions, k \in Key : s # run.session => job'[<<s, k>>] = job[<<s, k>>]
  BY <1>1, WhileActing, Ready DEF AcceptCompleted, AnswerRead, TypeOK
<1>11. run'.unread = run.unread \ Clears(run.pending.act)
  BY <1>5, <1>8 DEF Kin
<1>12. /\ run'.pending = Nothing /\ run'.session = run.session /\ run'.gap = run.gap
       /\ run'.machine = run.machine
  BY <1>5, <1>8 DEF Kin
<1> QED BY <1>1, <1>8, <1>9, <1>10, <1>11, <1>12, Leaves DEF Quieted

(* An action that the daemon has not begun is given up.                    *)
LEMMA GivesUp ==
    ASSUME Inv, Sighted, pc \in Acting, Phase \notin Begun,
           \/ AfterAction(Blocked(Dropped(run))) \/ AfterAction(Yielded(Dropped(run)))
           \/ AfterAction(Paused(Unplanned(Dropped(run))))
           \/ \E plan \in {run.plan, FALSE} : AfterAction([Paused(Dropped(run)) EXCEPT !.plan = plan]),
           UNCHANGED <<stopped, target, draft, excused, swapped>>,
           job' = job \/ \E phase : job' = [job EXCEPT ![<<run.session, run.pending>>] = phase]
    PROVE  Sighted'
<1> DEFINE Without(q) == /\ q \in RunSnapshot /\ q.session = run.session /\ q.pending = Nothing
                         /\ q.gap = run.gap /\ q.machine = run.machine /\ q.unread = run.unread
<1>1. Dropped(run) \in RunSnapshot /\ Without(Dropped(run))
  BY Ready, DroppedKin
<1>2. Without(Blocked(Dropped(run))) /\ Without(Yielded(Dropped(run))) /\ Without(Paused(Dropped(run)))
  BY <1>1, KinForms DEF Kin
<1>3. Without(Paused(Unplanned(Dropped(run))))
  <2>1. Unplanned(Dropped(run)) \in RunSnapshot /\ Without(Unplanned(Dropped(run)))
    BY <1>1, KinForms DEF Kin
  <2> QED BY <2>1, KinForms DEF Kin
<1>4. \A plan \in {run.plan, FALSE} : Without([Paused(Dropped(run)) EXCEPT !.plan = plan])
  BY <1>2, Ready DEF RunSnapshot
<1>5. PICK q : Without(q) /\ AfterAction(q)
  BY <1>2, <1>3, <1>4
<1> QED BY <1>5, LeavesBy

LEMMA DismissedSighted ==
    ASSUME Inv, Sighted, Dismissed
    PROVE  Sighted'
<1>1. pc \in Acting /\ Phase \notin Begun
  BY DEF Dismissed, Acting, Sighted, Known, Begun, Ended
<1>2. CASE AfterAction(Blocked(Dropped(run)))
  BY <1>1, <1>2, GivesUp DEF Dismissed
<1>3. CASE pc' = "renav" /\ run' = run
  <2>1. Serving /\ Outside /\ draft' = draft
    BY <1>1, InAction, Handed DEF Dismissed
  <2> QED BY <1>1, <1>3, <2>1, WhileActing, Carried DEF Continues
<1> QED BY <1>2, <1>3 DEF Dismissed, Goes

LEMMA FreshenedSighted ==
    ASSUME Inv, Sighted, Freshened \/ FreshenFails
    PROVE  Sighted'
<1>1. pc \in Acting /\ Phase \notin Begun
  BY DEF Freshened, FreshenFails, Acting, Inv, Placed, Begun, Ended
<1> QED BY <1>1, GivesUp DEF Freshened, FreshenFails, AnswerRead

LEMMA RenavigateFailsSighted ==
    ASSUME Inv, Sighted, RenavigateFails
    PROVE  Sighted'
<1>1. pc \in Acting /\ Phase \notin Begun
  BY DEF RenavigateFails, Acting, Inv, Placed, Begun, Ended
<1>2. Dropped(run) \in RunSnapshot /\ Paused(Dropped(run)) \in RunSnapshot /\ Kin(Paused(Dropped(run)), Dropped(run))
  BY Ready, DroppedKin, KinForms DEF Kin
<1> QED BY <1>1, <1>2, DroppedKin, Ready, LeavesBy DEF RenavigateFails, daemonVars, Kin

LEMMA RenavigatedSighted ==
    ASSUME Inv, Sighted, Renavigated
    PROVE  Sighted'
<1>1. pc \in Acting /\ Phase = "none" /\ run.navs < MaxNav
  BY DEF Renavigated, Acting, Inv, Placed
<1>2. Dropped(run) \in RunSnapshot /\ Dropped(run).navs = run.navs
  BY Ready, DroppedKin DEF Dropped, RunSnapshot
<1>3. CASE SameMachine
  <2>1. PICK r : r = [Yielded(Dropped(run)) EXCEPT !.session = opened', !.navs = @ + 1]
    OBVIOUS
  <2>2. Kin(Yielded(Dropped(run)), Dropped(run)) /\ Yielded(Dropped(run)).status = "paused"
    BY <1>2, KinForms
  <2>3. Yielded(Dropped(run)).navs = run.navs
    BY <1>2 DEF Yielded, RunSnapshot
  <2>4. run.navs + 1 \in 0 .. MaxNav /\ opened' \in 1 .. MaxSessions
    BY <1>1, HarnessConstants, Ready DEF RunSnapshot, TypeOK, Renavigated
  <2>5. /\ r \in RunSnapshot /\ r.session = opened' /\ r.pending = Nothing /\ r.unread = run.unread
        /\ r.status = "paused" /\ r.gap = run.gap /\ r.machine = run.machine
    BY <2>1, <2>2, <2>3, <2>4, Ready, DroppedKin DEF Kin, RunSnapshot
  <2>6. AfterAction(r) /\ swapped' = swapped
    BY <1>3, <2>1 DEF Renavigated
  <2>7. Kin(run', r) /\ run'.status = "paused" /\ pc' \in {"idle", "loop"}
    BY <2>5, <2>6, Lands
  <2>8. \A k \in Key : run.session \notin stopped => job[<<run.session, k>>] \notin Startable
    BY <1>1 DEF Inv, Owned, Startable, Phase
  <2> QED BY <1>1, <2>5, <2>6, <2>7, <2>8, WhileActing, Moved DEF Renavigated, Kin, Quieted, Begun, Ended
<1>4. CASE ~SameMachine
  <2>1. swapped' = "alone" /\ Released(IdentityChanged(Dropped(run)))
    BY <1>1, <1>4, NoticedAlone DEF Renavigated
  <2>2. PICK r : r = IdentityChanged(Dropped(run))
    OBVIOUS
  <2>3. /\ r \in RunSnapshot /\ r.session = run.session /\ r.pending = Nothing /\ r.unread = run.unread
        /\ r.gap = run.gap /\ r.status = "blocked" /\ r.machine = target
    BY <1>2, <2>2, Ready, DroppedKin DEF IdentityChanged, RunSnapshot, Statuses, TERMINAL_RUN_STATUSES
  <2>4. Kin(run', r) /\ run'.status = r.status /\ pc' \in {"idle", "loop"}
    BY <2>1, <2>2, <2>3, Lands
  <2> QED BY <1>1, <2>1, <2>3, <2>4, WhileActing, Isolated DEF Renavigated, Kin, Startable
<1> QED BY <1>3, <1>4

-----------------------------------------------------------------------------
(* Verification.                                                           *)

LEMMA WhileChecking ==
    ASSUME Inv, Sighted, pc = "check"
    PROVE  /\ run \in RunSnapshot /\ ~run.gap /\ run.status \notin Quieted /\ swapped # "alone"
           /\ run.pending = Nothing
           /\ ~SameMachine => swapped = "no" /\ target = 2
<1>1. run.machine \in {1, 2} /\ target \in {1, 2} /\ swapped \in {"no", "alone", "overlapped"}
  BY Ready DEF RunSnapshot, RestTypeOK
<1> QED BY <1>1, InCheck, Ready DEF Sighted, Known, SameMachine

LEMMA VerifiedSighted ==
    ASSUME Inv, Sighted, pc = "check", NEW r \in RunSnapshot, Continues(r), r.status \notin Quieted,
           NEW v, Verified(r, v), UNCHANGED <<daemonVars, excused>>,
           \/ swapped' = swapped
           \/ swapped' = "overlapped" /\ ctl # "off" /\ r.machine = 2
    PROVE  Sighted'
<1>1. Serving /\ draft' = draft /\ ~run.gap /\ swapped # "alone"
  BY WhileChecking DEF Serving, Phase, daemonVars
<1>2. CASE run' = r /\ pc' = "check"
  <2>1. Outside
    BY <1>1, <1>2 DEF Outside, daemonVars
  <2> QED BY <1>1, <1>2, <2>1, Carried
<1>3. CASE ctl = "off"
  <2>1. Outside
    BY <1>3 DEF Outside, daemonVars
  <2>2. Unplanned(r) \in RunSnapshot /\ Kin(Unplanned(r), r)
    BY KinForms DEF Kin
  <2>3. /\ Paused(r) \in RunSnapshot /\ Continues(Paused(r))
        /\ Yielded(Unplanned(r)) \in RunSnapshot /\ Continues(Yielded(Unplanned(r)))
    BY <1>1, <2>2, WhileChecking, KinForms DEF Kin, Continues, Quieted
  <2>4. \/ AfterAction(r) \/ Released(r) \/ Released(Paused(r)) \/ Released(Yielded(Unplanned(r)))
    BY <1>3 DEF Verified
  <2> QED BY <1>1, <2>1, <2>3, <2>4, Concluded
<1> QED BY <1>2, <1>3 DEF Verified, Goes

LEMMA JudgedContinues ==
    ASSUME Inv, Sighted, pc = "check", NEW v
    PROVE  Judged(run, v) \in RunSnapshot /\ Continues(Judged(run, v)) /\ Judged(run, v).status \notin Quieted
<1>1. run \in RunSnapshot /\ ~run.gap /\ run.status \notin Quieted
  BY WhileChecking
<1>2. /\ Kin(Yielded(run), run) /\ Yielded(run).status = "paused"
      /\ Kin(Paused(Unplanned(run)), run) /\ Paused(Unplanned(run)).status = "paused"
  <2>1. Unplanned(run) \in RunSnapshot /\ Kin(Unplanned(run), run)
    BY <1>1, KinForms DEF Kin
  <2> QED BY <1>1, <2>1, KinForms DEF Kin
<1>3. \A q \in RunSnapshot, b \in BOOLEAN : Kin(q, run) /\ q.status = "paused" =>
         /\ Kin([q EXCEPT !.disagreed = b], run) /\ [q EXCEPT !.disagreed = b].status = "paused"
  BY DEF Kin, RunSnapshot
<1>4. CASE v = "complete" \/ v = "verified"
  BY <1>1, <1>4 DEF Judged, RunSnapshot, Statuses, TERMINAL_RUN_STATUSES, Settled, Continues, Quieted
<1>5. CASE v = "uncertain"
  <2>1. Judged(run, v) = [Paused(Unplanned(run)) EXCEPT !.disagreed = FALSE]
    BY <1>5 DEF Judged
  <2> QED BY <1>1, <1>2, <1>3, <2>1 DEF Kin, Continues, Quieted
<1>6. CASE v \notin {"complete", "verified", "uncertain"}
  <2>1. Judged(run, v) = [Yielded(run) EXCEPT !.disagreed = TRUE]
    BY <1>6 DEF Judged
  <2> QED BY <1>1, <1>2, <1>3, <2>1 DEF Kin, Continues, Quieted
<1> QED BY <1>4, <1>5, <1>6

LEMMA ChecksSighted ==
    ASSUME Inv, Sighted,
           \/ EvidenceRefreshed \/ EvidenceMissing \/ VerifierFails \/ VerifierAnswered
           \/ DelayedFrame \/ NoDelayedFrame \/ SpeculationAnswered \/ SpeculationFails \/ Joined
    PROVE  Sighted'
<1>1. pc = "check" /\ UNCHANGED <<daemonVars, excused, swapped>>
  BY DEF EvidenceRefreshed, EvidenceMissing, VerifierFails, VerifierAnswered, DelayedFrame,
         NoDelayedFrame, SpeculationAnswered, SpeculationFails, Joined
<1>2. run \in RunSnapshot /\ ~run.gap /\ run.status \notin Quieted
  BY <1>1, WhileChecking
<1>3. CASE run' = run /\ pc' \in {"check", "loop"}
  BY <1>1, <1>2, <1>3, Stays
<1>4. CASE EvidenceMissing \/ VerifierFails
  <2>1. Paused(run) \in RunSnapshot /\ Continues(Paused(run)) /\ Paused(run).status \notin Quieted
    BY <1>2, Onward, KinForms DEF Quieted
  <2> QED BY <1>1, <1>4, <2>1, VerifiedSighted DEF EvidenceMissing, VerifierFails
<1>5. CASE \E v : Verified(Judged(run, v), v)
  BY <1>1, <1>5, JudgedContinues, VerifiedSighted
<1>6. CASE DelayedFrame \/ SpeculationFails
  <2>1. pc' = "check" /\ Continues(run') /\ run'.status \notin Quieted
    BY <1>1, <1>2, <1>6 DEF DelayedFrame, SpeculationFails, RunSnapshot, Continues, Quieted
  <2> QED BY <1>1, <2>1, Stillness, Carried
<1>7. CASE Joined /\ ~Adoptable
  <2>1. PICK tail \in {"other"} \cup ({run.tail} \cap {"yield"}) : AfterAction([run EXCEPT !.tail = tail])
    BY <1>7 DEF Joined
  <2>2. PICK q : q = [run EXCEPT !.tail = tail]
    OBVIOUS
  <2>3. q \in RunSnapshot /\ Continues(q)
    BY <1>2, <2>1, <2>2 DEF RunSnapshot, Continues
  <2> QED BY <1>1, <2>1, <2>2, <2>3, Stillness, Concluded
<1> QED BY <1>1, <1>3, <1>4, <1>5, <1>6, <1>7
        DEF EvidenceRefreshed, VerifierAnswered, NoDelayedFrame, SpeculationAnswered, Joined, Goes

LEMMA VerifiedElsewhereSighted ==
    ASSUME Inv, Sighted, VerifiedElsewhere
    PROVE  Sighted'
<1>1. /\ pc = "check" /\ ~SameMachine /\ Noticed /\ UNCHANGED <<daemonVars, excused>>
      /\ Verified(IdentityChanged(run), check.verdict)
  BY DEF VerifiedElsewhere
<1>2. /\ run \in RunSnapshot /\ ~run.gap /\ run.status \notin Quieted /\ run.pending = Nothing
      /\ swapped = "no" /\ target = 2
  BY <1>1, WhileChecking
<1>3. PICK r : r = IdentityChanged(run)
  OBVIOUS
<1>4. /\ r \in RunSnapshot /\ r.session = run.session /\ r.pending = run.pending /\ r.unread = run.unread
      /\ r.gap = run.gap /\ r.status = "blocked" /\ r.machine = target
  BY <1>2, <1>3 DEF IdentityChanged, RunSnapshot, Statuses, TERMINAL_RUN_STATUSES
<1>5. CASE ctl # "off"
  <2>1. Continues(r) /\ swapped' = "overlapped"
    BY <1>1, <1>2, <1>4, <1>5 DEF Continues, Quieted, Noticed
  <2> QED BY <1>1, <1>2, <1>3, <1>4, <1>5, <2>1, VerifiedSighted DEF Quieted
<1>6. CASE ctl = "off"
  <2>1. Released(r) \/ AfterAction(r)
    BY <1>1, <1>3, <1>4, <1>6 DEF Verified
  <2>2. Kin(run', r) /\ run'.status = "blocked" /\ pc' \in {"idle", "loop"}
    BY <1>4, <2>1, Lands
  <2>3. swapped' = "alone"
    BY <1>1, <1>2, <1>6 DEF Noticed
  <2> QED BY <1>1, <1>2, <1>4, <2>2, <2>3, Isolated DEF daemonVars, Kin
<1> QED BY <1>5, <1>6

-----------------------------------------------------------------------------
(* Approvals, the daemon and the machine.                                  *)

LEMMA ResolveSighted ==
    ASSUME Inv, Sighted, Resolve
    PROVE  Sighted'
<1>1. CASE run.status # "needs_approval" \/ ~run.hold
  BY <1>1, Ready, Stillness, Concluded DEF Resolve, daemonVars, Continues
<1>2. CASE run.status = "needs_approval" /\ run.hold
  <2>1. run.pending # Nothing /\ swapped # "alone" /\ run.pending \in Key /\ run.session \in 1 .. MaxSessions
    BY <1>2, Ready DEF Fits, Inv, Noted, RunSnapshot
  <2>2. PICK decision \in {"approve", "reject", "take_over"} :
           /\ job' = [job EXCEPT ![<<run.session, run.pending>>] =
                          IF @ # "held" THEN @ ELSE IF decision = "approve" THEN "granted" ELSE "denied"]
           /\ pc' = decision /\ run' = run
    BY <1>2 DEF Resolve, Goes
  <2>3. PICK phase : /\ phase = IF Phase # "held" THEN Phase ELSE IF decision = "approve" THEN "granted" ELSE "denied"
                     /\ job' = [job EXCEPT ![<<run.session, run.pending>>] = phase]
    BY <2>1, <2>2, Ready DEF Phase, TypeOK
  <2>4. Serving /\ Outside
    BY <2>1, <2>3, Handed DEF Resolve, Begun, Ended
  <2> QED BY <1>2, <2>2, <2>4, Carried DEF Resolve, Continues, Quieted
<1> QED BY <1>1, <1>2

LEMMA EndsSighted ==
    ASSUME Inv, Sighted, TakenOver \/ Quit
    PROVE  Sighted'
<1>1. pc \in Acting
  BY DEF TakenOver, Quit, Acting
<1>2. PICK status \in {"aborted", "rejected"} :
         Released([Dropped(run) EXCEPT !.status = status, !.tail = "other"])
  BY DEF TakenOver, Quit
<1>3. PICK r : r = [Dropped(run) EXCEPT !.status = status, !.tail = "other"]
  OBVIOUS
<1>4. /\ r \in RunSnapshot /\ r.session = run.session /\ r.pending = Nothing /\ r.gap = run.gap
      /\ r.machine = run.machine /\ r.status \in Quieted
  BY <1>3, Ready, DroppedKin, ZenonT(30) DEF RunSnapshot, Statuses, TERMINAL_RUN_STATUSES, Settled, Quieted
<1>5. UNCHANGED <<job, target, draft, excused, swapped>> /\ stopped \subseteq stopped'
  BY DEF TakenOver, Quit, daemonVars
<1> QED BY <1>1, <1>2, <1>3, <1>4, <1>5, LeavesBy

LEMMA DaemonSighted ==
    ASSUME Inv, Sighted, NEW s \in 1 .. MaxSessions, NEW k \in Key,
           Executes(s, k) \/ Declines(s, k) \/ EndsExecution(s, k)
    PROVE  Sighted'
<1>1. UNCHANGED <<run, pc, stopped, target, excused, swapped>>
  BY DEF Executes, Declines, EndsExecution, External, holderVars
<1>2. job \in [(1 .. MaxSessions) \X Key -> InFlight \cup Ended \cup {"none", "refused"}]
  BY Ready DEF TypeOK
<1>3. PICK phase : job' = [job EXCEPT ![<<s, k>>] = phase]
  BY DEF Executes, Declines, EndsExecution, Becomes
<1>4. /\ job'[<<s, k>>] = phase
      /\ \A z \in 1 .. MaxSessions, q \in Key : <<z, q>> # <<s, k>> => job'[<<z, q>>] = job[<<z, q>>]
  BY <1>2, <1>3
<1>5. /\ job'[<<s, k>>] \notin Startable /\ (job[<<s, k>>] \in Begun => job'[<<s, k>>] \in Begun)
      /\ job[<<s, k>>] \in {"held", "refused"} => job'[<<s, k>>] \in {"held", "refused"}
  BY <1>2, <1>4 DEF Executes, Declines, EndsExecution, Becomes, Startable, Begun, Ended
<1>6. run.session \in 1 .. MaxSessions /\ (run.pending # Nothing => run.pending \in Key)
  BY Ready DEF RunSnapshot
<1>7. Serving
  BY <1>1, <1>4, <1>5, <1>6 DEF Serving, Phase
<1>8. pc' = "dismiss" => Phase' \in {"held", "refused"}
  <2> SUFFICES ASSUME pc = "dismiss"
               PROVE  job'[<<run.session, run.pending>>] \in {"held", "refused"}
    BY <1>1 DEF Phase
  <2>1. run.pending \in Key /\ Phase \in {"held", "refused"}
    BY InAction DEF Acting, Sighted, Known
  <2> QED BY <1>4, <1>5, <1>6, <2>1 DEF Phase
<1>9. \A u \in draft' : u \in draft \/ excused' \/ TypedNow(u)'
  <2>1. CASE Executes(s, k) /\ ~excused
    <3>1. s \notin stopped /\ job[<<s, k>>] \in Startable /\ draft' = draft \cup Types(k.act) /\ phase = "running"
      BY <1>2, <1>4, <2>1 DEF Executes, Becomes, Startable
    <3>2. s = run.session /\ k = run.pending
      BY <2>1, <3>1 DEF Sighted, Elsewhere, Inv, Owned, Startable
    <3>3. run.pending # Nothing
      BY <3>2, KeyForm
    <3>4. Phase' = "running"
      BY <1>1, <1>4, <3>1, <3>2 DEF Phase
    <3> QED BY <1>1, <3>1, <3>2, <3>3, <3>4 DEF TypedNow, Begun, Types
  <2>2. CASE excused \/ ~Executes(s, k)
    BY <1>1, <2>2 DEF Declines, EndsExecution
  <2> QED BY <2>1, <2>2
<1> QED BY <1>1, <1>7, <1>8, <1>9, Carried DEF Continues, Outside, Sighted, Known

LEMMA TargetSighted ==
    ASSUME Inv, Sighted, TargetChanges
    PROVE  Sighted'
<1>1. UNCHANGED <<run, pc, job, stopped, draft, excused, swapped>> /\ target' = 2
  BY DEF TargetChanges, holderVars
<1>2. Serving /\ Outside /\ Continues(run')
  BY <1>1 DEF Serving, Outside, Continues, Phase
<1> QED BY <1>1, <1>2, Carried DEF Sighted, Known, Phase

-----------------------------------------------------------------------------
(* The record sees what it must.                                           *)

LEMMA SightedInit == Init => Sighted
<1> SUFFICES ASSUME Init
             PROVE  Sighted
  OBVIOUS
<1>1. \A s \in 1 .. MaxSessions, k \in Key : job[<<s, k>>] = "none"
  BY DEF Init
<1> QED BY <1>1 DEF Init, Sighted, Known, Elsewhere, Chosen, Covered, Quieted, Startable

LEMMA SightedStep ==
    ASSUME Inv, Sighted, [Next]_vars
    PROVE  Sighted'
<1>1. CASE UNCHANGED vars
  BY <1>1, UnchangedSighted DEF vars, holderVars
<1>2. CASE Requests \/ Load
  BY <1>2, RequestsSighted, LoadSighted DEF Requests
<1>3. CASE Handler
  <2>1. CASE OperatorQueues \/ Pause \/ Steer \/ Abort \/ AbortConfirmed \/ Continue \/ Reopened
    BY <2>1, RequestsSighted, PauseSighted, AbortConfirmedSighted, ContinueSighted, ReopenedSighted
  <2>2. CASE \/ BudgetReached \/ ObserveOnly \/ FastPath \/ AskPlan \/ PlanAnswered
             \/ AskControl \/ ControlAnswered \/ Adopt \/ Replanned
    BY <2>2, BudgetSighted, PlanSighted, ControlSighted
  <2>3. CASE \/ Attempt \/ Send
             \/ AcceptOther \/ AcceptHeld \/ AcceptRefused \/ AcceptUnread \/ AcceptFailed \/ AcceptCompleted
    BY <2>3, PlanSighted, SendSighted, AcceptOtherSighted, AcceptHeldSighted, TurnsSighted,
       AcceptUnreadSighted, AcceptFailedSighted, AcceptCompletedSighted
  <2>4. CASE Dismissed \/ Renavigated \/ Freshened \/ FreshenedElsewhere
    BY <2>4, DismissedSighted, RenavigatedSighted, FreshenedSighted, FreshenedElsewhereSighted
  <2>5. CASE \/ EvidenceRefreshed \/ VerifierAnswered \/ DelayedFrame \/ NoDelayedFrame \/ VerifiedElsewhere
             \/ SpeculationAnswered \/ Joined
    BY <2>5, ChecksSighted, VerifiedElsewhereSighted
  <2>6. CASE Resolve \/ TakenOver \/ Rejected \/ Quit
    BY <2>6, ResolveSighted, EndsSighted, TurnsSighted
  <2> QED BY <1>3, <2>1, <2>2, <2>3, <2>4, <2>5, <2>6 DEF Handler
<1>4. CASE Failure
  BY <1>4, AbortFailsSighted, BudgetSighted, TransportSighted, DismissFailsSighted,
     RenavigateFailsSighted, FreshenedSighted, ChecksSighted DEF Failure
<1>5. CASE DaemonStep \/ Restart \/ TargetChanges
  BY <1>5, DaemonSighted, RestartSighted, TargetSighted DEF DaemonStep
<1> QED BY <1>1, <1>2, <1>3, <1>4, <1>5 DEF Next

LEMMA StartsSeen ==
    ASSUME Inv, Sighted, [Next]_vars, NEW s \in 1 .. MaxSessions, NEW k \in Key, Starts(s, k), ~excused,
           NEW u \in draft
    PROVE  k.act \notin Spoils(u)
<1>1. job[<<s, k>>] \in Startable /\ s \notin stopped
  BY OnlyExecutes DEF Executes, Startable
<1>2. s = run.session
  BY <1>1 DEF Sighted, Elsewhere
<1>3. k = run.pending /\ run.pending # Nothing
  BY <1>2, StartsPending, KeyForm
<1>4. swapped # "alone" /\ run.status \notin Quieted
  BY <1>1, <1>2, <1>3 DEF Sighted, Known
<1>5. Phase \notin Begun
  BY <1>1, <1>2, <1>3 DEF Phase, Startable, Begun, Ended
<1>6. u \in run.unread
  BY <1>4, <1>5 DEF Sighted, Covered, TypedNow
<1> QED BY <1>3, <1>6 DEF Sighted, Chosen, _unsafe_unverified_input_followup

-----------------------------------------------------------------------------
(* The ledger: what every step decides, begins, counts, gives up or leaves *)
(* behind in another session.                                              *)

(* Nothing was given up, no other machine has been seen, and the run has   *)
(* not ended badly.                                                        *)
Unblamed == swapped # "alone" /\ (run.status \in Quieted => run.gap) /\ ~excused

(* What has begun and was not counted is the pending action.               *)
Spent == Unblamed => \A k \in Key : job[<<run.session, k>>] \in Begun => k = run.pending

Booked == Ledger!Next /\ Spent'

(* A step in which nothing begins and nothing is counted.                  *)
NothingBegins ==
    \A k \in Key : job'[<<run.session, k>>] \in Begun <=> job[<<run.session, k>>] \in Begun

Keeps ==
    /\ run'.session = run.session /\ run'.next = run.next
    /\ run'.pending = run.pending \/ run'.pending = Nothing
    /\ NothingBegins
    /\ excused => excused'

LEMMA KeepsBooked ==
    ASSUME Inv, Inv', Spent, Keeps,
           Unblamed' => Unblamed /\ (run'.pending = run.pending \/ Phase \notin Begun)
    PROVE  Booked
<1>1. {k \in Key : job'[<<run'.session, k>>] \in {"running"} \cup Ended}
        = {k \in Key : job[<<run.session, k>>] \in {"running"} \cup Ended}
  BY DEF Keeps, NothingBegins, Begun
<1>2. excused' \in {excused, TRUE}
  BY Ready DEF Keeps, RestTypeOK, Inv, TypeOK
<1>3. ASSUME run'.pending = Nothing
      PROVE  Ledger!Next
  <2>1. Ledger!GiveUp
    BY <1>1, <1>3 DEF Ledger!GiveUp, Keeps
  <2> QED BY <1>2, <2>1 DEF Ledger!Next
<1>4. ASSUME run'.pending = run.pending, run.pending # Nothing
      PROVE  Ledger!Next
  <2>1. run.status \notin Settled /\ run'.status \notin Settled
    BY <1>4 DEF Inv, Fits
  <2>2. (run'.status \in Settled) = (run.status \in Settled)
    BY <2>1
  <2>3. run'.next = run.next
    BY DEF Keeps
  <2> QED BY <1>1, <1>2, <1>4, <2>2, <2>3, Zenon DEF Ledger!Next
<1>5. Spent'
  <2> SUFFICES ASSUME Unblamed', NEW k \in Key, job'[<<run.session, k>>] \in Begun
               PROVE  k = run'.pending
    BY DEF Spent, Keeps
  <2>1. job[<<run.session, k>>] \in Begun
    BY DEF Keeps, NothingBegins
  <2>2. k = run.pending
    BY <2>1 DEF Spent
  <2> QED BY <2>1, <2>2 DEF Phase
<1>6. Ledger!Next
  BY <1>3, <1>4 DEF Keeps
<1> QED BY <1>5, <1>6 DEF Booked

(* A record with the session, the place and the pending action of another. *)
Stands(q, r) ==
    q \in RunSnapshot /\ q.session = r.session /\ q.next = r.next /\ q.pending = r.pending

LEMMA StandsForms ==
    ASSUME NEW r \in RunSnapshot
    PROVE  /\ Stands(Paused(r), r) /\ Stands(Yielded(r), r) /\ Stands(Blocked(r), r)
           /\ Stands(Unplanned(r), r) /\ Stands(Paused(Unplanned(r)), r) /\ Stands(r, r)
           /\ Stands(Yielded(Unplanned(r)), r)
<1>1. \A q \in RunSnapshot : Stands(Paused(q), q)
  BY DEF Stands, Paused, RunSnapshot, Statuses
<1>2. \A q \in RunSnapshot : Stands(Yielded(q), q)
  BY DEF Stands, Yielded, RunSnapshot, Statuses
<1>3. Stands(Blocked(r), r)
  BY DEF Stands, Blocked, RunSnapshot, Statuses, TERMINAL_RUN_STATUSES
<1>4. Stands(Unplanned(r), r)
  BY DEF Stands, Unplanned, RunSnapshot
<1>5. Stands(Paused(Unplanned(r)), r) /\ Stands(Yielded(Unplanned(r)), r)
  BY <1>1, <1>2, <1>4 DEF Stands
<1> QED BY <1>1, <1>2, <1>3, <1>4, <1>5 DEF Stands

(* Saving r saves what r says of these.                                    *)
LEMMA Writes ==
    ASSUME Inv, line # <<>>, NEW r \in RunSnapshot, Released(r) \/ AfterAction(r)
    PROVE  Stands(run', r) /\ run'.status = r.status
<1>1. CASE Released(r)
  BY <1>1, Ready, ReleasedSaves DEF Saves, Stands
<1>2. CASE ~Released(r)
  BY <1>2 DEF AfterAction, Stands
<1> QED BY <1>1, <1>2

(* While the holder is at work the run has not ended badly.                *)
LEMMA AtWork ==
    ASSUME Inv, Sighted, pc # "idle"
    PROVE  line # <<>> /\ swapped # "alone" /\ (run.status \in Quieted => run.gap)
BY Ready DEF Sighted, Known

(* Steps that leave the pending action and the daemon alone.               *)
LEMMA StandsBooked ==
    ASSUME Inv, Inv', Sighted, Spent, pc # "idle", Stands(run', run), NothingBegins, excused => excused'
    PROVE  Booked
<1>1. Unblamed' => Unblamed
  BY AtWork DEF Unblamed
<1> QED BY <1>1, KeepsBooked DEF Keeps, Stands

LEMMA StandsSaved ==
    ASSUME Inv, Inv', Sighted, Spent, pc # "idle", NEW r \in RunSnapshot, Stands(r, run),
           Released(r) \/ AfterAction(r), NothingBegins, excused => excused'
    PROVE  Booked
<1>1. Stands(run', r)
  BY AtWork, Writes
<1>2. Stands(run', run)
  BY <1>1 DEF Stands
<1> QED BY <1>2, StandsBooked

LEMMA SameJobs ==
    ASSUME UNCHANGED job
    PROVE  NothingBegins
BY DEF NothingBegins

(* The daemon's answer to what has not begun.                              *)
LEMMA Turning ==
    ASSUME Inv, run.pending # Nothing, NEW phase, phase \in Begun <=> Phase \in Begun,
           job' = [job EXCEPT ![<<run.session, run.pending>>] = phase]
    PROVE  NothingBegins
<1>1. run.pending \in Key /\ run.session \in 1 .. MaxSessions
  BY Ready DEF RunSnapshot
<1> QED BY <1>1, Ready DEF NothingBegins, TypeOK, Phase

LEMMA UnchangedBooked ==
    ASSUME Inv, Inv', Spent, UNCHANGED <<run, job, swapped, excused>>
    PROVE  Booked
BY KeepsBooked DEF Keeps, NothingBegins, Unblamed

LEMMA CallsBooked ==
    ASSUME Inv, Inv', Spent,
           \/ Requests \/ OperatorQueues \/ AskPlan \/ AskControl \/ Attempt \/ AcceptRefused
           \/ EvidenceRefreshed \/ SpeculationAnswered \/ Rejected \/ TargetChanges \/ UNCHANGED vars
    PROVE  Booked
<1>1. UNCHANGED <<run, job, swapped, excused>>
  <2>1. CASE Requests \/ OperatorQueues
    BY <2>1 DEF Requests, ContinueRequested, ApprovalRequested, OperatorCancels, OperatorQueues, daemonVars
  <2>2. CASE AskPlan \/ AskControl \/ Attempt \/ AcceptRefused \/ EvidenceRefreshed \/ SpeculationAnswered \/ Rejected
    BY <2>2 DEF AskPlan, AskControl, Attempt, AcceptRefused, EvidenceRefreshed, SpeculationAnswered,
       Rejected, daemonVars
  <2>3. CASE TargetChanges \/ UNCHANGED vars
    BY <2>3 DEF TargetChanges, vars, daemonVars
  <2> QED BY <2>1, <2>2, <2>3
<1> QED BY <1>1, UnchangedBooked

LEMMA LoadBooked ==
    ASSUME Inv, Inv', Spent, Load
    PROVE  Booked
<1>1. /\ (run'.gap => run.gap) /\ run'.status = run.status /\ run'.next = run.next
      /\ run'.session = run.session /\ run'.pending = run.pending
  BY Loaded
<1>2. UNCHANGED <<job, swapped, excused>>
  BY DEF Load
<1>3. Unblamed' => Unblamed
  BY <1>1, <1>2 DEF Unblamed
<1>4. Keeps
  BY <1>1, <1>2 DEF Keeps, NothingBegins
<1> QED BY <1>1, <1>3, <1>4, KeepsBooked


(* Saving a record from the lock, where nobody is at work.                 *)
LEMMA IdleBooked ==
    ASSUME Inv, Inv', Spent, line # <<>>, NEW r \in RunSnapshot, Stands(r, run), r.gap = run.gap, Released(r),
           UNCHANGED <<job, swapped>>, excused => excused',
           r.status = run.status \/ run.status \notin Quieted
    PROVE  Booked
<1>1. Stands(run', r) /\ run'.status = r.status /\ run'.gap = r.gap
  BY Writes, Lands DEF Kin
<1>2. Unblamed' => Unblamed
  BY <1>1 DEF Unblamed
<1>3. Keeps
  BY <1>1, SameJobs DEF Keeps, Stands
<1> QED BY <1>1, <1>2, <1>3, KeepsBooked DEF Stands

LEMMA PauseBooked ==
    ASSUME Inv, Inv', Spent, Pause \/ Steer \/ Abort
    PROVE  Booked
<1>1. UNCHANGED <<job, excused, swapped>> /\ line # <<>> /\ run \in RunSnapshot
  BY Ready DEF Pause, Steer, Abort, daemonVars, Holds
<1>2. Stands(run, run) /\ Stands(Paused(run), run) /\ Stands(Paused(Unplanned(run)), run)
  BY <1>1, StandsForms
<1>3. Paused(run).gap = run.gap /\ Paused(Unplanned(run)).gap = run.gap
  BY <1>1, KinForms DEF Kin
<1>4. CASE Released(run)
  BY <1>1, <1>2, <1>4, IdleBooked
<1>5. CASE Released(Paused(run)) /\ run.status \notin TERMINAL_RUN_STATUSES
  BY <1>1, <1>2, <1>3, <1>5, IdleBooked DEF Stands, Quieted, TERMINAL_RUN_STATUSES, Settled
<1>6. CASE Released(Paused(Unplanned(run))) /\ run.status \notin TERMINAL_RUN_STATUSES \ {"blocked"}
  BY <1>1, <1>2, <1>3, <1>6, IdleBooked DEF Stands, Quieted, TERMINAL_RUN_STATUSES, Settled
<1>7. CASE run' = run
  BY <1>1, <1>7, UnchangedBooked
<1> QED BY <1>4, <1>5, <1>6, <1>7 DEF Pause, Steer, Abort

(* A stop gives up what is pending, on record.                             *)
LEMMA AbortConfirmedBooked ==
    ASSUME Inv, Inv', Sighted, Spent, AbortConfirmed
    PROVE  Booked
<1>1. /\ pc # "idle" /\ NothingBegins /\ swapped' = swapped
      /\ excused' = (excused \/ run.pending # Nothing)
  BY SameJobs DEF AbortConfirmed
<1>2. PICK r : r = [Dropped(run) EXCEPT !.status = "aborted", !.tail = "other"]
  OBVIOUS
<1>3. Dropped(run).next = run.next
  BY Ready DEF Dropped, RunSnapshot
<1>4. r \in RunSnapshot /\ r.session = run.session /\ r.next = run.next /\ r.pending = Nothing
  BY <1>2, <1>3, Ready, DroppedKin DEF RunSnapshot, Statuses, TERMINAL_RUN_STATUSES, Settled
<1>5. Stands(run', r)
  BY <1>1, <1>2, <1>4, AtWork, Writes DEF AbortConfirmed
<1>6. Keeps
  BY <1>1, <1>4, <1>5 DEF Keeps, Stands
<1>7. Unblamed' => Unblamed /\ run'.pending = run.pending
  BY <1>1, <1>4, <1>5, AtWork DEF Unblamed, Stands
<1> QED BY <1>6, <1>7, KeepsBooked

LEMMA RestartBooked ==
    ASSUME Inv, Inv', Spent, Restart
    PROVE  Booked
<1>1. UNCHANGED <<job, excused, swapped>> /\ run' = Interrupted(run)
  BY DEF Restart, daemonVars
<1>2. CASE run' = run
  BY <1>1, <1>2, UnchangedBooked
<1>3. CASE /\ run.status \in {"running", "paused"}
           /\ run' = [run EXCEPT !.status = "paused", !.tail = "interrupted", !.gap = TRUE]
  <2>1. run'.session = run.session /\ run'.next = run.next /\ run'.pending = run.pending
    BY <1>3, Ready DEF RunSnapshot
  <2>2. Unblamed' => Unblamed
    BY <1>1, <1>3 DEF Unblamed, Quieted
  <2> QED BY <1>1, <2>1, <2>2, SameJobs, KeepsBooked DEF Keeps
<1> QED BY <1>1, <1>2, <1>3 DEF Interrupted

LEMMA ContinueBooked ==
    ASSUME Inv, Inv', Spent, Continue
    PROVE  Booked
<1>1. UNCHANGED <<job, swapped>> /\ line # <<>> /\ run \in RunSnapshot /\ Stands(run, run)
  BY Ready DEF Continue, daemonVars, Holds, Stands
<1>2. CASE run' = run /\ excused' = excused
  BY <1>1, <1>2, UnchangedBooked
<1>3. CASE Released(run) /\ excused' = excused
  BY <1>1, <1>3, IdleBooked
<1>4. CASE /\ \/ run.status \in {"running", "paused", "blocked"} /\ (excused => excused')
              \/ excused'
           /\ \/ run' = [run EXCEPT !.status = "running", !.tail = "other"]
              \/ run' = [Unplanned(run) EXCEPT !.status = "running", !.tail = "other"]
  <2>1. Stands(Unplanned(run), run)
    BY <1>1, StandsForms
  <2>2. run'.session = run.session /\ run'.next = run.next /\ run'.pending = run.pending
    BY <1>1, <1>4, <2>1 DEF RunSnapshot, Stands
  <2>3. Unblamed' => Unblamed
    BY <1>1, <1>4 DEF Unblamed, Quieted
  <2> QED BY <1>1, <1>4, <2>2, <2>3, SameJobs, KeepsBooked DEF Keeps
<1>5. CASE /\ run.status = "failed" \/ run.status = "blocked"
           /\ run' = [Unplanned(run) EXCEPT !.status = "running", !.tail = "other"]
           /\ excused' = (excused \/ run.status = "failed")
  BY <1>4, <1>5
<1> QED BY <1>2, <1>3, <1>4, <1>5 DEF Continue

(* A new session, where nothing of the run has begun.                      *)
LEMMA MovesBooked ==
    ASSUME Inv, Inv', Sighted, Spent, pc # "idle", opened < MaxSessions, opened' = opened + 1, UNCHANGED <<job, swapped>>,
           excused => excused', run'.session = opened', run'.next = run.next, run'.pending = Nothing,
           run'.status \notin Settled,
           excused' \/ run.pending = Nothing \/ Phase \notin Begun
    PROVE  Booked
<1>1. {k \in Key : job'[<<run'.session, k>>] \in {"running"} \cup Ended} = {}
  BY Unheard DEF Ended
<1>2. Spent'
  BY <1>1 DEF Spent, Begun
<1>3. excused' \in {excused, TRUE}
  BY Ready DEF RestTypeOK, Inv, TypeOK
<1>4. excused' \/ {k \in Key : job[<<run.session, k>>] \in {"running"} \cup Ended} = {}
  <2>1. ASSUME ~excused', NEW k \in Key, job[<<run.session, k>>] \in Begun
        PROVE  FALSE
    <3>1. Unblamed
      BY <2>1, AtWork DEF Unblamed
    <3>2. k = run.pending
      BY <2>1, <3>1 DEF Spent
    <3> QED BY <2>1, <3>2, KeyForm DEF Phase
  <2> QED BY <2>1 DEF Begun
<1>5. (run'.status \in Settled) = FALSE
  OBVIOUS
<1>6. Ledger!Move
  BY <1>1, <1>4, <1>5, Zenon DEF Ledger!Move
<1> QED BY <1>2, <1>3, <1>6 DEF Ledger!Next, Booked

LEMMA ReopenedBooked ==
    ASSUME Inv, Inv', Sighted, Spent, Reopened
    PROVE  Booked
<1>1. PICK q : q = [Dropped(run) EXCEPT !.session = opened', !.disagreed = FALSE, !.gap = FALSE,
                                        !.status = "running", !.tail = "other", !.machine = target]
  OBVIOUS
<1>2. Dropped(run).next = run.next
  BY Ready DEF Dropped, RunSnapshot
<1>3. q.session = opened' /\ q.pending = Nothing /\ q.status = "running" /\ q.next = run.next
  BY <1>1, <1>2, Ready, DroppedKin DEF RunSnapshot
<1>4. run' = q /\ pc = "reopen" /\ excused' = (excused \/ run.pending # Nothing)
  BY <1>1 DEF Reopened
<1> QED BY <1>3, <1>4, MovesBooked DEF Reopened, Settled

LEMMA SavesBooked ==
    ASSUME Inv, Inv', Sighted, Spent,
           \/ BudgetReached \/ ModelFails \/ Replanned \/ ReopenFails \/ AbortFails \/ TransportFails
           \/ ResolveFails \/ ObserveOnly \/ FastPath \/ PlanAnswered
    PROVE  Booked
<1>1. pc # "idle" /\ UNCHANGED <<job, excused>> /\ run \in RunSnapshot
  BY Ready DEF BudgetReached, ModelFails, Replanned, ReopenFails, AbortFails, TransportFails,
     ResolveFails, ObserveOnly, FastPath, PlanAnswered, MayAct, daemonVars
<1>2. CASE Released(run) \/ Released(Paused(run)) \/ Released(Yielded(run))
  <2>1. PICK r \in RunSnapshot : Stands(r, run) /\ Released(r)
    BY <1>1, <1>2, StandsForms DEF Stands
  <2> QED BY <1>1, <2>1, SameJobs, StandsSaved
<1>3. CASE Released([run EXCEPT !.status = "blocked", !.tail = "other"])
  <2>1. PICK r : r = [run EXCEPT !.status = "blocked", !.tail = "other"]
    OBVIOUS
  <2>2. Stands(r, run)
    BY <1>1, <2>1 DEF Stands, RunSnapshot, Statuses, TERMINAL_RUN_STATUSES
  <2> QED BY <1>1, <1>3, <2>1, <2>2, SameJobs, StandsSaved DEF Stands
<1>4. CASE Replanned
  <2>1. PICK m \in {run.machine, target} : Released([Paused(Unplanned(run)) EXCEPT !.machine = m])
    BY <1>4 DEF Replanned
  <2>2. PICK p : p = Paused(Unplanned(run))
    OBVIOUS
  <2>3. PICK r : r = [p EXCEPT !.machine = m]
    OBVIOUS
  <2>4. Stands(p, run) /\ m \in {1, 2}
    BY <1>1, <2>2, Ready, StandsForms DEF RunSnapshot
  <2>5. Stands(r, run)
    BY <2>3, <2>4 DEF Stands, RunSnapshot
  <2> QED BY <1>1, <2>1, <2>2, <2>3, <2>5, SameJobs, StandsSaved DEF Stands
<1>5. CASE run' = [run EXCEPT !.plan = TRUE]
  <2>1. Stands(run', run)
    BY <1>1, <1>5 DEF Stands, RunSnapshot
  <2> QED BY <1>1, <2>1, SameJobs, StandsBooked
<1> QED BY <1>2, <1>3, <1>4, <1>5 DEF BudgetReached, ModelFails, Replanned, ReopenFails, AbortFails,
        TransportFails, ResolveFails, ObserveOnly, FastPath, PlanAnswered

(* A proposal that is accepted is the next action.                         *)
LEMMA ProposedBooked ==
    ASSUME Inv, Inv', Spent, pc \in {"loop", "control"}, run.pending = Nothing,
           NEW d \in Contents, run' = [run EXCEPT !.pending = [index |-> run.next, act |-> d]],
           UNCHANGED <<job, swapped>>, excused => excused'
    PROVE  Booked
<1>1. /\ run'.status = run.status /\ run'.session = run.session /\ run'.next = run.next
      /\ run'.gap = run.gap /\ run'.pending = [index |-> run.next, act |-> d]
  BY Ready DEF RunSnapshot
<1>2. excused' \in {excused, TRUE}
  BY Ready DEF RestTypeOK, Inv, TypeOK
<1>3. Ledger!Decide(d)
  BY <1>1, InLoop DEF Ledger!Decide
<1>4. Spent'
  <2>1. Unblamed' => Unblamed
    BY <1>1 DEF Unblamed
  <2> QED BY <1>1, <2>1, KeyForm DEF Spent
<1> QED BY <1>2, <1>3, <1>4 DEF Ledger!Next, Booked

LEMMA ConsideredBooked ==
    ASSUME Inv, Inv', Sighted, Spent, pc \in {"loop", "control"}, run.pending = Nothing,
           NEW why, NEW d, Considered(why, d), UNCHANGED <<daemonVars, swapped>>
    PROVE  Booked
<1>1. excused' = (excused \/ (why = "long" /\ _unsafe_unverified_input_followup(run.unread, d)))
  BY DEF Considered
<1>2. (excused => excused') /\ UNCHANGED <<job, swapped>> /\ run \in RunSnapshot
  BY <1>1, Ready DEF daemonVars
<1>3. CASE Released(Paused(run)) \/ Released(Paused(Unplanned(run))) \/ Released(Blocked(run))
  <2>1. PICK r \in RunSnapshot : Stands(r, run) /\ Released(r)
    BY <1>2, <1>3, StandsForms DEF Stands
  <2> QED BY <1>2, <2>1, SameJobs, StandsSaved
<1>4. CASE Released([run EXCEPT !.status = "blocked", !.tail = "other"])
  <2>1. PICK r : r = [run EXCEPT !.status = "blocked", !.tail = "other"]
    OBVIOUS
  <2>2. Stands(r, run)
    BY <1>2, <2>1 DEF Stands, RunSnapshot, Statuses, TERMINAL_RUN_STATUSES
  <2> QED BY <1>2, <1>4, <2>1, <2>2, SameJobs, StandsSaved DEF Stands
<1>5. CASE run' = run
  BY <1>2, <1>5, SameJobs, StandsBooked DEF Stands
<1>6. CASE d \in Contents /\ run' = [run EXCEPT !.pending = [index |-> run.next, act |-> d]]
  BY <1>2, <1>6, ProposedBooked
<1> QED BY <1>3, <1>4, <1>5, <1>6 DEF Considered, Corrected, Proposed

LEMMA ControlBooked ==
    ASSUME Inv, Inv', Sighted, Spent, ControlAnswered \/ Adopt
    PROVE  Booked
<1>1. pc \in {"loop", "control"} /\ run.pending = Nothing /\ UNCHANGED <<daemonVars, swapped>>
  BY DEF ControlAnswered, Adopt, MayAct, Inv, Placed, Thinking
<1>2. PICK why, d : Considered(why, d)
  BY DEF ControlAnswered, Adopt
<1> QED BY <1>1, <1>2, ConsideredBooked

(* The pending action is given up: it has not begun, or the run has ended  *)
(* badly, or another machine has answered.                                 *)
LEMMA DropsBooked ==
    ASSUME Inv, Inv', Sighted, Spent, pc # "idle", NEW r \in RunSnapshot, Released(r) \/ AfterAction(r),
           r.session = run.session, r.next = run.next, r.pending = Nothing, r.gap = run.gap,
           NothingBegins, excused => excused',
           \/ Phase \notin Begun \/ swapped' = "alone"
           \/ r.status \in Quieted /\ ~r.gap
    PROVE  Booked
<1>1. Stands(run', r) /\ run'.status = r.status /\ run'.gap = r.gap
  BY AtWork, Writes, Lands DEF Kin
<1>2. Keeps
  BY <1>1 DEF Keeps, Stands
<1>3. Unblamed' => Unblamed /\ Phase \notin Begun
  BY <1>1, AtWork DEF Unblamed
<1> QED BY <1>2, <1>3, KeepsBooked

LEMMA DroppedPlace ==
    ASSUME NEW r \in RunSnapshot
    PROVE  Dropped(r).next = r.next /\ Dropped(r).navs = r.navs
BY DEF Dropped, RunSnapshot

LEMMA SendBooked ==
    ASSUME Inv, Inv', Sighted, Spent, Send
    PROVE  Booked
<1>1. pc \in Acting /\ pc # "idle" /\ run' = run /\ excused' = excused
  BY DEF Send, Acting
<1>2. PICK phase : /\ phase = IF Phase \in {"none", "refused"} THEN "asked" ELSE Phase
                   /\ job' = [job EXCEPT ![<<run.session, run.pending>>] = phase]
  BY <1>1, InAction, Ready DEF Send, Phase, TypeOK
<1>3. NothingBegins
  BY <1>1, <1>2, InAction, Turning DEF Begun, Ended
<1> QED BY <1>1, <1>3, Ready, StandsBooked DEF Stands

LEMMA AskingBooked ==
    ASSUME Inv, Inv', Sighted, Spent, AcceptHeld \/ DismissFails
    PROVE  Booked
<1>1. pc \in Acting /\ pc # "idle" /\ excused' = excused /\ run \in RunSnapshot
  BY Ready DEF AcceptHeld, DismissFails, Answered, Acting
<1>2. NothingBegins
  <2>1. CASE job' = job
    BY <2>1, SameJobs
  <2>2. CASE DismissFails /\ job' = [job EXCEPT ![<<run.session, run.pending>>] = "refused"]
    <3>1. Phase \notin Begun
      BY <2>2 DEF DismissFails, Sighted, Known, Begun, Ended
    <3> QED BY <1>1, <2>2, <3>1, InAction, Turning DEF Begun, Ended
  <2> QED BY <2>1, <2>2 DEF AcceptHeld, DismissFails, daemonVars
<1>3. CASE run' = run
  BY <1>1, <1>2, <1>3, StandsBooked DEF Stands
<1>4. CASE AfterAction([run EXCEPT !.hold = TRUE, !.status = "needs_approval", !.tail = "other"])
  <2>1. PICK r : r = [run EXCEPT !.hold = TRUE, !.status = "needs_approval", !.tail = "other"]
    OBVIOUS
  <2>2. Stands(r, run)
    BY <1>1, <2>1 DEF Stands, RunSnapshot, Statuses
  <2> QED BY <1>1, <1>2, <1>4, <2>1, <2>2, StandsSaved DEF Stands
<1> QED BY <1>3, <1>4 DEF AcceptHeld, DismissFails

(* Another machine has answered, or has been seen since.                   *)
LEMMA OtherBooked ==
    ASSUME Inv, Inv', Sighted, Spent, AcceptOther \/ FreshenedElsewhere
    PROVE  Booked
<1>1. pc \in Acting /\ pc # "idle" /\ UNCHANGED <<job, excused>> /\ ~SameMachine /\ Noticed
  BY DEF AcceptOther, FreshenedElsewhere, Answered, Acting, daemonVars
<1>2. swapped' = "alone"
  BY <1>1, NoticedAlone
<1>3. CASE AcceptOther
  <2>1. PICK r : r = IdentityChanged(Dropped(run))
    OBVIOUS
  <2>2. Dropped(run) \in RunSnapshot /\ Dropped(run).next = run.next /\ target \in {1, 2}
    BY Ready, DroppedKin, DroppedPlace
  <2>3. /\ r \in RunSnapshot /\ r.session = run.session /\ r.next = run.next /\ r.pending = Nothing
        /\ r.gap = run.gap
    BY <2>1, <2>2, Ready, DroppedKin DEF IdentityChanged, RunSnapshot, Statuses, TERMINAL_RUN_STATUSES
  <2>4. Released(r)
    BY <1>3, <2>1 DEF AcceptOther
  <2> QED BY <1>1, <1>2, <2>3, <2>4, SameJobs, DropsBooked
<1>4. CASE FreshenedElsewhere
  <2>1. PICK plan \in {run.plan, FALSE} :
           Released([IdentityChanged(run) EXCEPT !.hold = FALSE, !.plan = plan, !.machine = run.machine])
    BY <1>4 DEF FreshenedElsewhere
  <2>2. PICK r : r = [IdentityChanged(run) EXCEPT !.hold = FALSE, !.plan = plan, !.machine = run.machine]
    OBVIOUS
  <2>3. Stands(r, run)
    BY <2>2, Ready DEF Stands, IdentityChanged, RunSnapshot, Statuses, TERMINAL_RUN_STATUSES
  <2>4. r \in RunSnapshot /\ Released(r)
    BY <2>1, <2>2, <2>3 DEF Stands
  <2> QED BY <1>1, <2>3, <2>4, SameJobs, StandsSaved
<1> QED BY <1>3, <1>4

(* What has begun and ended is counted, and read off the daemon.           *)
LEMMA CountsBooked ==
    ASSUME Inv, Inv', Sighted, Spent, pc \in Acting, Phase \in Begun, AnswerRead, UNCHANGED <<excused, swapped>>,
           run'.session = run.session, run'.next = run.next + 1, run'.pending = Nothing,
           run'.status \notin Settled
    PROVE  Booked
<1>1. run.pending \in Key /\ run.session \in 1 .. MaxSessions /\ run.pending # Nothing
  BY InAction
<1>2. \A k \in Key : job'[<<run.session, k>>] = IF k = run.pending THEN "none" ELSE job[<<run.session, k>>]
  BY <1>1, Ready DEF AnswerRead, TypeOK
<1>3. "none" \notin {"running"} \cup Ended
  BY DEF Ended
<1>4. {k \in Key : job'[<<run'.session, k>>] \in {"running"} \cup Ended}
        = {k \in Key : job[<<run.session, k>>] \in {"running"} \cup Ended} \ {run.pending}
  BY <1>1, <1>2, <1>3
<1>5. run.pending \in {k \in Key : job[<<run.session, k>>] \in {"running"} \cup Ended}
  BY <1>1 DEF Phase, Begun
<1>6. (run'.status \in Settled) = (run.status \in Settled)
  BY <1>1, Ready DEF Fits
<1>7. Ledger!Count
  BY <1>4, <1>5, <1>6, Zenon DEF Ledger!Count
<1>8. Spent'
  <2> SUFFICES ASSUME Unblamed', NEW k \in Key, job'[<<run.session, k>>] \in Begun
               PROVE  FALSE
    BY DEF Spent
  <2>1. Unblamed
    BY AtWork DEF Unblamed, Acting
  <2>2. k # run.pending /\ job[<<run.session, k>>] \in Begun
    BY <1>2, <1>3 DEF Begun
  <2> QED BY <2>1, <2>2 DEF Spent
<1>9. excused' \in {excused, TRUE}
  OBVIOUS
<1> QED BY <1>7, <1>8, <1>9 DEF Ledger!Next, Booked

LEMMA AdvancedPlace ==
    ASSUME Inv, pc \in Acting
    PROVE  /\ Advanced(run) \in RunSnapshot /\ Advanced(run).pending = Nothing
           /\ Advanced(run).session = run.session /\ Advanced(run).next = run.next + 1
<1>1. Form(Advanced(run), run, run.status, run.tail) /\ Shed(Advanced(run))
  BY InAction, Ready, AdvancedForm
<1>2. run.pending.index = run.next /\ run.next \in Nat
  BY InAction, HarnessConstants, Ready DEF Fits, RunSnapshot
<1>3. Advanced(run).next = run.pending.index + 1
  <2>1. Dropped(run) \in RunSnapshot
    BY Ready, DroppedKin
  <2> QED BY <2>1 DEF Advanced, RunSnapshot
<1> QED BY <1>1, <1>2, <1>3 DEF Form, Shed

LEMMA AcceptUnreadBooked ==
    ASSUME Inv, Inv', Sighted, Spent, AcceptUnread
    PROVE  Booked
<1>1. pc \in Acting /\ Phase \in Begun /\ AnswerRead /\ UNCHANGED <<excused, swapped>>
  BY AnsweredFacts DEF AcceptUnread, Begun, Ended
<1>2. PICK plan \in {FALSE, run.plan}, attested \in {{}, Types(run.pending.act)} :
         AfterAction([Paused(Advanced(run)) EXCEPT
                         !.plan = plan, !.unread = @ \cup attested])
  BY DEF AcceptUnread
<1>3. PICK p : p = Paused(Advanced(run))
  OBVIOUS
<1>4. Stands(p, Advanced(run)) /\ p.status = "paused"
  BY <1>1, <1>3, AdvancedPlace, StandsForms, KinForms
<1>5. PICK r : r = [p EXCEPT !.plan = plan, !.unread = @ \cup attested]
  OBVIOUS
<1>6. Stands(r, Advanced(run)) /\ r.status = "paused"
  BY <1>4, <1>5, Ready DEF Stands, RunSnapshot, Types
<1>7. Stands(run', r) /\ run'.status = "paused"
  BY <1>1, <1>2, <1>3, <1>5, <1>6, InAction, Writes DEF Stands
<1> QED BY <1>1, <1>6, <1>7, AdvancedPlace, CountsBooked DEF Stands, Settled

LEMMA AcceptCompletedBooked ==
    ASSUME Inv, Inv', Sighted, Spent, AcceptCompleted
    PROVE  Booked
<1>1. pc \in Acting /\ Phase \in Begun /\ AnswerRead /\ UNCHANGED <<excused, swapped>>
  BY AnsweredFacts DEF AcceptCompleted, Begun, Ended
<1>2. PICK r : r = [Advanced(run) EXCEPT !.status = "running", !.tail = "other",
                                         !.unread = @ \ Clears(run.pending.act)]
  OBVIOUS
<1>3. Stands(r, Advanced(run)) /\ r.status = "running"
  BY <1>1, <1>2, AdvancedPlace DEF Stands, RunSnapshot, Statuses
<1>4. PICK q : q = [r EXCEPT !.disagreed = FALSE]
  OBVIOUS
<1>5. Stands(q, r) /\ q.status = "running"
  BY <1>3, <1>4 DEF Stands, RunSnapshot
<1>6. Stands(run', r) /\ run'.status = "running"
  <2>1. CASE AfterAction(q)
    BY <1>1, <1>5, <2>1, InAction, Writes DEF Stands
  <2>2. CASE run' = r
    BY <1>3, <2>2 DEF Stands
  <2> QED BY <1>2, <1>4, <2>1, <2>2 DEF AcceptCompleted
<1> QED BY <1>1, <1>3, <1>6, AdvancedPlace, CountsBooked DEF Stands, Settled

LEMMA EndsBooked ==
    ASSUME Inv, Inv', Sighted, Spent, AcceptFailed \/ TakenOver \/ Quit
    PROVE  Booked
<1>1. pc \in Acting /\ pc # "idle" /\ UNCHANGED <<job, excused>>
  BY DEF AcceptFailed, TakenOver, Quit, Answered, Acting, daemonVars
<1>2. PICK status \in Quieted :
         \/ AfterAction([Dropped(run) EXCEPT !.status = status, !.tail = "other"])
         \/ Released([Dropped(run) EXCEPT !.status = status, !.tail = "other"])
  BY DEF AcceptFailed, TakenOver, Quit, Quieted
<1>3. PICK r : r = [Dropped(run) EXCEPT !.status = status, !.tail = "other"]
  OBVIOUS
<1>4. status \in Statuses
  BY DEF Quieted, Statuses, TERMINAL_RUN_STATUSES, Settled
<1>5. /\ r \in RunSnapshot /\ r.session = run.session /\ r.next = run.next /\ r.pending = Nothing
      /\ r.gap = run.gap /\ r.status = status
  BY <1>3, <1>4, Ready, DroppedKin, DroppedPlace DEF RunSnapshot
<1> QED BY <1>1, <1>2, <1>3, <1>5, InAction, SameJobs, DropsBooked

(* The daemon has not begun the action that is given up.                   *)
LEMMA UnbegunBooked ==
    ASSUME Inv, Inv', Sighted, Spent, pc \in Acting, Phase \notin Begun, excused' = excused,
           \/ AfterAction(Blocked(Dropped(run))) \/ AfterAction(Yielded(Dropped(run)))
           \/ AfterAction(Paused(Unplanned(Dropped(run)))) \/ AfterAction(Paused(Dropped(run)))
           \/ \E plan \in {run.plan, FALSE} : AfterAction([Paused(Dropped(run)) EXCEPT !.plan = plan]),
           job' = job \/ job' = [job EXCEPT ![<<run.session, run.pending>>] = "none"]
    PROVE  Booked
<1> DEFINE Without(q) == /\ q \in RunSnapshot /\ q.session = run.session /\ q.pending = Nothing
                         /\ q.gap = run.gap /\ q.next = run.next
<1>1. Dropped(run) \in RunSnapshot /\ Without(Dropped(run))
  BY Ready, DroppedKin, DroppedPlace
<1>2. \A q \in RunSnapshot : Without(q) =>
         Without(Blocked(q)) /\ Without(Yielded(q)) /\ Without(Paused(q)) /\ Without(Unplanned(q))
  BY KinForms, StandsForms DEF Kin, Stands
<1>3. Without(Paused(Unplanned(Dropped(run)))) /\ Without(Paused(Dropped(run)))
  BY <1>1, <1>2
<1>4. \A plan \in {run.plan, FALSE} : Without([Paused(Dropped(run)) EXCEPT !.plan = plan])
  BY <1>3, Ready DEF RunSnapshot
<1>5. PICK q : Without(q) /\ AfterAction(q)
  BY <1>1, <1>2, <1>3, <1>4
<1>6. NothingBegins
  <2>1. "none" \notin Begun
    BY DEF Begun, Ended
  <2> QED BY <2>1, InAction, SameJobs, Turning
<1>7. pc # "idle"
  BY DEF Acting
<1> QED BY <1>5, <1>6, <1>7, DropsBooked

LEMMA DismissedBooked ==
    ASSUME Inv, Inv', Sighted, Spent, Dismissed \/ Freshened \/ FreshenFails \/ RenavigateFails
    PROVE  Booked
<1>1. pc \in Acting /\ pc # "idle" /\ excused' = excused /\ Phase \notin Begun
  BY DEF Dismissed, Freshened, FreshenFails, RenavigateFails, Acting, Sighted, Known, Inv, Placed, Begun, Ended
<1>2. job' = job \/ job' = [job EXCEPT ![<<run.session, run.pending>>] = "none"]
  BY DEF Dismissed, Freshened, FreshenFails, RenavigateFails, AnswerRead, daemonVars
<1>3. CASE run' = run
  <2>1. "none" \notin Begun
    BY DEF Begun, Ended
  <2>2. NothingBegins
    BY <1>1, <1>2, <2>1, InAction, SameJobs, Turning
  <2> QED BY <1>1, <1>3, <2>2, Ready, StandsBooked DEF Stands
<1> QED BY <1>1, <1>2, <1>3, UnbegunBooked DEF Dismissed, Freshened, FreshenFails, RenavigateFails

LEMMA MovedAwayPlace ==
    ASSUME NEW r \in RunSnapshot, target \in {1, 2}
    PROVE  Stands(IdentityChanged(r), r) /\ IdentityChanged(r).gap = r.gap
BY DEF Stands, IdentityChanged, RunSnapshot, Statuses, TERMINAL_RUN_STATUSES

LEMMA RenavigatedBooked ==
    ASSUME Inv, Inv', Sighted, Spent, Renavigated
    PROVE  Booked
<1>1. pc \in Acting /\ pc # "idle" /\ Phase = "none" /\ run.navs < MaxNav /\ UNCHANGED <<job, excused>>
  BY DEF Renavigated, Acting, Inv, Placed
<1>2. /\ Dropped(run) \in RunSnapshot /\ Dropped(run).navs = run.navs
      /\ Dropped(run).next = run.next /\ Dropped(run).pending = Nothing
  BY Ready, DroppedKin, DroppedPlace
<1>3. CASE SameMachine
  <2>1. PICK p : p = Yielded(Dropped(run))
    OBVIOUS
  <2>2. Stands(p, Dropped(run)) /\ p.status = "paused"
    BY <1>2, <2>1, StandsForms, KinForms
  <2>3. p.navs = run.navs
    BY <1>2, <2>1 DEF Yielded, RunSnapshot
  <2>4. PICK r : r = [p EXCEPT !.session = opened', !.navs = @ + 1]
    OBVIOUS
  <2>5. run.navs + 1 \in 0 .. MaxNav /\ opened' \in 1 .. MaxSessions
    BY <1>1, HarnessConstants, Ready, SMTT(30) DEF RunSnapshot, TypeOK, Renavigated
  <2>6. /\ r \in RunSnapshot /\ r.session = opened' /\ r.pending = Nothing /\ r.next = run.next
        /\ r.status = "paused"
    BY <1>2, <2>2, <2>3, <2>4, <2>5 DEF Stands, RunSnapshot
  <2>7. AfterAction(r) /\ swapped' = swapped
    BY <1>3, <2>1, <2>4 DEF Renavigated
  <2>8. Stands(run', r) /\ run'.status = "paused"
    BY <1>1, <2>6, <2>7, InAction, Writes
  <2>9. Phase \notin Begun
    BY <1>1 DEF Begun, Ended
  <2> QED BY <1>1, <2>6, <2>7, <2>8, <2>9, MovesBooked DEF Renavigated, Stands, Settled
<1>4. CASE ~SameMachine
  <2>1. Released(IdentityChanged(Dropped(run)))
    BY <1>4 DEF Renavigated
  <2>2. PICK r : r = IdentityChanged(Dropped(run))
    OBVIOUS
  <2>3. /\ r \in RunSnapshot /\ r.session = run.session /\ r.next = run.next /\ r.pending = Nothing
        /\ r.gap = run.gap
    BY <1>2, <2>2, Ready, DroppedKin, MovedAwayPlace DEF Stands
  <2>4. Phase \notin Begun
    BY <1>1 DEF Begun, Ended
  <2> QED BY <1>1, <2>1, <2>2, <2>3, <2>4, SameJobs, DropsBooked
<1> QED BY <1>3, <1>4

LEMMA VerifiedBooked ==
    ASSUME Inv, Inv', Sighted, Spent, pc = "check", NEW r \in RunSnapshot, Stands(r, run), NEW v, Verified(r, v),
           UNCHANGED <<job, excused>>
    PROVE  Booked
<1>1. CASE run' = r
  BY <1>1, SameJobs, StandsBooked
<1>2. CASE AfterAction(r) \/ Released(r) \/ Released(Paused(r)) \/ Released(Yielded(Unplanned(r)))
  <2>1. PICK q \in RunSnapshot : Stands(q, r) /\ (AfterAction(q) \/ Released(q))
    BY <1>2, StandsForms DEF Stands
  <2> QED BY <2>1, SameJobs, StandsSaved DEF Stands
<1> QED BY <1>1, <1>2 DEF Verified

LEMMA JudgedStands ==
    ASSUME Inv, NEW v
    PROVE  Judged(run, v) \in RunSnapshot /\ Stands(Judged(run, v), run)
<1>1. run \in RunSnapshot /\ Stands(Yielded(run), run) /\ Stands(Paused(Unplanned(run)), run)
  BY Ready, StandsForms
<1>2. \A q \in RunSnapshot, b \in BOOLEAN : Stands(q, run) => Stands([q EXCEPT !.disagreed = b], run)
  BY DEF Stands, RunSnapshot
<1>3. CASE v = "complete" \/ v = "verified"
  BY <1>1, <1>3 DEF Judged, Stands, RunSnapshot, Statuses, TERMINAL_RUN_STATUSES, Settled
<1>4. CASE v = "uncertain"
  <2>1. Judged(run, v) = [Paused(Unplanned(run)) EXCEPT !.disagreed = FALSE]
    BY <1>4 DEF Judged
  <2> QED BY <1>1, <1>2, <2>1 DEF Stands
<1>5. CASE v \notin {"complete", "verified", "uncertain"}
  <2>1. Judged(run, v) = [Yielded(run) EXCEPT !.disagreed = TRUE]
    BY <1>5 DEF Judged
  <2> QED BY <1>1, <1>2, <2>1 DEF Stands
<1> QED BY <1>3, <1>4, <1>5

LEMMA ChecksBooked ==
    ASSUME Inv, Inv', Sighted, Spent,
           \/ EvidenceMissing \/ VerifierFails \/ VerifierAnswered \/ DelayedFrame \/ NoDelayedFrame
           \/ VerifiedElsewhere \/ SpeculationFails \/ Joined
    PROVE  Booked
<1>1. pc = "check" /\ UNCHANGED <<job, excused>> /\ run \in RunSnapshot
  BY Ready DEF EvidenceMissing, VerifierFails, VerifierAnswered, DelayedFrame, NoDelayedFrame,
     VerifiedElsewhere, SpeculationFails, Joined, daemonVars
<1>2. CASE run' = run
  BY <1>1, <1>2, SameJobs, StandsBooked DEF Stands
<1>3. CASE EvidenceMissing \/ VerifierFails
  <2>1. Stands(Paused(run), run) /\ Paused(run) \in RunSnapshot
    BY <1>1, StandsForms DEF Stands
  <2> QED BY <1>1, <1>3, <2>1, VerifiedBooked DEF EvidenceMissing, VerifierFails
<1>4. CASE \E v : Verified(Judged(run, v), v)
  BY <1>1, <1>4, JudgedStands, VerifiedBooked
<1>5. CASE DelayedFrame \/ SpeculationFails
  <2>1. Stands(run', run)
    BY <1>1, <1>5 DEF DelayedFrame, SpeculationFails, Stands, RunSnapshot, Statuses
  <2> QED BY <1>1, <2>1, SameJobs, StandsBooked
<1>6. CASE VerifiedElsewhere
  <2>1. PICK r : r = IdentityChanged(run)
    OBVIOUS
  <2>2. Stands(r, run)
    BY <1>1, <2>1, Ready DEF Stands, IdentityChanged, RunSnapshot, Statuses, TERMINAL_RUN_STATUSES
  <2> QED BY <1>1, <1>6, <2>1, <2>2, VerifiedBooked DEF VerifiedElsewhere, Stands
<1>7. CASE Joined /\ ~Adoptable
  <2>1. PICK tail \in {"other"} \cup ({run.tail} \cap {"yield"}) : AfterAction([run EXCEPT !.tail = tail])
    BY <1>7 DEF Joined
  <2>2. PICK r : r = [run EXCEPT !.tail = tail]
    OBVIOUS
  <2>3. Stands(r, run)
    BY <1>1, <2>1, <2>2 DEF Stands, RunSnapshot
  <2> QED BY <1>1, <2>1, <2>2, <2>3, SameJobs, StandsSaved DEF Stands
<1> QED BY <1>2, <1>3, <1>4, <1>5, <1>6, <1>7 DEF VerifierAnswered, NoDelayedFrame, Joined

LEMMA ResolveBooked ==
    ASSUME Inv, Inv', Spent, Resolve
    PROVE  Booked
<1>1. line # <<>> /\ UNCHANGED <<excused, swapped>> /\ run \in RunSnapshot
  BY Ready DEF Resolve, Holds
<1>2. CASE Released(run) /\ job' = job
  BY <1>1, <1>2, IdleBooked DEF Stands
<1>3. CASE run.status = "needs_approval" /\ run.hold
  <2>1. run.pending # Nothing /\ run.pending \in Key /\ run.session \in 1 .. MaxSessions
    BY <1>3, Ready DEF Fits, RunSnapshot
  <2>2. PICK decision \in {"approve", "reject", "take_over"} :
           /\ job' = [job EXCEPT ![<<run.session, run.pending>>] =
                          IF @ # "held" THEN @ ELSE IF decision = "approve" THEN "granted" ELSE "denied"]
           /\ run' = run
    BY <1>3 DEF Resolve
  <2>3. PICK phase : /\ phase = IF Phase # "held" THEN Phase ELSE IF decision = "approve" THEN "granted" ELSE "denied"
                     /\ job' = [job EXCEPT ![<<run.session, run.pending>>] = phase]
    BY <2>1, <2>2, Ready DEF Phase, TypeOK
  <2>4. phase \in Begun <=> Phase \in Begun
    BY <2>3 DEF Begun, Ended
  <2>5. NothingBegins
    BY <2>1, <2>3, <2>4, Turning
  <2> QED BY <1>1, <2>2, <2>5, KeepsBooked DEF Keeps, Unblamed
<1> QED BY <1>2, <1>3 DEF Resolve

(* Only the pending action begins, and beside nothing that is open.        *)
LEMMA ExecutesBooked ==
    ASSUME Inv, Inv', Sighted, Spent, NEW k \in Key, Executes(run.session, k)
    PROVE  Booked
<1>1. /\ job[<<run.session, k>>] \in Startable /\ run.session \notin stopped
      /\ UNCHANGED <<run, excused, swapped>> /\ run.session \in 1 .. MaxSessions
  BY Ready DEF Executes, External, Startable, RunSnapshot
<1>2. \A q \in Key : job'[<<run.session, q>>] = IF q = k THEN "running" ELSE job[<<run.session, q>>]
  BY <1>1, Ready DEF Executes, Becomes, TypeOK
<1>3. k = run.pending /\ run.pending # Nothing
  BY <1>1, KeyForm DEF Inv, Owned, Startable
<1>4. job[<<run.session, k>>] \notin {"running"} \cup Ended
  BY <1>1 DEF Startable, Ended
<1>5. ~excused => Unblamed
  BY <1>1, <1>3 DEF Unblamed, Sighted, Known
<1>6. excused \/ {q \in Key : job[<<run.session, q>>] \in {"running"} \cup Ended} = {}
  BY <1>3, <1>4, <1>5 DEF Spent, Begun
<1>7. {q \in Key : job'[<<run'.session, q>>] \in {"running"} \cup Ended}
        = {q \in Key : job[<<run.session, q>>] \in {"running"} \cup Ended} \cup {run.pending}
  BY <1>1, <1>2, <1>3
<1>8. run.pending \notin {q \in Key : job[<<run.session, q>>] \in {"running"} \cup Ended}
  BY <1>3, <1>4
<1>9. Ledger!Begin
  BY <1>1, <1>3, <1>6, <1>7, <1>8, Zenon DEF Ledger!Begin
<1>10. Spent'
  <2> SUFFICES ASSUME Unblamed', NEW q \in Key, job'[<<run.session, q>>] \in Begun
               PROVE  q = run.pending
    BY <1>1 DEF Spent
  <2>1. CASE q = k
    BY <1>3, <2>1
  <2>2. CASE q # k
    BY <1>1, <1>2, <2>2 DEF Spent, Unblamed
  <2> QED BY <2>1, <2>2
<1> QED BY <1>1, <1>9, <1>10 DEF Ledger!Next, Booked

LEMMA DaemonBooked ==
    ASSUME Inv, Inv', Sighted, Spent, NEW s \in 1 .. MaxSessions, NEW k \in Key,
           Executes(s, k) \/ Declines(s, k) \/ EndsExecution(s, k)
    PROVE  Booked
<1>1. CASE Executes(s, k) /\ s = run.session
  BY <1>1, ExecutesBooked
<1>2. CASE ~(Executes(s, k) /\ s = run.session)
  <2>1. UNCHANGED <<run, excused, swapped>>
    BY DEF Executes, Declines, EndsExecution, External
  <2>2. job \in [(1 .. MaxSessions) \X Key -> InFlight \cup Ended \cup {"none", "refused"}]
    BY Ready DEF TypeOK
  <2>3. PICK phase : job' = [job EXCEPT ![<<s, k>>] = phase]
    BY DEF Executes, Declines, EndsExecution, Becomes
  <2>4. /\ job'[<<s, k>>] = phase
        /\ \A z \in 1 .. MaxSessions, q \in Key : <<z, q>> # <<s, k>> => job'[<<z, q>>] = job[<<z, q>>]
    BY <2>2, <2>3
  <2>5. s = run.session => (job'[<<s, k>>] \in Begun <=> job[<<s, k>>] \in Begun)
    BY <1>2, <2>2, <2>4 DEF Declines, EndsExecution, Becomes, Begun, Ended
  <2>6. run.session \in 1 .. MaxSessions
    BY Ready DEF RunSnapshot
  <2>7. NothingBegins
    BY <2>4, <2>5, <2>6 DEF NothingBegins
  <2> QED BY <2>1, <2>7, KeepsBooked DEF Keeps, Unblamed
<1> QED BY <1>1, <1>2

LEMMA BookedStep ==
    ASSUME Inv, Inv', Sighted, Spent, [Next]_vars
    PROVE  Booked
<1>1. CASE Requests \/ Load \/ UNCHANGED vars
  BY <1>1, CallsBooked, LoadBooked
<1>2. CASE Handler
  <2>1. CASE OperatorQueues \/ Pause \/ Steer \/ Abort \/ AbortConfirmed \/ Continue \/ Reopened
    BY <2>1, CallsBooked, PauseBooked, AbortConfirmedBooked, ContinueBooked, ReopenedBooked
  <2>2. CASE \/ BudgetReached \/ ObserveOnly \/ FastPath \/ AskPlan \/ PlanAnswered
             \/ AskControl \/ ControlAnswered \/ Adopt \/ Replanned
    BY <2>2, SavesBooked, CallsBooked, ControlBooked
  <2>3. CASE \/ Attempt \/ Send
             \/ AcceptOther \/ AcceptHeld \/ AcceptRefused \/ AcceptUnread \/ AcceptFailed \/ AcceptCompleted
    BY <2>3, CallsBooked, SendBooked, OtherBooked, AskingBooked, AcceptUnreadBooked, EndsBooked,
       AcceptCompletedBooked
  <2>4. CASE Dismissed \/ Renavigated \/ Freshened \/ FreshenedElsewhere
    BY <2>4, DismissedBooked, RenavigatedBooked, OtherBooked
  <2>5. CASE \/ EvidenceRefreshed \/ VerifierAnswered \/ DelayedFrame \/ NoDelayedFrame \/ VerifiedElsewhere
             \/ SpeculationAnswered \/ Joined
    BY <2>5, CallsBooked, ChecksBooked
  <2>6. CASE Resolve \/ TakenOver \/ Rejected \/ Quit
    BY <2>6, ResolveBooked, EndsBooked, CallsBooked
  <2> QED BY <1>2, <2>1, <2>2, <2>3, <2>4, <2>5, <2>6 DEF Handler
<1>3. CASE Failure
  BY <1>3, SavesBooked, AskingBooked, DismissedBooked, ChecksBooked DEF Failure
<1>4. CASE DaemonStep \/ Restart \/ TargetChanges
  BY <1>4, DaemonBooked, RestartBooked, CallsBooked DEF DaemonStep
<1> QED BY <1>1, <1>2, <1>3, <1>4 DEF Next

LEMMA BookedInit == Init => Ledger!Init /\ Spent
<1> SUFFICES ASSUME Init
             PROVE  Ledger!Init /\ Spent
  OBVIOUS
<1>1. \A k \in Key : job[<<run.session, k>>] = "none"
  BY HarnessConstants DEF Init
<1>2. Spent
  BY <1>1 DEF Spent, Begun, Ended
<1>3. {k \in Key : job[<<run.session, k>>] \in {"running"} \cup Ended} = {}
  BY <1>1 DEF Ended
<1>4. (run.status \in Settled) = FALSE /\ excused = FALSE /\ run.next = 0 /\ run.pending = Nothing
  BY DEF Init, Settled
<1>5. Ledger!Init
  BY <1>3, <1>4, Zenon DEF Ledger!Init
<1> QED BY <1>2, <1>5


-----------------------------------------------------------------------------
(* LoopRuns. Where the loop may be reached from, an approval's slice still *)
(* has its lock, and a slice of the loop's own has counted its attempt.    *)
Steady ==
    /\ pc \in {"loop", "plan", "control"} /\ run.status # "running" => Holds("appr") /\ slice.acts = 0
    /\ pc \in {"dismiss", "renav", "freshen", "approve"} /\ slice.acts = 0 => Holds("appr")
    /\ pc = "check" /\ check.for = "action" /\ slice.acts = 0 => Holds("appr")
    /\ ctl # "off" => check.for = "action"
    /\ pc \in {"send", "burst"} => slice.acts > 0

(* Where the slice has ended nothing is left to show.                      *)
LEMMA RestedSteady ==
    ASSUME ctl' = "off", pc' \notin {"loop", "plan", "control", "dismiss", "renav", "freshen", "approve",
                                     "check", "send", "burst"}
    PROVE  Steady'
BY DEF Steady

LEMMA ReleasedSteady ==
    ASSUME NEW r, Released(r)
    PROVE  Steady'
BY RestedSteady DEF Released, Forgotten

LEMMA AcceptedSteady ==
    ASSUME NEW r, AfterAction(r), slice.acts = 0 => Holds("appr"), HolderTypeOK
    PROVE  Steady'
<1>1. CASE Released(r)
  BY <1>1, ReleasedSteady
<1>2. CASE ~Released(r)
  <2>1. /\ run' = r /\ pc' = "loop" /\ line' = line /\ ctl' = "off"
        /\ slice' = [slice EXCEPT !.why = "first"]
    BY <1>2 DEF AfterAction, Goes
  <2>2. slice'.acts = slice.acts
    BY <2>1 DEF HolderTypeOK
  <2>3. r.status = "running" \/ slice.acts = 0
    BY <1>2 DEF AfterAction
  <2> QED BY <2>1, <2>2, <2>3 DEF Steady, Holds
<1> QED BY <1>1, <1>2

(* The holder's own variables stay, and the line only grows behind it.     *)
LEMMA UnmovedSteady ==
    ASSUME HolderTypeOK, Steady, UNCHANGED <<holderVars, run>>,
           line' = line \/ \E actor \in {"cont", "appr", "op"} : line' = Append(line, actor)
    PROVE  Steady'
<1>1. Holds("appr") => Holds("appr")'
  BY DEF Holds, HolderTypeOK
<1> QED BY <1>1 DEF Steady, holderVars

LEMMA RequestsSteady ==
    ASSUME Inv, Steady,
           \/ Requests \/ Load \/ OperatorQueues \/ DaemonStep \/ Restart \/ TargetChanges \/ UNCHANGED vars
    PROVE  Steady'
<1>1. CASE OperatorCancels \/ Restart
  BY <1>1, RestedSteady DEF OperatorCancels, Restart, Forgotten
<1>2. CASE ContinueRequested \/ ApprovalRequested \/ OperatorQueues
  BY <1>2, Ready, UnmovedSteady DEF ContinueRequested, ApprovalRequested, OperatorQueues
<1>3. CASE DaemonStep \/ TargetChanges \/ UNCHANGED vars
  BY <1>3, Ready, UnmovedSteady
     DEF DaemonStep, Executes, Declines, EndsExecution, External, TargetChanges, vars
<1>4. CASE Load
  BY <1>4 DEF Load, Steady, holderVars
<1> QED BY <1>1, <1>2, <1>3, <1>4 DEF Requests

LEMMA EntersSteady ==
    ASSUME Inv, Pause \/ Steer \/ Abort \/ AbortConfirmed \/ AbortFails \/ Continue \/ Reopened \/ ReopenFails
    PROVE  Steady'
<1>1. CASE \E r : Released(r)
  BY <1>1, ReleasedSteady
<1>2. CASE Abort /\ pc' = "abort"
  BY <1>2, RestedSteady DEF Abort, Released, Goes, Forgotten
<1>3. CASE Continue /\ pc' = "reopen"
  BY <1>3, RestedSteady DEF Continue, Released, Goes, Forgotten
<1>4. CASE Continue /\ pc' = "loop"
  <2>1. run'.status = "running" /\ ctl' = "off"
    BY <1>4, Ready DEF Continue, Released, Goes, Forgotten, Unplanned, RunSnapshot
  <2> QED BY <1>4, <2>1 DEF Steady
<1>5. CASE Reopened
  <2>1. run'.status = "running" /\ ctl' = "off" /\ pc' = "loop"
    BY <1>5, Ready DEF Reopened, Goes, Dropped, RunSnapshot, Inv, Placed
  <2> QED BY <2>1 DEF Steady
<1> QED BY <1>1, <1>2, <1>3, <1>4, <1>5
        DEF Pause, Steer, Abort, AbortConfirmed, AbortFails, Continue, ReopenFails, Goes

(* Planning and control.                                                   *)
LEMMA ThinksSteady ==
    ASSUME Inv, Steady, pc \in {"loop", "plan", "control"}, UNCHANGED line, ctl' = ctl,
           slice'.acts = slice.acts, run'.status = run.status,
           pc' \in {"loop", "plan", "control", "replan"} \/ (pc' = "check" /\ check'.for # "action")
    PROVE  Steady'
BY InLoop DEF Steady, Holds

LEMMA ConsideredSteady ==
    ASSUME Inv, Steady, pc \in {"loop", "control"}, NEW why, NEW d, Considered(why, d)
    PROVE  Steady'
<1>1. CASE \E r : Released(r)
  BY <1>1, ReleasedSteady
<1>2. CASE ~\E r : Released(r)
  <2>1. line' = line /\ ctl' = ctl
    BY <1>2 DEF Considered, Corrected, Proposed, Goes
  <2>2. slice' = slice \/ \E turn : slice' = [slice EXCEPT !.why = turn]
    BY <1>2 DEF Considered, Corrected, Proposed
  <2>3. slice'.acts = slice.acts
    BY <2>2, Ready DEF HolderTypeOK
  <2>4. run' = run \/ \E k : run' = [run EXCEPT !.pending = k]
    BY <1>2 DEF Considered, Corrected, Proposed
  <2>5. run'.status = run.status
    BY <2>4, Ready DEF RunSnapshot
  <2>6. pc' \in {"loop", "control", "replan"} \/ (pc' = "check" /\ check'.for # "action")
    BY <1>2 DEF Considered, Corrected, Proposed, Goes, NoCheck
  <2> QED BY <2>1, <2>3, <2>5, <2>6, ThinksSteady
<1> QED BY <1>1, <1>2

LEMMA LoopSteady ==
    ASSUME Inv, Steady,
           \/ BudgetReached \/ ObserveOnly \/ FastPath \/ AskPlan \/ PlanAnswered \/ ModelFails
           \/ AskControl \/ ControlAnswered \/ Adopt \/ Replanned
    PROVE  Steady'
<1>1. CASE BudgetReached \/ ModelFails \/ Replanned
  BY <1>1, ReleasedSteady DEF BudgetReached, ModelFails, Replanned
<1>2. CASE ObserveOnly \/ FastPath \/ AskPlan \/ PlanAnswered \/ AskControl
  <2>1. /\ pc \in {"loop", "plan", "control"} /\ UNCHANGED <<line, ctl, slice>>
        /\ run' \in {run, [run EXCEPT !.plan = TRUE]}
    BY <1>2 DEF ObserveOnly, FastPath, AskPlan, PlanAnswered, AskControl, MayAct, Goes
  <2>2. run'.status = run.status
    BY <2>1, Ready DEF RunSnapshot
  <2>3. pc' \in {"loop", "plan", "control"} \/ (pc' = "check" /\ check'.for # "action")
    BY <1>2 DEF ObserveOnly, FastPath, AskPlan, PlanAnswered, AskControl, MayAct, Goes, NoCheck
  <2> QED BY <2>1, <2>2, <2>3, ThinksSteady
<1>3. CASE ControlAnswered \/ Adopt
  BY <1>3, ConsideredSteady DEF ControlAnswered, Adopt, MayAct
<1> QED BY <1>1, <1>2, <1>3

(* The action under way, and what its answer leads to.                     *)
LEMMA ActsSteady ==
    ASSUME Inv, Steady, Attempt \/ Send \/ TransportFails
    PROVE  Steady'
<1>1. CASE Attempt
  <2>1. pc' = "send" /\ ctl' = "off" /\ slice'.acts = slice.acts + 1 /\ slice.acts \in Nat
    BY <1>1, Ready, InLoop, HarnessConstants DEF Attempt, MayAct, Goes, HolderTypeOK
  <2> QED BY <2>1 DEF Steady
<1>2. CASE Send
  BY <1>2 DEF Send, Goes, Steady, Inv, Placed
<1>3. CASE TransportFails
  BY <1>3, ReleasedSteady DEF TransportFails
<1> QED BY <1>1, <1>2, <1>3

LEMMA HeldSteady ==
    ASSUME Inv, Steady, pc \in {"burst", "dismiss", "renav", "freshen", "approve"}
    PROVE  slice.acts = 0 => Holds("appr")
BY Ready, HarnessConstants DEF Steady, HolderTypeOK

LEMMA AcceptsSteady ==
    ASSUME Inv, Steady,
           \/ AcceptOther \/ AcceptHeld \/ AcceptRefused \/ AcceptUnread \/ AcceptFailed \/ AcceptCompleted
    PROVE  Steady'
<1>1. /\ pc \in {"burst", "approve"} /\ (slice.acts = 0 => Holds("appr")) /\ ctl = "off"
  BY HeldSteady DEF AcceptOther, AcceptHeld, AcceptRefused, AcceptUnread, AcceptFailed, AcceptCompleted,
     Answered, Inv, Placed
<1>2. CASE \E r : Released(r) \/ AfterAction(r)
  BY <1>1, <1>2, Ready, ReleasedSteady, AcceptedSteady
<1>3. CASE pc' \in {"dismiss", "freshen"} /\ UNCHANGED <<line, slice, ctl>>
  BY <1>1, <1>3 DEF Steady, Holds
<1>4. CASE pc' = "check" /\ UNCHANGED <<line, slice>> /\ check'.for = "action"
  BY <1>1, <1>4 DEF Steady, Holds
<1> QED BY <1>2, <1>3, <1>4
        DEF AcceptOther, AcceptHeld, AcceptRefused, AcceptUnread, AcceptFailed, AcceptCompleted, Goes, NoCheck

LEMMA TidiesSteady ==
    ASSUME Inv, Steady,
           \/ Dismissed \/ DismissFails \/ Renavigated \/ RenavigateFails
           \/ Freshened \/ FreshenedElsewhere \/ FreshenFails
    PROVE  Steady'
<1>1. /\ pc \in {"dismiss", "renav", "freshen"} /\ (slice.acts = 0 => Holds("appr")) /\ ctl = "off"
  BY HeldSteady DEF Dismissed, DismissFails, Renavigated, RenavigateFails, Freshened, FreshenedElsewhere,
     FreshenFails, Inv, Placed
<1>2. CASE \E r : Released(r) \/ AfterAction(r)
  BY <1>1, <1>2, Ready, ReleasedSteady, AcceptedSteady
<1>3. CASE pc' = "renav" /\ UNCHANGED <<line, slice, ctl>>
  BY <1>1, <1>3 DEF Steady, Holds
<1> QED BY <1>2, <1>3
        DEF Dismissed, DismissFails, Renavigated, RenavigateFails, Freshened, FreshenedElsewhere,
            FreshenFails, Goes

(* Verification.                                                           *)
LEMMA VerifiedSteady ==
    ASSUME Inv, Steady, pc = "check", NEW r, NEW v, Verified(r, v)
    PROVE  Steady'
<1>1. CASE ctl # "off"
  <2>1. pc' = "check" /\ UNCHANGED <<line, slice, ctl>> /\ check'.for = check.for
    BY <1>1, Ready DEF Verified, Goes, HolderTypeOK
  <2> QED BY <1>1, <2>1 DEF Steady, Holds
<1>2. CASE ctl = "off" /\ check.for = "action"
  BY <1>2, Ready, AcceptedSteady DEF Verified, Steady
<1>3. CASE ctl = "off" /\ check.for # "action"
  <2>1. \E q : Released(q)
    BY <1>3 DEF Verified
  <2> QED BY <2>1, ReleasedSteady
<1> QED BY <1>1, <1>2, <1>3

LEMMA ChecksSteady ==
    ASSUME Inv, Steady,
           \/ EvidenceRefreshed \/ EvidenceMissing \/ VerifierFails \/ VerifierAnswered \/ DelayedFrame
           \/ NoDelayedFrame \/ VerifiedElsewhere \/ SpeculationAnswered \/ SpeculationFails \/ Joined
    PROVE  Steady'
<1>1. pc = "check"
  BY DEF EvidenceRefreshed, EvidenceMissing, VerifierFails, VerifierAnswered, DelayedFrame,
     NoDelayedFrame, VerifiedElsewhere, SpeculationAnswered, SpeculationFails, Joined
<1>2. CASE \E r, v : Verified(r, v)
  BY <1>1, <1>2, VerifiedSteady
<1>3. CASE /\ pc' = "check" /\ UNCHANGED <<line, slice>> /\ (ctl' = "off" <=> ctl = "off")
           /\ check'.for = check.for
  BY <1>1, <1>3 DEF Steady, Holds
<1>4. CASE EvidenceRefreshed \/ DelayedFrame \/ SpeculationAnswered \/ SpeculationFails
  BY <1>1, <1>3, <1>4, Ready
     DEF EvidenceRefreshed, DelayedFrame, SpeculationAnswered, SpeculationFails, HolderTypeOK
<1>5. CASE VerifierAnswered
  <2>1. ASSUME NEW v, check' = [check EXCEPT !.stage = "delayed", !.verdict = v],
               Goes("check"), UNCHANGED <<slice, ctl>>
        PROVE  Steady'
    BY <1>3, <2>1, Ready DEF Goes, HolderTypeOK
  <2>2. ASSUME NEW v, Verified(Judged(run, v), v)
        PROVE  Steady'
    BY <1>2, <2>2
  <2> QED BY <1>5, <2>1, <2>2, Zenon DEF VerifierAnswered
<1>6. CASE Joined
  <2>1. slice.acts = 0 => Holds("appr")
    BY <1>6 DEF Joined, Steady
  <2>2. CASE Adoptable
    <3>1. pc' = "loop" /\ ctl' = "off" /\ run'.status = "running"
      BY <1>6, <2>2 DEF Joined, Adoptable, Goes
    <3> QED BY <3>1 DEF Steady
  <2>3. CASE ~Adoptable
    BY <1>6, <2>1, <2>3, Ready, AcceptedSteady DEF Joined
  <2> QED BY <2>2, <2>3
<1> QED BY <1>2, <1>4, <1>5, <1>6 DEF EvidenceMissing, VerifierFails, NoDelayedFrame, VerifiedElsewhere

LEMMA ApprovalSteady ==
    ASSUME Inv, Steady, Resolve \/ ResolveFails \/ TakenOver \/ Rejected \/ Quit
    PROVE  Steady'
<1>1. CASE \E r : Released(r)
  BY <1>1, ReleasedSteady
<1>2. CASE Resolve /\ ~\E r : Released(r)
  <2>1. Holds("appr") /\ line' = line /\ ctl' = "off" /\ pc' \in {"approve", "reject", "take_over"}
    BY <1>2 DEF Resolve, Goes, Forgotten
  <2> QED BY <2>1 DEF Steady, Holds
<1>3. CASE Rejected
  BY <1>3, RestedSteady DEF Rejected, Goes, Inv, Placed
<1> QED BY <1>1, <1>2, <1>3 DEF Resolve, ResolveFails, TakenOver, Quit

LEMMA SteadyStep ==
    ASSUME Inv, Steady, [Next]_vars
    PROVE  Steady'
<1>1. CASE Handler
  BY <1>1, RequestsSteady, EntersSteady, LoopSteady, ActsSteady, AcceptsSteady, TidiesSteady,
     ChecksSteady, ApprovalSteady DEF Handler
<1>2. CASE Failure
  BY <1>2, EntersSteady, LoopSteady, ActsSteady, TidiesSteady, ChecksSteady, ApprovalSteady DEF Failure
<1> QED BY <1>1, <1>2, RequestsSteady DEF Next

LEMMA SteadyInit == Init => Steady
BY DEF Init, Steady

-----------------------------------------------------------------------------
(* The theorems.                                                           *)

LEMMA InvAlways == Spec => []Inv
BY InvInit, InvStep, PTL DEF Spec

(* Every variable keeps its shape, whatever is asked, restarted or lost:   *)
(* the action and resume counters never leave their budgets.               *)
THEOREM TypeCorrect == Spec => []TypeOK
<1>1. Inv => TypeOK
  BY DEF Inv
<1> QED BY <1>1, InvAlways, PTL

(* The daemon starts, in the run's session, only the action the durable    *)
(* record holds as pending under the next index.                           *)
THEOREM OnlyPendingStarts == Spec => PendingOnly
<1> DEFINE A == \A k \in Key : Starts(run.session, k) => k = run.pending /\ k.index = run.next
<1>1. Inv /\ [Next]_vars => [A]_vars
  BY StartsPending
<1>2. Spec => [][A]_vars
  BY <1>1, InvInit, InvStep, PTL DEF Spec
<1> QED BY <1>2 DEF PendingOnly

(* Nothing starts any more for a run that is completed, rejected or        *)
(* aborted.                                                                *)
THEOREM SettledStaysQuiet == Spec => SettledQuiet
<1> DEFINE A == \A k \in Key : Starts(run.session, k) => run.status \notin Settled
<1>1. Inv /\ [Next]_vars => [A]_vars
  BY StartsPending
<1>2. Spec => [][A]_vars
  BY <1>1, InvInit, InvStep, PTL DEF Spec
<1> QED BY <1>2 DEF SettledQuiet

(* A run that has ended stays ended, but for a speculative controller still *)
(* under way and an interrupted run.                                       *)
THEOREM SettledStaysFinal == Spec => SettledIsFinal
<1> DEFINE A == run.status \in Settled /\ ~run.gap /\ ctl = "off" => run'.status = run.status
<1>1. Inv /\ [Next]_vars => [A]_vars
  BY SettledKept
<1>2. Spec => [][A]_vars
  BY <1>1, InvInit, InvStep, PTL DEF Spec
<1> QED BY <1>2 DEF SettledIsFinal

(* A run that has seen another machine in answer to its input stays        *)
(* blocked.                                                                *)
THEOREM IdentityStaysBlocked == Spec => []IdentityHolds
<1>1. Inv => IdentityHolds
  BY DEF Inv, Noted, IdentityHolds
<1> QED BY <1>1, InvAlways, PTL

(* Text that was delivered and not read back is not typed again, sent or   *)
(* left by any later action, unless what was known has been given up.      *)
THEOREM InputIsNotBlind == Spec => NoBlindInput
<1> DEFINE A == \A s \in 1 .. MaxSessions, k \in Key :
                   Starts(s, k) /\ ~excused => \A u \in draft : k.act \notin Spoils(u)
<1>1. Inv /\ Sighted /\ [Next]_vars => [A]_vars
  BY StartsSeen
<1>2. Spec => [][A]_vars
  BY <1>1, InvInit, InvStep, SightedInit, SightedStep, PTL DEF Spec
<1> QED BY <1>2 DEF NoBlindInput

(* What is decided, begun and counted follows the ledger, through failures, *)
(* restarts, new sessions and another machine.                             *)
THEOREM LedgerKept == Spec => KeepsLedger
<1>1. Init => Inv /\ Sighted /\ Spent /\ Ledger!Init
  BY InvInit, SightedInit, BookedInit
<1>2. Inv /\ Sighted /\ Spent /\ [Next]_vars => Inv' /\ Sighted' /\ Spent' /\ Ledger!Next
  BY InvStep, SightedStep, BookedStep DEF Booked
<1>3. Spec => Ledger!Init /\ [][Ledger!Next]_(Ledger!vars)
  BY <1>1, <1>2, PTL DEF Spec
<1> QED BY <1>3 DEF KeepsLedger, Ledger!Spec

(* Nothing but an accepted approval lets the loop go on with a record that *)
(* does not say running, and only until its own first action.              *)
THEOREM LoopKeepsRunning == Spec => []LoopRuns
<1>1. Steady => LoopRuns
  BY DEF Steady, LoopRuns
<1>2. Spec => []Steady
  BY InvInit, InvStep, SteadyInit, SteadyStep, PTL DEF Spec
<1> QED BY <1>1, <1>2, PTL

=============================================================================
