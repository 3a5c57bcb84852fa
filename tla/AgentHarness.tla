---------------------------- MODULE AgentHarness ----------------------------
(***************************************************************************)
(* One managed run: the reason-act-verify loop of harness/agent.py under   *)
(* the supervisor of harness/api.py (its lock, continuations, operator     *)
(* controls and restart recovery), against a daemon that keeps the promise *)
(* of BurstLedger: a key executes at most once in its session.             *)
(*                                                                         *)
(* run is the durable record; it changes only where the code saves it. A   *)
(* step is the code between two awaits, so a cancellation or a crash falls *)
(* between steps, and everything but run and the daemon is then gone.      *)
(***************************************************************************)
EXTENDS Naturals, Sequences

CONSTANTS
    Contents,       \* what an action may do, see Kinds
    MaxIndex,       \* max_total_actions
    PerAdvance,     \* max_actions_per_advance
    MaxResumes,     \* max_autonomous_resumes
    MaxNav,         \* max_ungrounded_navigation_replans
    MaxSessions,    \* bound: computer sessions the daemon opens
    MaxDisturbances,\* bound: operator commands and restarts of the process
    Nothing         \* no action

Surfaces == {"field", "terminal", "editor"}
Kinds == Surfaces \cup {"enter", "click", "escape", "ctrlc"}

ASSUME HarnessConstants ==
    /\ Contents \subseteq Kinds
    /\ MaxIndex \in Nat /\ PerAdvance \in Nat \ {0}
    /\ MaxResumes \in Nat /\ MaxNav \in Nat
    /\ MaxSessions \in Nat \ {0} /\ MaxDisturbances \in Nat
    /\ Nothing \notin [index : Nat, act : Contents]

VARIABLES
    run,        \* the durable RunSnapshot
    line,       \* the run lock: its holder, then those who wait
    op,         \* an operator's command is under way
    pc,         \* the await the holder is suspended at
    slice,      \* locals of _advance
    check,      \* locals of _verify, and what the pair in parallel shares
    ctl,        \* the speculative _control
    prefetch,   \* _prefetched_controllers has a decision for the run (chosen when used)
    job,        \* the daemon's executions, by session and key
    stopped,    \* sessions the daemon has aborted
    opened,     \* sessions it has opened
    target,     \* the machine behind the daemon
    disturbed,  \* operator commands and restarts so far
    draft,      \* history: surfaces of text nobody has read back, see NoBlindInput
    excused,    \* history: an action's outcome was given up, or a check skipped
    swapped     \* history: how a changed target was noticed

holderVars == <<pc, slice, check, ctl>>
daemonVars == <<job, stopped, opened, target, draft>>
vars == <<run, line, op, holderVars, prefetch, daemonVars, disturbed, excused, swapped>>

Key == [index : 0 .. MaxIndex, act : Contents]
Outcomes == {"blocked", "replan", "done"}
Decisions == Contents \cup Outcomes

(* What an action leaves unread, what it makes safe again, and what must   *)
(* not follow while a surface holds unread text.                           *)
Types(a) == {a} \cap Surfaces
Clears(a) == CASE a = "ctrlc" -> {"terminal"} [] a = "escape" -> {"field"} [] OTHER -> {}
Spoils(u) ==
    CASE u = "editor" -> Kinds \ {"escape"}
      [] u = "terminal" -> {"terminal", "enter"}
      [] OTHER -> {"field", "editor", "enter", "click"}
\* A mutant: only a submission is held back.
UnsafeSubmitOnly(unread, d) == d = "enter" /\ unread # {}
_unsafe_unverified_input_followup(unread, d) == \E u \in unread : d \in Spoils(u)

Settled == {"completed", "rejected", "aborted"}
TERMINAL_RUN_STATUSES == Settled \cup {"blocked", "failed"}
Statuses == TERMINAL_RUN_STATUSES \cup {"running", "paused", "needs_approval"}

Ended == {"ended", "failed"}
InFlight == {"asked", "held", "granted", "denied", "running"}

NewSlice == [acts |-> 0, why |-> "first"]
NoCheck == [stage |-> "off", for |-> "action", verdict |-> "none", moved |-> FALSE]

(* disagreed, unread, tail, gap and navs are what the code reads off the   *)
(* run's events; the other fields are the record's own.                    *)
RunSnapshot ==
    [status : Statuses, session : 1 .. MaxSessions, plan : BOOLEAN,
     pending : Key \cup {Nothing}, hold : BOOLEAN, next : 0 .. MaxIndex,
     disagreed : BOOLEAN, unread : SUBSET Surfaces,
     tail : {"other", "yield", "identity", "interrupted"}, resumes : 0 .. MaxResumes,
     gap : BOOLEAN, navs : 0 .. MaxNav, machine : {1, 2}]

\* One type invariant: every variable has its shape.
TypeOK ==
    /\ run \in RunSnapshot
    /\ line \in Seq({"cont", "appr", "op"})
    /\ op \in BOOLEAN
    /\ pc \in {"idle", "reopen", "loop", "plan", "control", "send", "burst", "dismiss",
               "renav", "freshen", "check", "replan", "approve", "reject", "take_over", "quit", "abort"}
    /\ slice \in [acts : 0 .. PerAdvance, why : {"first", "nav", "unread", "long"}]
    /\ check \in [stage : {"off", "image", "asking", "delayed", "over"},
                  for : {"action", "done", "answer"}, moved : BOOLEAN,
                  verdict : {"none", "complete", "verified", "uncertain", "failed"}]
    /\ ctl \in {"off", "asking", "ready", "lost"}
    /\ prefetch \in BOOLEAN
    /\ job \in [(1 .. MaxSessions) \X Key -> InFlight \cup Ended \cup {"none", "refused"}]
    /\ stopped \subseteq 1 .. MaxSessions /\ opened \in 1 .. MaxSessions
    /\ target \in {1, 2}
    /\ disturbed \in 0 .. MaxDisturbances
    /\ draft \subseteq Surfaces /\ excused \in BOOLEAN
    /\ swapped \in {"no", "alone", "overlapped"}

(* create has opened the computer and saved the run.                       *)
Init ==
    /\ run = [status |-> "running", session |-> 1, plan |-> FALSE, pending |-> Nothing,
              hold |-> FALSE, next |-> 0, disagreed |-> FALSE, unread |-> {},
              tail |-> "other", resumes |-> 0, gap |-> FALSE, navs |-> 0, machine |-> 1]
    /\ line = <<>> /\ op = FALSE
    /\ pc = "idle" /\ slice = NewSlice /\ check = NoCheck /\ ctl = "off"
    /\ prefetch = FALSE
    /\ job = [j \in (1 .. MaxSessions) \X Key |-> "none"]
    /\ stopped = {} /\ opened = 1 /\ target = 1
    /\ disturbed = 0
    /\ draft = {} /\ excused = FALSE /\ swapped = "no"

Waiting(a) == \E i \in DOMAIN line : line[i] = a
Holds(a) == line # <<>> /\ Head(line) = a
Phase == job[<<run.session, run.pending>>]

(* Forms the saved record takes.                                           *)
Paused(r) == [r EXCEPT !.status = "paused", !.tail = "other"]
Yielded(r) == [r EXCEPT !.status = "paused", !.tail = "yield"]
Blocked(r) == [r EXCEPT !.status = "blocked", !.plan = FALSE, !.tail = "other"]
Unplanned(r) == [r EXCEPT !.plan = FALSE]
Dropped(r) == [r EXCEPT !.pending = Nothing, !.hold = FALSE]
Advanced(r) == [Dropped(r) EXCEPT !.next = r.pending.index + 1]
\* A mutant: the block does not name its reason.
IdentityBlocked(r) == Blocked([r EXCEPT !.machine = target])
IdentityChanged(r) ==
    [r EXCEPT !.status = "blocked", !.plan = FALSE, !.tail = "identity", !.machine = target]

Forgotten == slice' = NewSlice /\ check' = NoCheck /\ ctl' = "off"

(* The holder is still in its slice.                                       *)
Goes(where) == pc' = where /\ UNCHANGED <<line, op>>

\* A mutant: an automatic continuation is not counted.
ReleasedUncounted(r) ==
    LET resumes == r.status = "paused" /\ r.tail = "yield" IN
    /\ run' = r
    /\ line' = IF resumes /\ ~Holds("op") /\ ~Waiting("appr") THEN <<"cont">> ELSE Tail(line)
    /\ pc' = "idle" /\ op' = (op /\ ~Holds("op")) /\ Forgotten

(* The end of a slice, with the supervisor's own record: an internal yield *)
(* is continued automatically while the durable budget lasts, behind       *)
(* whoever waits for the lock.                                             *)
Released(r) ==
    LET resumes == r.status = "paused" /\ r.tail = "yield" IN
    /\ IF Holds("cont") /\ resumes /\ r.resumes < MaxResumes
       THEN run' = [r EXCEPT !.resumes = @ + 1] /\ line' = Append(Tail(line), "cont")
       ELSE /\ run' = IF Holds("cont") /\ resumes THEN Paused(r) ELSE r
            /\ line' = IF Holds("appr") /\ resumes /\ ~Waiting("cont")
                         THEN Append(Tail(line), "cont") ELSE Tail(line)
    /\ pc' = "idle"
    /\ op' = (op /\ ~Holds("op"))
    /\ Forgotten

-----------------------------------------------------------------------------
(* The supervisor: who may hold the run.                                   *)

(* guarded_continue: one registered task at a time; others return at once. *)
ContinueRequested ==
    /\ ~Waiting("cont") /\ ~Waiting("appr")
    /\ line' = Append(line, "cont")
    /\ UNCHANGED <<run, op, holderVars, prefetch, daemonVars, disturbed, excused, swapped>>

(* guarded_managed_approval registers too, but asks nobody.                *)
ApprovalRequested ==
    /\ ~Waiting("appr") /\ run.status = "needs_approval"
    /\ line' = Append(line, "appr")
    /\ UNCHANGED <<run, op, holderVars, prefetch, daemonVars, disturbed, excused, swapped>>

(* Pause, steer and stop first cancel every registered task and wait until *)
(* it has gone; between two awaits there is nothing to cancel.             *)
OperatorCancels ==
    /\ ~op /\ disturbed < MaxDisturbances /\ pc # "loop"
    /\ op' = TRUE
    /\ disturbed' = disturbed + 1
    /\ line' = <<>> /\ pc' = "idle" /\ Forgotten
    /\ UNCHANGED <<run, prefetch, daemonVars, excused, swapped>>

(* Only then do they ask for the lock, behind whoever came meanwhile.      *)
OperatorQueues ==
    /\ op /\ ~Waiting("op")
    /\ line' = Append(line, "op")
    /\ UNCHANGED <<run, op, holderVars, prefetch, daemonVars, disturbed, excused, swapped>>

Pause ==
    /\ Holds("op") /\ pc = "idle"
    /\ Released(IF run.status \in TERMINAL_RUN_STATUSES \cup {"needs_approval"}
                THEN run ELSE Paused(run))
    /\ prefetch' = FALSE
    /\ UNCHANGED <<daemonVars, disturbed, excused, swapped>>

Steer ==
    /\ Holds("op") /\ pc = "idle"
    /\ LET refused ==
               \/ run.status \in (TERMINAL_RUN_STATUSES \ {"blocked"}) \cup {"needs_approval"}
               \/ run.status = "blocked" /\ run.tail = "identity"
               \/ run.pending # Nothing
       IN Released(IF refused THEN run ELSE Paused(Unplanned(run)))
    /\ prefetch' = FALSE
    /\ UNCHANGED <<daemonVars, disturbed, excused, swapped>>

Abort ==
    /\ Holds("op") /\ pc = "idle"
    /\ prefetch' = FALSE
    /\ IF run.status \in TERMINAL_RUN_STATUSES
       THEN Released(run)
       ELSE Goes("abort") /\ Forgotten /\ UNCHANGED run
    /\ UNCHANGED <<daemonVars, disturbed, excused, swapped>>

(* computer.abort latches the daemon's session, or fails and leaves the    *)
(* run as it was, whether or not the daemon has latched.                   *)
AbortConfirmed ==
    /\ pc = "abort"
    /\ stopped' = stopped \cup {run.session}
    /\ Released([Dropped(run) EXCEPT !.status = "aborted", !.tail = "other"])
    /\ excused' = (excused \/ run.pending # Nothing)
    /\ UNCHANGED <<prefetch, job, opened, target, draft, disturbed, swapped>>

\* A mutant: a failed abort is tried again for ever.
AbortRetried ==
    /\ pc = "abort" /\ Goes("idle")
    /\ UNCHANGED <<run, slice, check, ctl, prefetch, daemonVars, disturbed, excused, swapped>>

AbortFails ==
    /\ pc = "abort"
    /\ stopped' \in {stopped, stopped \cup {run.session}}
    /\ Released(run)
    /\ UNCHANGED <<prefetch, job, opened, target, draft, disturbed, excused, swapped>>

\* A mutant: ended runs are marked too.
InterruptedAll(r) ==
    IF r.status # "blocked"
    THEN [r EXCEPT !.status = "paused", !.tail = "interrupted", !.gap = TRUE] ELSE r

(* The process dies and starts again: pause_interrupted_runs marks runs    *)
(* that were, or could have been, in progress.                             *)
Interrupted(r) ==
    IF r.status = "running" \/ (r.status = "paused" /\ r.tail # "interrupted")
    THEN [r EXCEPT !.status = "paused", !.tail = "interrupted", !.gap = TRUE]
    ELSE r

Restart ==
    /\ disturbed < MaxDisturbances /\ pc # "loop"
    /\ disturbed' = disturbed + 1
    /\ run' = Interrupted(run)
    /\ line' = <<>> /\ op' = FALSE /\ pc' = "idle" /\ Forgotten
    /\ prefetch' = FALSE
    /\ UNCHANGED <<daemonVars, excused, swapped>>

-----------------------------------------------------------------------------
(* continue_run, up to _advance.                                           *)

(* get_control, the first await of a continuation and of an approval: only *)
(* the last CONTROL_EVENT_TAIL_LIMIT events come with the run, and what    *)
(* the events before them reported is not known any more.                  *)
Load ==
    /\ Holds("cont") \/ Holds("appr")
    /\ pc = "idle"
    /\ \E unread \in SUBSET run.unread, navs \in 0 .. run.navs, gap \in {run.gap, FALSE} :
          /\ run' = [run EXCEPT !.unread = unread, !.navs = navs, !.gap = gap]
          /\ draft' = draft \ (run.unread \ unread)
    /\ UNCHANGED <<line, op, holderVars, prefetch, job, stopped, opened, target, disturbed,
                   excused, swapped>>

Continue ==
    /\ Holds("cont") /\ pc = "idle"
    /\ prefetch' = FALSE
    /\ \/ /\ run.gap
          /\ Goes("reopen") /\ Forgotten /\ UNCHANGED <<run, excused>>
       \/ /\ ~run.gap
          /\ \/ run.status \in Settled \cup {"needs_approval"}
             \/ run.status = "blocked" /\ run.tail = "identity"
             \/ run.status = "failed" /\ ~run.disagreed
          /\ Released(run) /\ UNCHANGED excused
       \/ /\ ~run.gap
          /\ run.status \in {"running", "paused"}
          /\ run' = [run EXCEPT !.status = "running", !.tail = "other"]
          /\ Goes("loop") /\ Forgotten /\ UNCHANGED excused
       \/ /\ ~run.gap
          /\ \/ run.status = "blocked" /\ run.tail # "identity"
             \/ run.status = "failed" /\ run.disagreed
          /\ run' = [Unplanned(run) EXCEPT !.status = "running", !.tail = "other"]
          /\ excused' = (excused \/ run.status = "failed")
          /\ Goes("loop") /\ Forgotten
    /\ UNCHANGED <<daemonVars, disturbed, swapped>>

(* _reopen_after_process_restart: a new session, and the pending action is *)
(* given up without asking what became of it.                              *)
Reopened ==
    /\ pc = "reopen" /\ opened < MaxSessions
    /\ opened' = opened + 1
    /\ run' = [Dropped(run) EXCEPT !.session = opened', !.disagreed = FALSE, !.gap = FALSE,
                                   !.status = "running", !.tail = "other", !.machine = target]
    /\ excused' = (excused \/ run.pending # Nothing)
    /\ Goes("loop")
    /\ UNCHANGED <<slice, check, ctl, prefetch, job, stopped, target, draft, disturbed, swapped>>

ReopenFails ==
    /\ pc = "reopen"
    /\ Released(Paused(run))
    /\ UNCHANGED <<prefetch, daemonVars, disturbed, excused, swapped>>

-----------------------------------------------------------------------------
(* _advance, planning and control.                                         *)

(* Its two limits: actions in the life of the run, actions in one call.    *)
BudgetReached ==
    /\ pc = "loop"
    /\ \/ slice.acts = PerAdvance /\ Released(Yielded(run))
       \/ /\ slice.acts < PerAdvance /\ run.next = MaxIndex
          /\ Released([run EXCEPT !.status = "blocked", !.tail = "other"])
    /\ UNCHANGED <<prefetch, daemonVars, disturbed, excused, swapped>>

\* A mutant: only the budget of one call is tested.
MayActInSlice == pc = "loop" /\ slice.acts < PerAdvance

MayAct == pc = "loop" /\ slice.acts < PerAdvance /\ run.next < MaxIndex

(* _is_observation_only_request: the latest request asks for no input.     *)
ObserveOnly ==
    /\ MayAct /\ run.pending = Nothing /\ ~run.plan
    /\ run' = [run EXCEPT !.plan = TRUE]
    /\ \E stage \in {"image", "asking"} : check' = [NoCheck EXCEPT !.stage = stage, !.for = "answer"]
    /\ Goes("check")
    /\ UNCHANGED <<slice, ctl, prefetch, daemonVars, disturbed, excused, swapped>>

(* A literal task has its plan and first action without a model.           *)
FastPath ==
    /\ MayAct /\ run.pending = Nothing /\ ~run.plan /\ run.next = 0
    /\ run' = [run EXCEPT !.plan = TRUE]
    /\ prefetch' = TRUE /\ check' = NoCheck
    /\ UNCHANGED <<line, op, pc, slice, ctl, daemonVars, disturbed, excused, swapped>>

AskPlan ==
    /\ MayAct /\ run.pending = Nothing /\ ~run.plan
    /\ Goes("plan")
    /\ UNCHANGED <<run, slice, check, ctl, prefetch, daemonVars, disturbed, excused, swapped>>

PlanAnswered ==
    /\ pc = "plan"
    /\ run' = [run EXCEPT !.plan = TRUE]
    /\ Goes("loop")
    /\ UNCHANGED <<slice, check, ctl, prefetch, daemonVars, disturbed, excused, swapped>>

(* _model_failed and _model_budget_exhausted at any model boundary.        *)
ModelFails ==
    /\ pc \in {"plan", "control"}
    /\ Released(Paused(run))
    /\ UNCHANGED <<prefetch, daemonVars, disturbed, excused, swapped>>

AskControl ==
    /\ MayAct /\ run.pending = Nothing /\ run.plan /\ ~prefetch
    /\ Goes("control")
    /\ UNCHANGED <<run, slice, check, ctl, prefetch, daemonVars, disturbed, excused, swapped>>

(* What becomes of a proposal d after the correction turn why: one turn    *)
(* each for a repeated ungrounded click, for input on an unread surface    *)
(* and for a long terminal draft, in this order and none of them twice.    *)
Corrected(why, d) ==
    LET unsafe == _unsafe_unverified_input_followup(run.unread, d)
        Again(turn) == /\ slice' = [slice EXCEPT !.why = turn] /\ Goes("control")
                       /\ UNCHANGED <<run, check, ctl>>
    IN
    \/ d = "click" /\ run.navs > 0 /\ why = "first" /\ Again("nav")
    \/ d = "click" /\ run.navs > 0 /\ why = "nav" /\ Released(Paused(Unplanned(run)))
    \/ unsafe /\ why \in {"first", "nav"} /\ Again("unread")
    \/ unsafe /\ why = "unread" /\ Released(Blocked(run))
    \/ d = "terminal" /\ ~unsafe /\ why # "long" /\ Again("long")
    \/ d = "terminal" /\ why = "long" /\ Released(Paused(Unplanned(run)))

Proposed(why, d) ==
    \/ d = "blocked" /\ Released([run EXCEPT !.status = "blocked", !.tail = "other"])
    \/ d = "replan" /\ Goes("replan") /\ UNCHANGED <<run, slice, check, ctl>>
    \/ /\ d = "done"
       /\ \E stage \in {"image", "asking"} : check' = [NoCheck EXCEPT !.stage = stage, !.for = "done"]
       /\ Goes("check") /\ UNCHANGED <<run, slice, ctl>>
    \/ /\ d \in Contents
       /\ why = "long" \/ ~_unsafe_unverified_input_followup(run.unread, d)
       /\ \/ Released(Paused(Unplanned(run)))
          \/ d = "click" /\ Released(Blocked(run))
          \/ run' = [run EXCEPT !.pending = [index |-> run.next, act |-> d]]
             /\ slice' = [slice EXCEPT !.why = "first"]
             /\ Goes("loop") /\ UNCHANGED <<check, ctl>>

Considered(why, d) ==
    /\ Corrected(why, d) \/ Proposed(why, d)
    /\ excused' = (excused \/ (why = "long" /\ _unsafe_unverified_input_followup(run.unread, d)))

ControlAnswered ==
    /\ pc = "control"
    /\ \E d \in Decisions : Considered(slice.why, d)
    /\ UNCHANGED <<prefetch, daemonVars, disturbed, swapped>>

(* A prefetched controller takes the place of the model's answer.          *)
Adopt ==
    /\ MayAct /\ run.pending = Nothing /\ run.plan /\ prefetch
    /\ prefetch' = FALSE
    /\ \E d \in Decisions : Considered("first", d)
    /\ UNCHANGED <<daemonVars, disturbed, swapped>>

(* The refresh after a replan; its record hides the request from the       *)
(* supervisor, and its machine is not compared.                            *)
Replanned ==
    /\ pc = "replan"
    /\ \E m \in {run.machine, target} : Released([Paused(Unplanned(run)) EXCEPT !.machine = m])
    /\ UNCHANGED <<prefetch, daemonVars, disturbed, excused, swapped>>

-----------------------------------------------------------------------------
(* _execute_pending and _accept_action_observation.                        *)

Attempt ==
    /\ MayAct /\ run.pending # Nothing
    /\ slice' = [slice EXCEPT !.acts = @ + 1]
    /\ Goes("send")
    /\ UNCHANGED <<run, check, ctl, prefetch, daemonVars, disturbed, excused, swapped>>

(* The burst leaves under the pending key; the daemon knows it already, or *)
(* starts on it.                                                           *)
Send ==
    /\ pc = "send"
    /\ job' = [job EXCEPT ![<<run.session, run.pending>>] =
                   IF @ \in {"none", "refused"} THEN "asked" ELSE @]
    /\ Goes("burst")
    /\ UNCHANGED <<run, slice, check, ctl, prefetch, stopped, opened, target, draft, disturbed,
                   excused, swapped>>

\* A mutant: an action without an answer is given up.
TransportDrops ==
    /\ pc = "burst"
    /\ Released(Paused(Dropped(run)))
    /\ UNCHANGED <<prefetch, daemonVars, disturbed, excused, swapped>>

(* No answer: what the daemon did is unknown, and the action stays pending. *)
TransportFails ==
    /\ pc = "burst"
    /\ Released(Paused(run))
    /\ UNCHANGED <<prefetch, daemonVars, disturbed, excused, swapped>>

\* A mutant: the loop too goes on unless the run has ended.
AfterActionUnlessEnded(r) ==
    IF r.status \notin TERMINAL_RUN_STATUSES \cup {"needs_approval"}
    THEN /\ run' = r /\ Goes("loop")
         /\ slice' = [slice EXCEPT !.why = "first"] /\ check' = NoCheck /\ ctl' = "off"
    ELSE Released(r)

(* After an accepted action the loop goes on if the run is running; the    *)
(* approval path goes on unless it has ended.                              *)
AfterAction(r) ==
    IF IF slice.acts = 0 THEN r.status \notin TERMINAL_RUN_STATUSES \cup {"needs_approval"}
                         ELSE r.status = "running"
    THEN /\ run' = r /\ Goes("loop")
         /\ slice' = [slice EXCEPT !.why = "first"] /\ check' = NoCheck /\ ctl' = "off"
    ELSE Released(r)

Noticed == swapped' = IF swapped # "no" THEN swapped ELSE IF ctl = "off" THEN "alone" ELSE "overlapped"

(* An answer has come from the machine the run knows, or from another one. *)
AnswerRead == job' = [job EXCEPT ![<<run.session, run.pending>>] = "none"]
Answered == \/ pc = "burst" /\ Phase \in Ended \cup {"held", "refused"}
            \/ pc = "approve" /\ Phase \in Ended \cup {"refused"}
SameMachine == target = run.machine

AcceptOther ==
    /\ Answered /\ ~SameMachine
    /\ Released(IdentityChanged(Dropped(run))) /\ Noticed
    /\ UNCHANGED <<prefetch, daemonVars, disturbed, excused>>

AcceptHeld ==
    /\ Answered /\ SameMachine /\ Phase = "held"
    /\ \/ AfterAction([run EXCEPT !.hold = TRUE, !.status = "needs_approval", !.tail = "other"])
       \/ run.pending.act = "click" /\ Goes("dismiss") /\ UNCHANGED <<run, slice, check, ctl>>
    /\ UNCHANGED <<prefetch, daemonVars, disturbed, excused, swapped>>

AcceptRefused ==
    /\ Answered /\ SameMachine /\ Phase = "refused"
    /\ Goes("freshen")
    /\ UNCHANGED <<run, slice, check, ctl, prefetch, daemonVars, disturbed, excused, swapped>>

(* Delivered, or part of it, and not read back (unverified, or a failure   *)
(* that can be recovered from): the step counts as done. The text is known *)
(* to be unread if its receipt attests a part that was issued; there is    *)
(* no such receipt of secret text, nor of text that was not issued.        *)
AcceptUnread ==
    /\ Answered /\ SameMachine /\ Phase = "ended" /\ AnswerRead
    /\ \E plan \in {FALSE, run.plan}, attested \in {{}, Types(run.pending.act)} :
          /\ AfterAction([Paused(Advanced(run)) EXCEPT
                             !.plan = plan, !.unread = @ \cup attested])
          /\ draft' = draft \ (Types(run.pending.act) \ (run.unread \cup attested))
    /\ UNCHANGED <<prefetch, stopped, opened, target, disturbed, excused, swapped>>

AcceptFailed ==
    /\ Answered /\ SameMachine /\ Phase = "failed"
    /\ AfterAction([Dropped(run) EXCEPT !.status = "failed", !.tail = "other"])
    /\ UNCHANGED <<prefetch, daemonVars, disturbed, excused, swapped>>

(* Completed: verified by its own read-back, by the verifier, or by the    *)
(* verifier while the next decision is already asked for.                  *)
AcceptCompleted ==
    /\ Answered /\ SameMachine /\ Phase = "ended" /\ AnswerRead
    /\ draft' = draft \ (Types(run.pending.act) \cup Clears(run.pending.act))
    /\ LET r == [Advanced(run) EXCEPT !.status = "running", !.tail = "other",
                                      !.unread = @ \ Clears(run.pending.act)]
       IN
       \/ /\ AfterAction([r EXCEPT !.disagreed = FALSE])
          /\ prefetch' \in BOOLEAN
       \/ /\ run' = r /\ Goes("check")
          /\ \E stage \in {"image", "asking"} : check' = [NoCheck EXCEPT !.stage = stage]
          /\ \/ ctl' = "off"
             \/ pc = "burst" /\ slice.acts < PerAdvance /\ ctl' \in {"asking", "ready"}
          /\ UNCHANGED <<slice, prefetch>>
    /\ UNCHANGED <<stopped, opened, target, disturbed, excused, swapped>>

(* An ungrounded click: the hold is rejected at the daemon and the click   *)
(* tried again in a new session, a bounded number of times.                *)
Dismissed ==
    /\ pc = "dismiss"
    /\ job' = [job EXCEPT ![<<run.session, run.pending>>] = "none"]
    /\ IF run.navs = MaxNav
       THEN AfterAction(Blocked(Dropped(run)))
       ELSE Goes("renav") /\ UNCHANGED <<run, slice, check, ctl>>
    /\ UNCHANGED <<prefetch, stopped, opened, target, draft, disturbed, excused, swapped>>

DismissFails ==
    /\ pc = "dismiss"
    /\ job' \in {job, [job EXCEPT ![<<run.session, run.pending>>] = "refused"]}
    /\ AfterAction([run EXCEPT !.hold = TRUE, !.status = "needs_approval", !.tail = "other"])
    /\ UNCHANGED <<prefetch, stopped, opened, target, draft, disturbed, excused, swapped>>

Renavigated ==
    /\ pc = "renav" /\ opened < MaxSessions
    /\ opened' = opened + 1
    /\ IF SameMachine
       THEN /\ AfterAction([Yielded(Dropped(run)) EXCEPT !.session = opened', !.navs = @ + 1])
            /\ UNCHANGED swapped
       ELSE Released(IdentityChanged(Dropped(run))) /\ Noticed
    /\ UNCHANGED <<prefetch, job, stopped, target, draft, disturbed, excused>>

RenavigateFails ==
    /\ pc = "renav"
    /\ AfterAction(Paused(Dropped(run)))
    /\ UNCHANGED <<prefetch, daemonVars, disturbed, excused, swapped>>

(* A refused action is dropped and the world looked at again; a stale      *)
(* frame keeps the plan and yields, a change of control does neither.      *)
Freshened ==
    /\ pc = "freshen" /\ SameMachine /\ AnswerRead
    /\ \/ AfterAction(Yielded(Dropped(run)))
       \/ AfterAction(Paused(Unplanned(Dropped(run))))
    /\ UNCHANGED <<prefetch, stopped, opened, target, draft, disturbed, excused, swapped>>

FreshenedElsewhere ==
    /\ pc = "freshen" /\ ~SameMachine
    /\ \E plan \in {run.plan, FALSE} :
          Released([IdentityChanged(run) EXCEPT !.hold = FALSE, !.plan = plan, !.machine = run.machine])
    /\ Noticed
    /\ UNCHANGED <<prefetch, daemonVars, disturbed, excused>>

FreshenFails ==
    /\ pc = "freshen" /\ AnswerRead
    /\ \E plan \in {run.plan, FALSE} :
          AfterAction([Paused(Dropped(run)) EXCEPT !.plan = plan])
    /\ UNCHANGED <<prefetch, stopped, opened, target, draft, disturbed, excused, swapped>>

-----------------------------------------------------------------------------
(* _verify, alone or beside a speculative _control.                        *)

Judged(r, v) ==
    CASE v = "complete" -> [r EXCEPT !.status = "completed", !.tail = "other", !.disagreed = FALSE]
      [] v = "verified" -> [r EXCEPT !.status = "running", !.tail = "other", !.disagreed = FALSE]
      [] v = "uncertain" -> [Paused(Unplanned(r)) EXCEPT !.disagreed = FALSE]
      [] OTHER -> [Yielded(r) EXCEPT !.disagreed = TRUE]

(* What follows a verification depends on who asked for it.                *)
Verified(r, v) ==
    CASE ctl # "off" ->
            /\ run' = r /\ check' = [check EXCEPT !.stage = "over", !.verdict = v]
            /\ Goes("check") /\ UNCHANGED <<slice, ctl>>
      [] check.for = "action" /\ ctl = "off" -> AfterAction(r)
      [] check.for = "done" /\ ctl = "off" ->
            Released(IF r.status = "running" THEN Yielded(Unplanned(r)) ELSE r)
      [] OTHER -> Released(IF r.status = "running" THEN Paused(r) ELSE r)

(* The burst brought no image: one is fetched first.                       *)
EvidenceRefreshed ==
    /\ pc = "check" /\ check.stage = "image" /\ SameMachine
    /\ check' = [check EXCEPT !.stage = "asking"]
    /\ UNCHANGED <<run, line, op, pc, slice, ctl, prefetch, daemonVars, disturbed,
                   excused, swapped>>

EvidenceMissing ==
    /\ pc = "check" /\ check.stage = "image"
    /\ Verified(Paused(run), "none")
    /\ UNCHANGED <<prefetch, daemonVars, disturbed, excused, swapped>>

VerifierFails ==
    /\ pc = "check" /\ check.stage = "asking"
    /\ Verified(Paused(run), "none")
    /\ UNCHANGED <<prefetch, daemonVars, disturbed, excused, swapped>>

(* A verdict against an action is asked for once more, if the screen has   *)
(* changed by a later look.                                                *)
VerifierAnswered ==
    /\ pc = "check" /\ check.stage = "asking"
    /\ \/ \E v \in {"complete", "verified", "uncertain", "failed"} : Verified(Judged(run, v), v)
       \/ /\ check.for = "action" /\ ~check.moved
          /\ \E v \in {"uncertain", "failed"} :
                check' = [check EXCEPT !.stage = "delayed", !.verdict = v]
          /\ Goes("check") /\ UNCHANGED <<run, slice, ctl>>
    /\ UNCHANGED <<prefetch, daemonVars, disturbed, excused, swapped>>

DelayedFrame ==
    /\ pc = "check" /\ check.stage = "delayed" /\ SameMachine
    /\ run' = [run EXCEPT !.disagreed = (check.verdict = "failed")]
    /\ check' = [check EXCEPT !.stage = "asking", !.moved = TRUE]
    /\ UNCHANGED <<line, op, pc, slice, ctl, prefetch, daemonVars, disturbed, excused, swapped>>

NoDelayedFrame ==
    /\ pc = "check" /\ check.stage = "delayed"
    /\ Verified(Judged(run, check.verdict), check.verdict)
    /\ UNCHANGED <<prefetch, daemonVars, disturbed, excused, swapped>>

(* Either look may find another machine.                                   *)
VerifiedElsewhere ==
    /\ pc = "check" /\ check.stage \in {"image", "delayed"} /\ ~SameMachine
    /\ Verified(IdentityChanged(run), check.verdict) /\ Noticed
    /\ UNCHANGED <<prefetch, daemonVars, disturbed, excused>>

SpeculationAnswered ==
    /\ pc = "check" /\ ctl = "asking"
    /\ ctl' = "ready"
    /\ UNCHANGED <<run, line, op, pc, slice, check, prefetch, daemonVars, disturbed,
                   excused, swapped>>

SpeculationFails ==
    /\ pc = "check" /\ ctl = "asking"
    /\ ctl' = "lost" /\ run' = [run EXCEPT !.status = "paused"]
    /\ UNCHANGED <<line, op, pc, slice, check, prefetch, daemonVars, disturbed,
                   excused, swapped>>

(* Both have ended. The decision is kept if the action was verified on the *)
(* frame the decision was asked about; otherwise the record says so, and   *)
(* stands where an identity change or a failed verdict stood.              *)
Adoptable ==
    /\ run.status = "running" /\ ctl = "ready" /\ check.verdict = "verified"
    /\ ~check.moved

Joined ==
    /\ pc = "check" /\ check.stage = "over" /\ ctl \notin {"off", "asking"}
    /\ IF Adoptable
       THEN prefetch' \in BOOLEAN /\ Goes("loop") /\ UNCHANGED <<run, check>>
            /\ slice' = [slice EXCEPT !.why = "first"] /\ ctl' = "off"
       ELSE /\ \E tail \in {"other"} \cup ({run.tail} \cap {"yield"}) :
                  AfterAction([run EXCEPT !.tail = tail])
            /\ UNCHANGED prefetch
    /\ UNCHANGED <<daemonVars, disturbed, excused, swapped>>

-----------------------------------------------------------------------------
(* resolve_approval.                                                       *)

Resolve ==
    /\ Holds("appr") /\ pc = "idle"
    /\ prefetch' = FALSE
    /\ IF run.status # "needs_approval" \/ ~run.hold
       THEN Released(run) /\ UNCHANGED job
       ELSE \E decision \in {"approve", "reject", "take_over"} :
            /\ job' = [job EXCEPT ![<<run.session, run.pending>>] =
                           IF @ # "held" THEN @ ELSE IF decision = "approve" THEN "granted" ELSE "denied"]
            /\ Goes(decision) /\ Forgotten /\ UNCHANGED run
    /\ UNCHANGED <<stopped, opened, target, draft, disturbed, excused, swapped>>

(* The daemon's answer to an approval is accepted as that of a burst is.   *)
(* A failure leaves the run as it was, or paused with its hold if the      *)
(* approval ran in the background.                                         *)
ResolveFails ==
    /\ pc \in {"approve", "reject", "take_over"}
    /\ \E r \in {run, Paused(run)} : Released(r)
    /\ UNCHANGED <<prefetch, daemonVars, disturbed, excused, swapped>>

TakenOver ==
    /\ pc = "take_over" /\ Phase \in Ended \cup {"refused"}
    /\ Released([Dropped(run) EXCEPT !.status = "aborted", !.tail = "other"])
    /\ UNCHANGED <<prefetch, daemonVars, disturbed, excused, swapped>>

(* A rejection also aborts the session; the run is saved only after that.  *)
Rejected ==
    /\ pc = "reject" /\ Phase \in Ended \cup {"refused"}
    /\ Goes("quit")
    /\ UNCHANGED <<run, slice, check, ctl, prefetch, daemonVars, disturbed, excused, swapped>>

Quit ==
    /\ pc = "quit"
    /\ stopped' \in {stopped, stopped \cup {run.session}}
    /\ Released([Dropped(run) EXCEPT !.status = "rejected", !.tail = "other"])
    /\ UNCHANGED <<prefetch, job, opened, target, draft, disturbed, excused, swapped>>

-----------------------------------------------------------------------------
(* The daemon: BurstRuntime seen by its client, and the world behind it.   *)

Becomes(s, k, phase) == job' = [job EXCEPT ![<<s, k>>] = phase]
External == UNCHANGED <<run, line, op, holderVars, prefetch, stopped, opened, target,
                        disturbed, excused, swapped>>

Executes(s, k) ==
    /\ job[<<s, k>>] \in {"asked", "granted"} /\ s \notin stopped
    /\ Becomes(s, k, "running")
    /\ draft' = IF excused THEN {} ELSE draft \cup Types(k.act)
    /\ External

Declines(s, k) ==
    /\ \/ /\ job[<<s, k>>] \in {"asked", "granted", "denied"}
          /\ Becomes(s, k, "refused")
       \/ job[<<s, k>>] = "held" /\ s \in stopped /\ Becomes(s, k, "refused")
       \/ job[<<s, k>>] = "asked" /\ s \notin stopped /\ Becomes(s, k, "held")
    /\ UNCHANGED draft /\ External

EndsExecution(s, k) ==
    /\ job[<<s, k>>] = "running"
    /\ \E phase \in Ended : Becomes(s, k, phase)
    /\ UNCHANGED draft /\ External

DaemonStep == \E s \in 1 .. MaxSessions, k \in Key : Executes(s, k) \/ Declines(s, k) \/ EndsExecution(s, k)

TargetChanges ==
    /\ target = 1 /\ target' = 2
    /\ UNCHANGED <<run, line, op, holderVars, prefetch, job, stopped, opened, draft, disturbed,
                   excused, swapped>>

-----------------------------------------------------------------------------
Requests == ContinueRequested \/ ApprovalRequested \/ OperatorCancels

(* The code's own steps: they are taken whenever their await is over.      *)
Handler ==
    \/ OperatorQueues \/ Pause \/ Steer \/ Abort \/ AbortConfirmed
    \/ Continue \/ Reopened
    \/ BudgetReached \/ ObserveOnly \/ FastPath \/ AskPlan \/ PlanAnswered
    \/ AskControl \/ ControlAnswered \/ Adopt \/ Replanned
    \/ Attempt \/ Send
    \/ AcceptOther \/ AcceptHeld \/ AcceptRefused \/ AcceptUnread \/ AcceptFailed \/ AcceptCompleted
    \/ Dismissed \/ Renavigated \/ Freshened \/ FreshenedElsewhere
    \/ EvidenceRefreshed \/ VerifierAnswered \/ DelayedFrame \/ NoDelayedFrame \/ VerifiedElsewhere
    \/ SpeculationAnswered \/ Joined
    \/ Resolve \/ TakenOver \/ Rejected \/ Quit

(* Calls that raise instead of answering.                                  *)
Failure ==
    \/ AbortFails \/ ReopenFails \/ ModelFails \/ TransportFails \/ DismissFails \/ RenavigateFails
    \/ FreshenFails \/ EvidenceMissing \/ VerifierFails \/ SpeculationFails \/ ResolveFails

Next == Requests \/ Load \/ Handler \/ Failure \/ DaemonStep \/ Restart \/ TargetChanges

Spec == Init /\ [][Next]_vars
FairSpec == Spec /\ WF_vars(OperatorQueues) /\ WF_vars(Handler \/ ReopenFails \/ RenavigateFails) /\ WF_vars(DaemonStep)

-----------------------------------------------------------------------------
(* Properties.                                                             *)

Starts(s, k) == job[<<s, k>>] # "running" /\ job'[<<s, k>>] = "running"

(* In the run's session the daemon starts only the action that the durable *)
(* record holds as pending, under the next index: the record is written    *)
(* before the input and outlives it, so no index is sent again after a     *)
(* lost answer, a restart, or a cancelled continuation.                    *)
PendingOnly ==
    [][\A k \in Key : Starts(run.session, k) => k = run.pending /\ k.index = run.next]_vars

(* Nothing starts any more for a run that is completed, rejected or        *)
(* aborted, though its bursts may have been queued, held or approved when  *)
(* it ended.                                                               *)
SettledQuiet == [][\A k \in Key : Starts(run.session, k) => run.status \notin Settled]_vars

(* Text that was delivered and not read back is not typed again, sent or   *)
(* left, by any later slice. Excepted is text that no receipt attests or   *)
(* whose report has left the event tail that slices load (draft loses it   *)
(* there), and, as excused, everything after an outcome that a restart or  *)
(* a stop gave up, a resumed failure, or a check that was not asked again. *)
NoBlindInput ==
    [][\A s \in 1 .. MaxSessions, k \in Key :
          Starts(s, k) /\ ~excused => \A u \in draft : k.act \notin Spoils(u)]_vars

(* A run that has ended stays ended. Excepted are a speculative controller *)
(* that is still unanswered, which may pause a completed run, and a run    *)
(* that was interrupted, which a continuation reopens whatever its status. *)
SettledIsFinal ==
    [][run.status \in Settled /\ ~run.gap /\ ctl = "off" => run'.status = run.status]_vars

(* A run that has seen another machine in answer to its input stays        *)
(* blocked, whatever the operator, a restart or a continuation does then.  *)
IdentityHolds == swapped = "alone" => run.status = "blocked"

(* An operator's pause, steer or stop gets through: nothing that queues    *)
(* for the run, and no failing call, keeps it waiting for ever.            *)
StopAnswered == op ~> ~op

(* Automatic continuation comes to rest: the durable resume budget bounds  *)
(* it, whatever the models and the machine answer.                         *)
ContinuationEnds == Waiting("cont") ~> ~Waiting("cont")

(* What the run promises about its input, as a ledger of its actions: each *)
(* is decided in its turn, begins only while it is pending, once, and      *)
(* beside nothing whose outcome is open, is counted only if it has begun,  *)
(* and none is begun for a run that has ended.                             *)
Ledger ==
    INSTANCE ActionLedger WITH
        Acts <- Contents, None <- Nothing, cursor <- run.next, pending <- run.pending,
        begun <- {k \in Key : job[<<run.session, k>>] \in {"running"} \cup Ended},
        forgiven <- excused, closed <- run.status \in Settled

KeepsLedger == Ledger!Spec

(* The loop goes on with a record that does not say running only under an  *)
(* approval whose action has been accepted, and before any of its own.     *)
LoopRuns == pc = "loop" /\ run.status # "running" => Holds("appr") /\ slice.acts = 0

=============================================================================
