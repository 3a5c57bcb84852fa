----------------------------- MODULE PanicStop -----------------------------
(***************************************************************************)
(* The daemon's emergency brake, Runtime.panic_stop, over several sessions *)
(* with their execution tasks (run_burst's execute_once, abstracted to its *)
(* registration, its gate polls and its HID calls) and operator loops.     *)
(* Only execution tasks are registered in _active_hid_tasks.               *)
(***************************************************************************)
EXTENDS Naturals

CONSTANTS
    Sessions,   \* session ids the daemon may come to know
    Tasks,      \* execution tasks
    Nobody      \* owner of a task that does not exist yet

ASSUME PanicConstants == Nobody \notin Sessions

VARIABLES
    known,      \* keys of Runtime._sessions
    stopped,    \* the sticky brake of each session (its epoch moves with it)
    halted,     \* sessions whose status panic or an end made terminal
    owner,      \* the session of each task
    stage,      \* where each task is
    active,     \* _active_hid_tasks
    idle,       \* _hid_idle is set
    loop,       \* the operator loop of each session
    panic,      \* where panic_stop is
    todo,       \* sessions panic_stop has still to latch
    scope,      \* sessions it found when it was called
    begun,      \* tasks that were active when it was called
    quiesced,   \* the wait for _hid_idle succeeded
    ok          \* the answer

sessionVars == <<known, stopped, halted>>
taskVars == <<owner, stage, active, idle>>
panicVars == <<panic, todo, scope, begun, quiesced, ok>>
vars == <<sessionVars, taskVars, loop, panicVars>>

\* One type invariant: every variable has its shape.
TypeOK ==
    /\ known \subseteq Sessions /\ halted \subseteq Sessions
    /\ stopped \in [Sessions -> BOOLEAN]
    /\ owner \in [Tasks -> Sessions \cup {Nobody}]
    /\ stage \in [Tasks -> {"none", "entered", "created", "gate", "sending", "exiting", "done"}]
    /\ active \subseteq Tasks /\ idle \in BOOLEAN
    /\ loop \in [Sessions -> {"idle", "running", "sending"}]
    /\ panic \in {"idle", "latching", "persisting", "releasing", "waiting", "woken", "reported"}
    /\ todo \subseteq Sessions /\ scope \subseteq Sessions /\ begun \subseteq Tasks
    /\ quiesced \in BOOLEAN /\ ok \in BOOLEAN

Init ==
    /\ known = {} /\ halted = {}
    /\ stopped = [s \in Sessions |-> FALSE]
    /\ owner = [t \in Tasks |-> Nobody]
    /\ stage = [t \in Tasks |-> "none"]
    /\ active = {} /\ idle = TRUE
    /\ loop = [s \in Sessions |-> "idle"]
    /\ panic = "idle" /\ todo = {} /\ scope = {} /\ begun = {}
    /\ quiesced = FALSE /\ ok = FALSE

-----------------------------------------------------------------------------
(* Sessions, and requests that become execution tasks.                     *)

StartSession(s) ==
    /\ s \notin known
    /\ known' = known \cup {s}
    /\ UNCHANGED <<stopped, halted, taskVars, loop, panicVars>>

AbortSession(s) ==
    /\ s \in known
    /\ stopped' = [stopped EXCEPT ![s] = TRUE]
    /\ halted' = halted \cup {s}
    /\ UNCHANGED <<known, taskVars, loop, panicVars>>

(* run_burst reads the brake on entry, then awaits capture and grounding.  *)
EnterBurst(t, s) ==
    /\ stage[t] = "none" /\ s \in known /\ ~stopped[s]
    /\ owner' = [owner EXCEPT ![t] = s]
    /\ stage' = [stage EXCEPT ![t] = "entered"]
    /\ UNCHANGED <<sessionVars, active, idle, loop, panicVars>>

(* create_task schedules execute_once; it has not run yet.                 *)
CreateTask(t) ==
    /\ stage[t] = "entered"
    /\ stage' = [stage EXCEPT ![t] = "created"]
    /\ UNCHANGED <<sessionVars, owner, active, idle, loop, panicVars>>

(* execute_once registers itself.                                          *)
StartTask(t) ==
    /\ stage[t] = "created"
    /\ stage' = [stage EXCEPT ![t] = "gate"]
    /\ active' = active \cup {t} /\ idle' = FALSE
    /\ UNCHANGED <<sessionVars, owner, loop, panicVars>>

\* A mutant: the gate reads no brake.
GateIgnoresBrake(t) ==
    /\ stage[t] = "gate"
    /\ stage' = [stage EXCEPT ![t] = "sending"]
    /\ UNCHANGED <<sessionVars, owner, active, idle, loop, panicVars>>

(* The poll before an action: a refused burst releases all keys first.     *)
Gate(t) ==
    /\ stage[t] = "gate"
    /\ stage' = [stage EXCEPT ![t] = IF stopped[owner[t]] THEN "exiting" ELSE "sending"]
    /\ UNCHANGED <<sessionVars, owner, active, idle, loop, panicVars>>

(* A HID call returns; more actions follow or the burst is over.           *)
Sent(t) ==
    /\ stage[t] = "sending"
    /\ \E next \in {"gate", "exiting"} : stage' = [stage EXCEPT ![t] = next]
    /\ UNCHANGED <<sessionVars, owner, active, idle, loop, panicVars>>

(* The finally clause: the last task out sets the event.                   *)
ExitTask(t) ==
    /\ stage[t] = "exiting"
    /\ stage' = [stage EXCEPT ![t] = "done"]
    /\ active' = active \ {t}
    /\ idle' = (active' = {})
    /\ UNCHANGED <<sessionVars, owner, loop, panicVars>>

-----------------------------------------------------------------------------
(* The operator loop of a session: the executor's gate, then a HID call    *)
(* that nothing registers.                                                 *)

ContinueSession(s) ==
    /\ s \in known /\ ~stopped[s] /\ loop[s] = "idle"
    /\ loop' = [loop EXCEPT ![s] = "running"]
    /\ UNCHANGED <<sessionVars, taskVars, panicVars>>

LoopSend(s) ==
    /\ loop[s] = "running" /\ ~stopped[s]
    /\ loop' = [loop EXCEPT ![s] = "sending"]
    /\ UNCHANGED <<sessionVars, taskVars, panicVars>>

LoopSent(s) ==
    /\ loop[s] = "sending"
    /\ loop' = [loop EXCEPT ![s] = "running"]
    /\ UNCHANGED <<sessionVars, taskVars, panicVars>>

(* The call ends; its status is terminal if the session was stopped.       *)
LoopReturns(s) ==
    /\ loop[s] = "running"
    /\ loop' = [loop EXCEPT ![s] = "idle"]
    /\ halted' \in {halted \cup {s}, IF stopped[s] THEN halted \cup {s} ELSE halted}
    /\ UNCHANGED <<known, stopped, taskVars, panicVars>>

-----------------------------------------------------------------------------
(* panic_stop.                                                             *)

Panic ==
    /\ panic \in {"idle", "reported"}
    /\ panic' = "latching"
    /\ todo' = known /\ scope' = known /\ begun' = active
    /\ quiesced' = FALSE /\ ok' = FALSE
    /\ UNCHANGED <<sessionVars, taskVars, loop>>

(* One turn of its loop; persisting a session's new status is an await.    *)
Latch(s) ==
    /\ panic = "latching" /\ s \in todo
    /\ todo' = todo \ {s}
    /\ stopped' = [stopped EXCEPT ![s] = TRUE]
    /\ halted' = halted \cup {s}
    /\ panic' = IF s \in halted THEN panic ELSE "persisting"
    /\ UNCHANGED <<known, taskVars, loop, scope, begun, quiesced, ok>>

Persisted ==
    /\ panic = "persisting"
    /\ panic' = "latching"
    /\ UNCHANGED <<sessionVars, taskVars, loop, todo, scope, begun, quiesced, ok>>

(* All latched: it awaits the first release_all, eleven HID sends without  *)
(* a timeout.                                                              *)
Release ==
    /\ panic = "latching" /\ todo = {}
    /\ panic' = "releasing"
    /\ UNCHANGED <<sessionVars, taskVars, loop, todo, scope, begun, quiesced, ok>>

(* release_all returned or raised, which it may never do; the bounded wait *)
(* for _hid_idle begins.                                                   *)
Released ==
    /\ panic = "releasing"
    /\ panic' = "waiting"
    /\ UNCHANGED <<sessionVars, taskVars, loop, todo, scope, begun, quiesced, ok>>

(* The wait ends on the event or at its deadline; the second release_all   *)
(* begins in the same step.                                                *)
Wake ==
    /\ panic = "waiting" /\ idle
    /\ panic' = "woken" /\ quiesced' = TRUE
    /\ UNCHANGED <<sessionVars, taskVars, loop, todo, scope, begun, ok>>

\* A mutant: the wait has no timeout.
TimeoutNever == FALSE /\ UNCHANGED vars

\* A mutant: the timeout leaves the wait without an answer.
TimeoutRaises ==
    /\ panic = "waiting" /\ ~idle
    /\ panic' = "raised" /\ quiesced' = FALSE
    /\ UNCHANGED <<sessionVars, taskVars, loop, todo, scope, begun, ok>>

Timeout ==
    /\ panic = "waiting" /\ ~idle
    /\ panic' = "woken" /\ quiesced' = FALSE
    /\ UNCHANGED <<sessionVars, taskVars, loop, todo, scope, begun, ok>>

\* A mutant: what is still registered does not count.
ReportLatched ==
    /\ panic = "woken"
    /\ panic' = "reported" /\ ok' = TRUE
    /\ UNCHANGED <<sessionVars, taskVars, loop, todo, scope, begun, quiesced>>

(* The second release_all returned or raised, which it may never do: what  *)
(* is still in flight is counted.                                          *)
Report ==
    /\ panic = "woken"
    /\ panic' = "reported"
    /\ ok' = (quiesced /\ active = {})
    /\ UNCHANGED <<sessionVars, taskVars, loop, todo, scope, begun, quiesced>>

(* What panic_stop does whenever it is scheduled: its own turns, the       *)
(* store's answer and its deadline. The two releases are not among them.   *)
PanicStep ==
    \/ \E s \in Sessions : Latch(s)
    \/ Persisted \/ Release \/ Wake \/ Timeout

Next ==
    \/ \E s \in Sessions :
          \/ StartSession(s) \/ AbortSession(s)
          \/ ContinueSession(s) \/ LoopSend(s) \/ LoopSent(s) \/ LoopReturns(s)
          \/ \E t \in Tasks : EnterBurst(t, s)
    \/ \E t \in Tasks :
          CreateTask(t) \/ StartTask(t) \/ Gate(t) \/ Sent(t) \/ ExitTask(t)
    \/ Panic \/ PanicStep \/ Released \/ Report

Spec == Init /\ [][Next]_vars

(* panic_stop is scheduled; any HID call may hang for ever, those of its   *)
(* own releases too.                                                       *)
FairSpec == Spec /\ WF_vars(PanicStep)

-----------------------------------------------------------------------------
(* Properties.                                                             *)

Confirmed == panic = "reported" /\ ok

(* When panic_stop answers ok, every task that had started has exited.     *)
StartedWorkExited == Confirmed => \A t \in begun : stage[t] = "done"

(* From then on no burst of a session it found emits input: not one that   *)
(* was queued, nor one whose request had passed the entry check.           *)
BurstsStayQuiet ==
    Confirmed => \A t \in Tasks : owner[t] \in scope => stage[t] # "sending"

(* panic_stop answers, whatever the tasks it waits for do and wherever     *)
(* they hang, unless one of its own release_all calls never returns.       *)
PanicAnswers ==
    panic = "latching" ~>
        \/ panic = "reported"
        \/ [](panic = "releasing")
        \/ [](panic = "woken")
=============================================================================
