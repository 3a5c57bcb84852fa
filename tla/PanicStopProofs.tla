-------------------------- MODULE PanicStopProofs --------------------------
(***************************************************************************)
(* What panic_stop promises, for any number of sessions and tasks.         *)
(***************************************************************************)
EXTENDS PanicStop, TLAPS

(* The registry holds exactly the tasks between their registration and     *)
(* their finally clause, and the event tells whether it is empty.          *)
Registry ==
    /\ \A t \in Tasks : t \in active <=> stage[t] \in {"gate", "sending", "exiting"}
    /\ idle <=> active = {}
    /\ \A t \in Tasks : stage[t] # "none" => owner[t] \in Sessions

(* The sessions panic_stop has gone past are latched.                      *)
Latching ==
    /\ panic \in {"latching", "persisting"} => \A s \in scope \ todo : stopped[s]
    /\ panic \in {"releasing", "waiting", "woken", "reported"} => \A s \in scope : stopped[s]

(* Once the event was seen, what had begun is over and stays over.         *)
Quiescence ==
    /\ \A t \in begun : stage[t] \in {"gate", "sending", "exiting", "done"}
    /\ (panic = "woken" /\ quiesced) \/ Confirmed =>
          /\ \A t \in begun : stage[t] = "done"
          /\ \A t \in Tasks : owner[t] \in scope => stage[t] # "sending"

Inv == TypeOK /\ Registry /\ Latching /\ Quiescence

(* A fresh daemon satisfies the invariant.                                 *)
LEMMA InitInv == Init => Inv
  BY PanicConstants DEF Init, Inv, TypeOK, Registry, Latching, Quiescence, Confirmed

(* Every step keeps the shapes.                                            *)
LEMMA StepTypeOK == TypeOK /\ [Next]_vars => TypeOK'
<1> SUFFICES ASSUME TypeOK, [Next]_vars PROVE TypeOK'
  OBVIOUS
<1>1. CASE UNCHANGED vars
  BY <1>1 DEF TypeOK, vars, sessionVars, taskVars, panicVars
<1>2. ASSUME NEW s \in Sessions,
             StartSession(s) \/ AbortSession(s) \/ ContinueSession(s) \/ LoopSend(s)
               \/ LoopSent(s) \/ LoopReturns(s)
      PROVE  TypeOK'
  BY <1>2 DEF TypeOK, StartSession, AbortSession, ContinueSession, LoopSend, LoopSent,
              LoopReturns, sessionVars, taskVars, panicVars
<1>3. ASSUME NEW s \in Sessions, NEW t \in Tasks, EnterBurst(t, s)
      PROVE  TypeOK'
  BY <1>3 DEF TypeOK, EnterBurst, sessionVars, panicVars
<1>4. ASSUME NEW t \in Tasks,
             CreateTask(t) \/ StartTask(t) \/ Gate(t) \/ Sent(t) \/ ExitTask(t)
      PROVE  TypeOK'
  BY <1>4 DEF TypeOK, CreateTask, StartTask, Gate, Sent, ExitTask, sessionVars, panicVars
<1>5. CASE Panic \/ PanicStep \/ Released \/ Report
  BY <1>5 DEF TypeOK, Panic, PanicStep, Latch, Persisted, Release, Released, Wake, Timeout, Report,
              sessionVars, taskVars
<1> QED
  BY <1>1, <1>2, <1>3, <1>4, <1>5 DEF Next

(* Only tasks register and leave, one at a time.                           *)
LEMMA StepRegistry == Inv /\ [Next]_vars => Registry'
<1> SUFFICES ASSUME Inv, [Next]_vars PROVE Registry'
  OBVIOUS
<1> USE DEF Inv, TypeOK, Registry
<1>1. CASE UNCHANGED vars
  BY <1>1 DEF vars, taskVars
<1>2. ASSUME NEW s \in Sessions,
             StartSession(s) \/ AbortSession(s) \/ ContinueSession(s) \/ LoopSend(s)
               \/ LoopSent(s) \/ LoopReturns(s)
      PROVE  Registry'
  BY <1>2 DEF StartSession, AbortSession, ContinueSession, LoopSend, LoopSent, LoopReturns,
              taskVars
<1>3. ASSUME NEW s \in Sessions, NEW t \in Tasks, EnterBurst(t, s)
      PROVE  Registry'
  BY <1>3 DEF EnterBurst
<1>4. ASSUME NEW t \in Tasks, CreateTask(t) \/ Gate(t) \/ Sent(t)
      PROVE  Registry'
  BY <1>4 DEF CreateTask, Gate, Sent
<1>5. ASSUME NEW t \in Tasks, StartTask(t)
      PROVE  Registry'
  BY <1>5 DEF StartTask
<1>6. ASSUME NEW t \in Tasks, ExitTask(t)
      PROVE  Registry'
  BY <1>6 DEF ExitTask
<1>7. CASE Panic \/ PanicStep \/ Released \/ Report
  BY <1>7 DEF Panic, PanicStep, Latch, Persisted, Release, Released, Wake, Timeout, Report, taskVars
<1> QED
  BY <1>1, <1>2, <1>3, <1>4, <1>5, <1>6, <1>7 DEF Next

(* Only panic_stop moves on, and no brake is ever released.                *)
LEMMA StepLatching == Inv /\ [Next]_vars => Latching'
<1> SUFFICES ASSUME Inv, [Next]_vars PROVE Latching'
  OBVIOUS
<1> USE DEF Inv, TypeOK, Latching
<1>1. CASE UNCHANGED vars
  BY <1>1 DEF vars, sessionVars, panicVars
<1>2. ASSUME NEW s \in Sessions,
             StartSession(s) \/ AbortSession(s) \/ ContinueSession(s) \/ LoopSend(s)
               \/ LoopSent(s) \/ LoopReturns(s)
      PROVE  Latching'
  BY <1>2 DEF StartSession, AbortSession, ContinueSession, LoopSend, LoopSent, LoopReturns,
              sessionVars, panicVars
<1>3. ASSUME NEW t \in Tasks,
             \/ \E s \in Sessions : EnterBurst(t, s)
             \/ CreateTask(t) \/ StartTask(t) \/ Gate(t) \/ Sent(t) \/ ExitTask(t)
      PROVE  Latching'
  BY <1>3 DEF EnterBurst, CreateTask, StartTask, Gate, Sent, ExitTask, sessionVars, panicVars
<1>4. CASE Panic \/ Persisted \/ Release \/ Released \/ Wake \/ Timeout \/ Report
  BY <1>4 DEF Panic, Persisted, Release, Released, Wake, Timeout, Report, sessionVars
<1>5. ASSUME NEW s \in Sessions, Latch(s)
      PROVE  Latching'
  BY <1>5 DEF Latch
<1> QED
  BY <1>1, <1>2, <1>3, <1>4, <1>5 DEF Next, PanicStep

(* A latched session's tasks are refused; what had begun is over.          *)
LEMMA StepQuiescence == Inv /\ [Next]_vars => Quiescence'
<1> SUFFICES ASSUME Inv, [Next]_vars PROVE Quiescence'
  OBVIOUS
<1> USE DEF Inv, TypeOK, Quiescence, Confirmed
<1>1. CASE UNCHANGED vars
  BY <1>1 DEF vars, taskVars, panicVars
<1>2. ASSUME NEW s \in Sessions,
             StartSession(s) \/ AbortSession(s) \/ ContinueSession(s) \/ LoopSend(s)
               \/ LoopSent(s) \/ LoopReturns(s)
      PROVE  Quiescence'
  BY <1>2 DEF StartSession, AbortSession, ContinueSession, LoopSend, LoopSent, LoopReturns,
              taskVars, panicVars
<1>3. ASSUME NEW s \in Sessions, NEW t \in Tasks, EnterBurst(t, s)
      PROVE  Quiescence'
  BY <1>3 DEF EnterBurst, panicVars
<1>4. ASSUME NEW t \in Tasks, CreateTask(t) \/ StartTask(t) \/ Sent(t) \/ ExitTask(t)
      PROVE  Quiescence'
  BY <1>4 DEF CreateTask, StartTask, Sent, ExitTask, panicVars
<1>5. ASSUME NEW t \in Tasks, Gate(t)
      PROVE  Quiescence'
  \* A task of a latched session is refused at its poll.
  <2>1. (panic = "woken" /\ quiesced) \/ Confirmed => \A s \in scope : stopped[s]
    BY DEF Latching
  <2> QED
    BY <1>5, <2>1 DEF Gate, panicVars
<1>6. CASE Panic
  BY <1>6 DEF Panic, taskVars, Registry
<1>7. CASE Wake
  \* The event was set, so nothing is registered.
  <2>1. active = {}
    BY <1>7 DEF Wake, Registry
  <2> QED
    BY <1>7, <2>1 DEF Wake, Registry, taskVars
<1>8. CASE Persisted \/ Release \/ Released \/ Timeout \/ Report
  BY <1>8 DEF Persisted, Release, Released, Timeout, Report, taskVars
<1>9. ASSUME NEW s \in Sessions, Latch(s)
      PROVE  Quiescence'
  BY <1>9 DEF Latch, taskVars
<1> QED
  BY <1>1, <1>2, <1>3, <1>4, <1>5, <1>6, <1>7, <1>8, <1>9 DEF Next, PanicStep

(* The registry, the brakes and the wait of panic_stop fit together.       *)
THEOREM Invariance == Spec => []Inv
<1>1. Inv /\ [Next]_vars => Inv'
  BY StepTypeOK, StepRegistry, StepLatching, StepQuiescence DEF Inv
<1> QED
  BY InitInv, <1>1, PTL DEF Spec

(* Every variable of the daemon keeps its shape.                           *)
THEOREM TypeCorrect == Spec => []TypeOK
<1>1. Inv => TypeOK
  BY DEF Inv
<1> QED
  BY Invariance, <1>1, PTL

(* panic_stop answers ok only after every task that had started when it    *)
(* was called has exited.                                                  *)
THEOREM PanicWaitsForStartedWork == Spec => []StartedWorkExited
<1>1. Inv => StartedWorkExited
  BY DEF Inv, Quiescence, StartedWorkExited
<1> QED
  BY Invariance, <1>1, PTL

(* After an ok no burst of a session panic_stop found ever sends input,    *)
(* whatever was queued or half-way through run_burst.                      *)
THEOREM PanicKeepsBurstsQuiet == Spec => []BurstsStayQuiet
<1>1. Inv => BurstsStayQuiet
  BY DEF Inv, Quiescence, BurstsStayQuiet
<1> QED
  BY Invariance, <1>1, PTL
=============================================================================
