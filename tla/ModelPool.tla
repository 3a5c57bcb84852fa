----------------------------- MODULE ModelPool -----------------------------
(***************************************************************************)
(* Calls to model providers: the fallback chain of harness/model_pool.py   *)
(* under the durable budget of harness/model_budget.py.                    *)
(*                                                                         *)
(* The calls of one run may overlap (the verifier and a speculative        *)
(* controller) and share its record. memory is that record's budget,       *)
(* stored the budget in its last save: every attempt is reserved in both   *)
(* before the provider is asked, and settled in both afterwards. A step is *)
(* the code between two awaits.                                            *)
(***************************************************************************)
EXTENDS Naturals, Sequences

CONSTANTS
    Calls,          \* concurrent calls of complete()
    Providers,
    Route,          \* the providers in order of preference
    Ready,          \* those configured and with a credential
    Reservation,    \* what an attempt reserves; 0 for a subscription
    Charges,        \* what a metered answer may turn out to cost
    MaxAttempts,    \* max_provider_attempts
    MaxCost         \* max_cost_microusd

ASSUME PoolConstants ==
    /\ Route \in Seq(Providers) /\ Ready \subseteq Providers
    /\ Reservation \in [Providers -> Nat] /\ Charges \subseteq Nat
    /\ MaxAttempts \in Nat /\ MaxCost \in Nat

VARIABLES
    call,           \* locals of each complete()
    cooling,        \* providers in cooldown
    memory, stored, \* RunModelBudgetState, and its last save
    sent,           \* history: attempts that reached a provider
    spent,          \* history: what they cost, at their reservation until known
    excess          \* history: by how much answers exceeded their reservations

budgetVars == <<memory, stored>>
historyVars == <<sent, spent, excess>>
poolVars == <<call, cooling, budgetVars, historyVars>>

Budget == [attempts : Nat, committed : Nat, outstanding : Nat]
Total(b) == b.committed + b.outstanding

Idle == [pc |-> "idle", at |-> 1, repair |-> FALSE, bypass |-> FALSE]

PoolInit ==
    /\ call = [c \in Calls |-> Idle]
    /\ cooling = {}
    /\ memory = [attempts |-> 0, committed |-> 0, outstanding |-> 0]
    /\ stored = memory
    /\ sent = 0 /\ spent = 0 /\ excess = 0

Provider(c) == Route[call[c].at]
At(c, pc) == call[c].pc = pc
Goes(c, pc) == call' = [call EXCEPT ![c].pc = pc]
Returns(c) == call' = [call EXCEPT ![c] = Idle]
Saved == stored' = memory /\ UNCHANGED memory

-----------------------------------------------------------------------------
(* The route.                                                              *)

Complete(c) ==
    /\ At(c, "idle")
    /\ \E bypass \in BOOLEAN : call' = [call EXCEPT ![c] = [Idle EXCEPT !.pc = "route", !.bypass = bypass]]
    /\ UNCHANGED <<cooling, budgetVars, historyVars>>

\* A provider that is missing, not ready or in cooldown is passed over.
Passed(c) == [call EXCEPT ![c].at = @ + 1, ![c].pc = "route", ![c].repair = FALSE]

\* A mutant: a provider in cooldown is waited for.
SkipWaits(c) ==
    /\ At(c, "route") /\ call[c].at <= Len(Route) /\ ~call[c].repair
    /\ Provider(c) \notin Ready
    /\ call' = Passed(c)
    /\ UNCHANGED <<cooling, budgetVars, historyVars>>

Skip(c) ==
    /\ At(c, "route") /\ call[c].at <= Len(Route) /\ ~call[c].repair
    /\ Provider(c) \notin Ready \/ (Provider(c) \in cooling /\ ~call[c].bypass)
    /\ call' = Passed(c)
    /\ UNCHANGED <<cooling, budgetVars, historyVars>>

Exhausted(c) ==
    /\ At(c, "route") /\ call[c].at > Len(Route)
    /\ Returns(c)
    /\ UNCHANGED <<cooling, budgetVars, historyVars>>

(* authorize, for a first attempt or a repair of its output: refused, or   *)
(* counted and reserved in memory, and then saved.                         *)
MayAsk(c) ==
    /\ At(c, "route") /\ call[c].at <= Len(Route)
    /\ \/ call[c].repair
       \/ Provider(c) \in Ready /\ (Provider(c) \notin cooling \/ call[c].bypass)

\* A mutant: a repair is not authorized.
AffordableAtFirst(c) ==
    \/ call[c].repair
    \/ memory.attempts < MaxAttempts /\ Total(memory) + Reservation[Provider(c)] <= MaxCost

Affordable(c) ==
    /\ memory.attempts < MaxAttempts
    /\ Total(memory) + Reservation[Provider(c)] <= MaxCost

Warmed(c) == cooling' = IF call[c].repair THEN cooling ELSE cooling \ {Provider(c)}

Authorize(c) ==
    /\ MayAsk(c) /\ Affordable(c)
    /\ Warmed(c)
    /\ memory' = [memory EXCEPT !.attempts = @ + 1, !.outstanding = @ + Reservation[Provider(c)]]
    /\ Goes(c, "reserving")
    /\ UNCHANGED <<stored, historyVars>>

Refuse(c) ==
    /\ MayAsk(c) /\ ~Affordable(c)
    /\ Warmed(c)
    /\ Returns(c)
    /\ UNCHANGED <<budgetVars, historyVars>>

(* The reservation is durable, and the provider is asked.                  *)
Reserved(c) ==
    /\ At(c, "reserving")
    /\ Saved
    /\ sent' = sent + 1 /\ spent' = spent + Reservation[Provider(c)]
    /\ Goes(c, "asking")
    /\ UNCHANGED <<cooling, excess>>

-----------------------------------------------------------------------------
(* The answer, and close().                                                *)

Closed(c, actual) ==
    [memory EXCEPT !.outstanding = @ - Reservation[Provider(c)], !.committed = @ + actual]

(* With a usage report the true cost is committed, without one the         *)
(* reservation; a subscription costs nothing.                              *)
Answered(c) ==
    /\ At(c, "asking")
    /\ LET reserved == Reservation[Provider(c)] IN
       \/ \E actual \in IF reserved = 0 THEN {0} ELSE Charges :
             /\ memory' = Closed(c, actual)
             /\ spent' = spent - reserved + actual
             /\ excess' = excess + (IF actual > reserved THEN actual - reserved ELSE 0)
             /\ Goes(c, "settling")
       \/ /\ reserved > 0
          /\ memory' = Closed(c, reserved)
          /\ Goes(c, "unpriced")
          /\ UNCHANGED <<spent, excess>>
    /\ UNCHANGED <<cooling, stored, sent>>

RaisedFree(c) ==
    /\ At(c, "asking")
    /\ memory' = Closed(c, 0)
    /\ Goes(c, "failing")
    /\ UNCHANGED <<cooling, stored, historyVars>>

(* A provider that raises may have charged: its reservation is committed.  *)
Raised(c) ==
    /\ At(c, "asking")
    /\ memory' = Closed(c, Reservation[Provider(c)])
    /\ Goes(c, "failing")
    /\ UNCHANGED <<cooling, stored, historyVars>>

Failed(c) == cooling' = cooling \cup {Provider(c)} /\ call' = Passed(c)

(* Saved: over budget, valid, to be repaired once, or given up.            *)
Settled(c) ==
    /\ At(c, "settling")
    /\ Saved
    /\ \/ Total(memory) > MaxCost /\ Returns(c) /\ UNCHANGED cooling
       \/ /\ Total(memory) <= MaxCost
          /\ \/ Returns(c) /\ cooling' = cooling \ {Provider(c)}
             \/ /\ ~call[c].repair /\ UNCHANGED cooling
                /\ call' = [call EXCEPT ![c].pc = "route", ![c].repair = TRUE]
             \/ call[c].repair /\ Failed(c)
    /\ UNCHANGED historyVars

Unpriced(c) ==
    /\ At(c, "unpriced")
    /\ Saved /\ Returns(c)
    /\ UNCHANGED <<cooling, historyVars>>

GaveUp(c) ==
    /\ At(c, "failing")
    /\ Saved /\ Failed(c)
    /\ UNCHANGED historyVars

(* A save that raises, of a reservation or a settlement, is taken for a    *)
(* failure of the provider.                                                *)
SaveFails(c) ==
    /\ call[c].pc \in {"reserving", "settling", "unpriced", "failing"}
    /\ Failed(c)
    /\ UNCHANGED <<budgetVars, historyVars>>

-----------------------------------------------------------------------------
(* The run's record is saved with every event a call reports.              *)
Reported ==
    /\ \E c \in Calls : ~At(c, "idle")
    /\ Saved
    /\ UNCHANGED <<call, cooling, historyVars>>

CooldownEnds ==
    /\ \E p \in cooling : cooling' = cooling \ {p}
    /\ UNCHANGED <<call, budgetVars, historyVars>>

(* The run's continuation is cancelled, or the process dies: its calls are *)
(* gone, perhaps with a save under way, and the record is loaded again. A  *)
(* new process has a new pool.                                             *)
Interrupted ==
    /\ call' = [c \in Calls |-> Idle]
    /\ \/ stored' = stored
       \/ /\ \E c \in Calls : call[c].pc \in {"reserving", "settling", "unpriced", "failing"}
          /\ stored' = memory
    /\ memory' = stored'
    /\ cooling' \in {cooling, {}}
    /\ UNCHANGED historyVars

Handles(c) ==
    \/ Skip(c) \/ Exhausted(c) \/ Authorize(c) \/ Refuse(c) \/ Reserved(c)
    \/ Answered(c) \/ Raised(c) \/ Settled(c) \/ Unpriced(c) \/ GaveUp(c)

PoolNext ==
    \/ \E c \in Calls : Complete(c) \/ Handles(c) \/ SaveFails(c)
    \/ Reported \/ CooldownEnds \/ Interrupted

PoolSpec == PoolInit /\ [][PoolNext]_poolVars

(* Providers answer or time out, and saves return.                         *)
FairSpec == PoolSpec /\ \A c \in Calls : WF_poolVars(Handles(c))

-----------------------------------------------------------------------------
(* Properties.                                                             *)

(* No provider is asked beyond the run's attempts, repairs and fallbacks   *)
(* included.                                                               *)
AttemptsBounded == sent <= stored.attempts /\ stored.attempts <= MaxAttempts

(* The durable record accounts for everything spent, and so the run never  *)
(* costs more than its cap but for answers that cost more than reserved.   *)
SpendBounded ==
    /\ spent <= Total(stored) + excess
    /\ spent <= MaxCost + excess

(* The durable budget holds: reservations are saved before the provider is *)
(* asked, so overlapping calls, failing saves, cancellations and restarts  *)
(* neither gain an attempt nor hide a cost.                                *)
WithinBudget == AttemptsBounded /\ SpendBounded

(* A call is answered, refused or fails: the chain is finite, and neither  *)
(* cooldowns nor failing providers and saves keep it.                      *)
CallEnds == \A c \in Calls : ~At(c, "idle") ~> At(c, "idle")
=============================================================================
