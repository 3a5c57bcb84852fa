----------------------------- MODULE FrameStore -----------------------------
(***************************************************************************)
(* The world version of a session (store/frames.py) and the test every     *)
(* guarded action makes of it (Runtime.run_burst, execute_transaction).    *)
(*                                                                         *)
(* Captures of one session interleave: observers, bursts and the operator  *)
(* loop call FrameStore.capture with no lock, and it awaits three times -  *)
(* the screenshot, the fingerprint and the write of the image - so it is   *)
(* four actions here.                                                      *)
(***************************************************************************)
EXTENDS Naturals

CONSTANTS
    Readers,    \* coroutines that capture
    Screens,    \* screens that fp_meaningful_change tells apart
    Keyboards,  \* layout and Caps Lock
    MaxFrames,  \* bound: captures started
    None

ASSUME FrameConstants ==
    /\ MaxFrames \in Nat
    /\ Screens # {} /\ Keyboards # {}
    /\ None \notin Screens \cup Keyboards

VARIABLES
    \* --- the machine
    screen, keyboard,
    \* --- FrameStore
    version,    \* _world_version
    lastFp,     \* screen of _last_fp
    lastKb,     \* _last_keyboard
    seq,        \* _frame_seq
    latest,     \* frame id of _latest
    \* --- one coroutine per reader
    pc,
    shot,       \* what its capture holds: screen, keyboard, frame id
    plan,       \* the record its action was planned against
    verdict,    \* what became of that action
    \* --- what the clients hold and what was compared
    records,    \* FrameRecords delivered
    compared,   \* every comparison: the version it left, screen and keyboard
    started     \* captures started

storeVars == <<version, lastFp, lastKb, seq, latest>>
vars == <<screen, keyboard, storeVars, pc, shot, plan, verdict, records, compared, started>>

Shots == [screen: Screens, keyboard: Keyboards \cup {None}, frame: Nat, at: Nat]

(* "at" is not in the code's record: the version at its own comparison.    *)
Records == [frame: Nat, version: Nat, screen: Screens, keyboard: Keyboards, at: Nat]

\* One type invariant: every variable has its shape.
TypeOK ==
    /\ screen \in Screens /\ keyboard \in Keyboards
    /\ version \in Nat /\ seq \in Nat /\ latest \in Nat
    /\ lastFp \in Screens \cup {None} /\ lastKb \in Keyboards \cup {None}
    /\ pc \in [Readers -> {"idle", "shooting", "fingerprint", "writing"}]
    /\ shot \in [Readers -> Shots \cup {None}]
    /\ plan \in [Readers -> Records \cup {None}]
    /\ \A r \in Readers :
          /\ pc[r] # "idle" => shot[r] \in Shots
          /\ pc[r] \in {"fingerprint", "writing"} => shot[r].keyboard \in Keyboards
    /\ verdict \in [Readers -> {"none", "accepted", "stale"}]
    /\ records \subseteq Records
    /\ compared \subseteq [at: Nat, screen: Screens, keyboard: Keyboards]
    /\ started \in Nat

Init ==
    /\ screen \in Screens /\ keyboard \in Keyboards
    /\ version = 1 /\ seq = 0 /\ latest = 0 /\ lastFp = None /\ lastKb = None
    /\ pc = [r \in Readers |-> "idle"]
    /\ shot = [r \in Readers |-> None]
    /\ plan = [r \in Readers |-> None]
    /\ verdict = [r \in Readers |-> "none"]
    /\ records = {} /\ compared = {} /\ started = 0

-----------------------------------------------------------------------------
(* The backend takes the screenshot: for an observation, or for the guard  *)
(* of an action planned against a record the client already holds.         *)
Shoot(r) ==
    /\ pc[r] = "idle" /\ started < MaxFrames
    /\ started' = started + 1
    /\ \E p \in records \cup {None} : plan' = [plan EXCEPT ![r] = p]
    /\ shot' = [shot EXCEPT ![r] = [screen |-> screen, keyboard |-> None, frame |-> 0, at |-> 0]]
    /\ pc' = [pc EXCEPT ![r] = "shooting"]
    /\ verdict' = [verdict EXCEPT ![r] = "none"]
    /\ UNCHANGED <<screen, keyboard, storeVars, records, compared>>

\* A mutant: the keyboard is not read.
ReadKeyboardLater(r) ==
    /\ pc[r] = "shooting"
    /\ pc' = [pc EXCEPT ![r] = "fingerprint"]
    /\ UNCHANGED <<screen, keyboard, storeVars, shot, plan, verdict, records, compared, started>>

(* The image has arrived; the keyboard state is read now.                  *)
ReadKeyboard(r) ==
    /\ pc[r] = "shooting"
    /\ shot' = [shot EXCEPT ![r] = [@ EXCEPT !.keyboard = keyboard]]
    /\ pc' = [pc EXCEPT ![r] = "fingerprint"]
    /\ UNCHANGED <<screen, keyboard, storeVars, plan, verdict, records, compared, started>>

\* A mutant: the keyboard's state is not compared.
ScreenChanged(r) == lastFp # None /\ lastFp # shot[r].screen

WorldChanged(r) ==
    ScreenChanged(r) \/ (lastKb # None /\ lastKb # shot[r].keyboard)

\* A mutant: the first frame stays the baseline.
FirstBaseline(r) == IF lastFp = None THEN shot[r].screen ELSE lastFp

(* Every comparison replaces the baseline.                                 *)
Baseline(r) == shot[r].screen

(* The fingerprint is computed: compare, number, and go to write the file. *)
Compare(r) ==
    /\ pc[r] = "fingerprint"
    /\ version' = IF WorldChanged(r) THEN version + 1 ELSE version
    /\ lastFp' = Baseline(r) /\ lastKb' = shot[r].keyboard
    /\ seq' = seq + 1
    /\ shot' = [shot EXCEPT ![r] = [@ EXCEPT !.frame = seq + 1, !.at = version']]
    /\ compared' = compared \cup
          {[at |-> version', screen |-> shot[r].screen, keyboard |-> shot[r].keyboard]}
    /\ pc' = [pc EXCEPT ![r] = "writing"]
    /\ UNCHANGED <<screen, keyboard, latest, plan, verdict, records, started>>

(* The frame id, unlike the version, is the one its comparison took.       *)
FrameId(r) == shot[r].frame

Accepted(r) == plan[r].version = version

(* The file is written: the record takes the version of this moment, and a *)
(* guarded action goes ahead if that is the version it was planned on.     *)
Record(r) ==
    /\ pc[r] = "writing"
    /\ latest' = FrameId(r)
    /\ records' = records \cup
          {[frame |-> FrameId(r), version |-> version, screen |-> shot[r].screen,
            keyboard |-> shot[r].keyboard, at |-> shot[r].at]}
    /\ verdict' = [verdict EXCEPT ![r] =
                      IF plan[r] = None THEN "none" ELSE IF Accepted(r) THEN "accepted" ELSE "stale"]
    /\ pc' = [pc EXCEPT ![r] = "idle"]
    /\ UNCHANGED <<screen, keyboard, version, lastFp, lastKb, seq, shot, plan, compared, started>>

(* The machine repaints, or its keyboard changes.                          *)
Machine ==
    /\ \/ screen' \in Screens \ {screen} /\ UNCHANGED keyboard
       \/ keyboard' \in Keyboards \ {keyboard} /\ UNCHANGED screen
    /\ UNCHANGED <<storeVars, pc, shot, plan, verdict, records, compared, started>>

Next ==
    \/ \E r \in Readers : Shoot(r) \/ ReadKeyboard(r) \/ Compare(r) \/ Record(r)
    \/ Machine

Spec == Init /\ [][Next]_vars

-----------------------------------------------------------------------------
(* Properties.                                                             *)

(* All captures that were compared at one world version saw one screen and *)
(* one keyboard state, in whatever order their threads came back, and also *)
(* when the machine returned to an earlier screen in between.              *)
VersionNamesScreen ==
    \A c, d \in compared : c.at = d.at => c = d

(* Frame ids cited by decisions are never shared: no capture overwrites    *)
(* the image of another.                                                   *)
FramesUnique ==
    \A a, b \in records : a.frame = b.frame => a = b

SameWorld(r) ==
    plan[r].screen = shot[r].screen /\ plan[r].keyboard = shot[r].keyboard

(* No capture bumped the version between the record's comparison and its   *)
(* delivery.                                                               *)
Undisturbed(record) == record.version = record.at

(* An action goes ahead only if the guard's capture shows the screen and   *)
(* the keyboard it was planned against, provided that the planned record   *)
(* was not overtaken by another capture while its file was written.        *)
GuardHonest ==
    \A r \in Readers :
        verdict[r] = "accepted" /\ Undisturbed(plan[r]) => SameWorld(r)
=============================================================================
