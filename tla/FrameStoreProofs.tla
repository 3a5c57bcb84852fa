-------------------------- MODULE FrameStoreProofs --------------------------
(***************************************************************************)
(* What a world version means, for any number of readers, screens and      *)
(* keyboard states.                                                        *)
(***************************************************************************)
EXTENDS FrameStore, TLAPS

Seen(x) == [at |-> x.at, screen |-> x.screen, keyboard |-> x.keyboard]

(* The baselines are the last comparison, and the only one of its version. *)
Baselines ==
    /\ lastFp = None => compared = {}
    /\ lastKb = None => compared = {}
    /\ \A c \in compared :
          /\ c.at <= version
          /\ c.at = version => c.screen = lastFp /\ c.keyboard = lastKb

(* A capture that has been compared, and every record, has its comparison; *)
(* a record's version is not earlier.                                      *)
Compared ==
    /\ \A r \in Readers : pc[r] = "writing" => Seen(shot[r]) \in compared
    /\ \A p \in records : Seen(p) \in compared /\ p.at <= p.version /\ p.version <= version

(* Ids under way and delivered are different and have been issued.         *)
Numbered ==
    /\ \A r \in Readers : pc[r] = "writing" =>
          /\ shot[r].frame <= seq
          /\ \A p \in records : p.frame # shot[r].frame
          /\ \A q \in Readers \ {r} : pc[q] = "writing" => shot[q].frame # shot[r].frame
    /\ \A p \in records : p.frame <= seq

(* A guard's capture is compared after its planned record was delivered.   *)
Guards ==
    \A r \in Readers :
       /\ pc[r] # "idle" => verdict[r] = "none"
       /\ verdict[r] = "accepted" => plan[r] # None
       /\ plan[r] # None => plan[r] \in records
       /\ pc[r] = "writing" /\ plan[r] # None => plan[r].version <= shot[r].at

Inv ==
    /\ TypeOK /\ Baselines /\ VersionNamesScreen /\ Compared /\ Numbered /\ FramesUnique
    /\ Guards /\ GuardHonest

LEMMA InitInv == Init => Inv
BY FrameConstants DEF Init, Inv, TypeOK, Baselines, VersionNamesScreen, Compared, Numbered,
                      FramesUnique, Guards, GuardHonest

(* Taking the screenshot delivers and compares nothing.                    *)
LEMMA ShootInv == ASSUME Inv, NEW r \in Readers, Shoot(r) PROVE Inv'
<1> USE DEF Shoot, storeVars
<1>1. PICK p \in records \cup {None} : plan' = [plan EXCEPT ![r] = p]
  OBVIOUS
<1>2. TypeOK'
  BY <1>1, FrameConstants DEF Inv, TypeOK, Shots
<1>3. Baselines' /\ VersionNamesScreen' /\ FramesUnique'
  BY DEF Inv, Baselines, VersionNamesScreen, FramesUnique
<1>4. Compared'
  BY DEF Inv, TypeOK, Compared, Seen
<1>5. Numbered'
  BY DEF Inv, TypeOK, Numbered
<1>6. Guards'
  BY <1>1 DEF Inv, TypeOK, Guards
<1>7. GuardHonest'
  BY <1>1 DEF Inv, TypeOK, GuardHonest, Undisturbed, SameWorld
<1> QED
  BY <1>2, <1>3, <1>4, <1>5, <1>6, <1>7 DEF Inv

(* Reading the keyboard only completes the shot.                           *)
LEMMA ReadKeyboardInv == ASSUME Inv, NEW r \in Readers, ReadKeyboard(r) PROVE Inv'
<1> USE DEF ReadKeyboard, storeVars
<1>1. TypeOK'
  BY DEF Inv, TypeOK, Shots
<1>2. Baselines' /\ VersionNamesScreen' /\ FramesUnique'
  BY DEF Inv, Baselines, VersionNamesScreen, FramesUnique
<1>3. Compared'
  BY DEF Inv, TypeOK, Compared, Seen
<1>4. Numbered'
  BY DEF Inv, TypeOK, Numbered
<1>5. Guards'
  BY DEF Inv, TypeOK, Guards
<1>6. GuardHonest'
  BY DEF Inv, TypeOK, GuardHonest, Guards, Undisturbed, SameWorld
<1> QED
  BY <1>1, <1>2, <1>3, <1>4, <1>5, <1>6 DEF Inv

(* A comparison keeps the version only if it sees what the last one saw.   *)
LEMMA CompareInv == ASSUME Inv, NEW r \in Readers, Compare(r) PROVE Inv'
<1> DEFINE new == [at |-> version', screen |-> shot[r].screen, keyboard |-> shot[r].keyboard]
<1> USE DEF Compare, Baseline
<1>1. /\ shot[r] \in Shots /\ shot[r].screen \in Screens /\ shot[r].keyboard \in Keyboards
      /\ version \in Nat /\ version' \in {version, version + 1} /\ seq \in Nat
  BY DEF Inv, TypeOK, Shots
<1>2. shot' = [shot EXCEPT ![r] = [shot[r] EXCEPT !.frame = seq + 1, !.at = version']]
  OBVIOUS
<1>3. shot'[r] = [screen |-> shot[r].screen, keyboard |-> shot[r].keyboard,
                  frame |-> seq + 1, at |-> version']
  BY <1>1, <1>2 DEF Inv, TypeOK, Shots
<1>4. compared' = compared \cup {new}
  OBVIOUS
<1>5. TypeOK'
  BY <1>1, <1>2, <1>3, <1>4 DEF Inv, TypeOK, Shots
<1>6. \A c \in compared :
         /\ c.at \in Nat /\ c = [at |-> c.at, screen |-> c.screen, keyboard |-> c.keyboard]
         /\ c.at <= version
         /\ c.at = version' => c.screen = shot[r].screen /\ c.keyboard = shot[r].keyboard
  BY <1>1 DEF Inv, TypeOK, Baselines, WorldChanged, ScreenChanged
<1>7. Baselines'
  BY <1>1, <1>4, <1>6, FrameConstants DEF Inv, Baselines
<1>8. VersionNamesScreen'
  BY <1>1, <1>4, <1>6 DEF Inv, VersionNamesScreen
<1>9. Compared'
  BY <1>1, <1>2, <1>3, <1>4 DEF Inv, TypeOK, Compared, Seen, Records
<1>10. Numbered'
  BY <1>1, <1>2, <1>3 DEF Inv, TypeOK, Numbered, Shots, Records
<1>11. FramesUnique'
  BY DEF Inv, FramesUnique
<1>12. Guards'
  BY <1>1, <1>2, <1>3 DEF Inv, TypeOK, Guards, Compared, Records
<1>13. GuardHonest'
  BY <1>2 DEF Inv, TypeOK, GuardHonest, Guards, Undisturbed, SameWorld
<1> QED
  BY <1>5, <1>7, <1>8, <1>9, <1>10, <1>11, <1>12, <1>13 DEF Inv

(* The record's version is the current one: at least that of its own       *)
(* comparison, so an accepted plan has exactly that version.               *)
LEMMA RecordInv == ASSUME Inv, NEW r \in Readers, Record(r) PROVE Inv'
<1> DEFINE new == [frame |-> shot[r].frame, version |-> version, screen |-> shot[r].screen,
                   keyboard |-> shot[r].keyboard, at |-> shot[r].at]
<1> USE DEF Record, FrameId
<1>1. /\ shot[r] \in Shots /\ shot[r].screen \in Screens /\ shot[r].keyboard \in Keyboards
      /\ shot[r].at \in Nat /\ shot[r].frame \in Nat /\ version \in Nat
  BY DEF Inv, TypeOK, Shots
<1>2. records' = records \cup {new} /\ new \in Records
  BY <1>1 DEF Records
<1>3. TypeOK'
  BY <1>1, <1>2 DEF Inv, TypeOK
<1>4. Baselines' /\ VersionNamesScreen'
  BY DEF Inv, Baselines, VersionNamesScreen
<1>5. Seen(shot[r]) \in compared /\ shot[r].at <= version
  BY DEF Inv, Baselines, Compared, Seen
<1>6. Compared'
  BY <1>1, <1>2, <1>5 DEF Inv, TypeOK, Compared, Seen
<1>7. Numbered'
  BY <1>1, <1>2 DEF Inv, TypeOK, Numbered
<1>8. FramesUnique'
  BY <1>1, <1>2 DEF Inv, FramesUnique, Numbered
<1>9. Guards'
  BY <1>2 DEF Inv, TypeOK, Guards
<1>10. GuardHonest'
  <2>1. ASSUME plan[r] # None, Accepted(r), Undisturbed(plan[r])
        PROVE  SameWorld(r)
    <3>1. plan[r] \in records /\ plan[r].version <= shot[r].at /\ Seen(plan[r]) \in compared
      BY <2>1 DEF Inv, Guards, Compared
    <3>2. plan[r].at = shot[r].at
      BY <1>1, <1>5, <2>1, <3>1 DEF Accepted, Undisturbed
    <3>3. Seen(plan[r]) = Seen(shot[r])
      BY <1>5, <3>1, <3>2 DEF Inv, VersionNamesScreen, Seen
    <3> QED
      BY <3>3 DEF Seen, SameWorld
  <2>2. verdict'[r] = "accepted" => plan[r] # None /\ Accepted(r)
    BY DEF Inv, TypeOK
  <2>3. \A q \in Readers \ {r} : verdict'[q] = verdict[q]
    BY DEF Inv, TypeOK
  <2> QED
    BY <2>1, <2>2, <2>3 DEF Inv, GuardHonest, Undisturbed, SameWorld
<1> QED
  BY <1>3, <1>4, <1>6, <1>7, <1>8, <1>9, <1>10 DEF Inv

(* Every step preserves the invariant.                                     *)
LEMMA StepInv == Inv /\ [Next]_vars => Inv'
<1> SUFFICES ASSUME Inv, [Next]_vars PROVE Inv'
  OBVIOUS
<1>1. ASSUME NEW r \in Readers, Shoot(r) \/ ReadKeyboard(r) \/ Compare(r) \/ Record(r)
      PROVE  Inv'
  BY <1>1, ShootInv, ReadKeyboardInv, CompareInv, RecordInv
<1>2. CASE Machine
  BY <1>2 DEF Machine, storeVars, Inv, TypeOK, Baselines, VersionNamesScreen, Compared, Numbered,
              FramesUnique, Guards, GuardHonest, Undisturbed, SameWorld
<1>3. CASE UNCHANGED vars
  BY <1>3 DEF vars, storeVars, Inv, TypeOK, Baselines, VersionNamesScreen, Compared, Numbered,
              FramesUnique, Guards, GuardHonest, Undisturbed, SameWorld
<1> QED
  BY <1>1, <1>2, <1>3 DEF Next

(* The invariant holds in every reachable state of the frame store.        *)
THEOREM Invariance == Spec => []Inv
BY InitInv, StepInv, PTL DEF Spec

(* The frame store's variables keep their shapes.                          *)
THEOREM TypeCorrect == Spec => []TypeOK
<1>1. Inv => TypeOK
  BY DEF Inv
<1> QED
  BY <1>1, Invariance, PTL

(* FrameStore.capture: captures compared at one version saw one world.     *)
THEOREM VersionsNameScreens == Spec => []VersionNamesScreen
<1>1. Inv => VersionNamesScreen
  BY DEF Inv
<1> QED
  BY <1>1, Invariance, PTL

(* FrameStore.capture: no two records share a frame id.                    *)
THEOREM FrameIdsAreUnique == Spec => []FramesUnique
<1>1. Inv => FramesUnique
  BY DEF Inv
<1> QED
  BY <1>1, Invariance, PTL

(* The freshness test of run_burst is right for a planned record that no   *)
(* capture overtook between its comparison and its delivery.               *)
THEOREM GuardsAreHonest == Spec => []GuardHonest
<1>1. Inv => GuardHonest
  BY DEF Inv
<1> QED
  BY <1>1, Invariance, PTL
=============================================================================
