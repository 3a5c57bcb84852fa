--------------------------- MODULE RunStoreProofs ---------------------------
(***************************************************************************)
(* What the conflict rules of save guarantee, for any number of copies,    *)
(* tasks and events and any window; and, at the end, what the budget saved *)
(* in the same record guarantees, for any calls, providers and limits.     *)
(***************************************************************************)
EXTENDS RunStore, ModelPool, SequenceTheorems, TLAPS

(* A copy is typed by the shapes of its fields.                            *)
Copy == [base : Nat, events : Seq(Ids), state : Seq(Ids)]

LEMMA TailFrom ==
    ASSUME NEW s \in Seq(Ids), NEW m \in Nat
    PROVE  /\ SubSeq(s, m + 1, Len(s)) \in Seq(Ids)
           /\ Len(SubSeq(s, m + 1, Len(s))) = IF m < Len(s) THEN Len(s) - m ELSE 0
           /\ \A i \in 1 .. Len(SubSeq(s, m + 1, Len(s))) : SubSeq(s, m + 1, Len(s))[i] = s[m + i]
<1>1. Len(s) \in Nat /\ m + 1 \in Int /\ Len(s) \in Int
  BY LenProperties
<1>2. \A i \in m + 1 .. Len(s) : s[i] \in Ids
  BY <1>1, ElementOfSeq
<1>3. /\ SubSeq(s, m + 1, Len(s)) \in Seq(Ids)
      /\ Len(SubSeq(s, m + 1, Len(s))) = IF m + 1 <= Len(s) THEN Len(s) - (m + 1) + 1 ELSE 0
      /\ \A i \in 1 .. Len(s) - (m + 1) + 1 : SubSeq(s, m + 1, Len(s))[i] = s[(m + 1) + i - 1]
  BY <1>1, <1>2, SubSeqProperties
<1> QED
  BY <1>1, <1>3

LEMMA NewEventsType ==
    ASSUME NEW r \in Copy, NEW h \in Seq(Ids)
    PROVE  LET from == IF Len(h) > r.base THEN Len(h) - r.base ELSE 0 IN
           /\ NewEvents(r, h) \in Seq(Ids)
           /\ Len(NewEvents(r, h)) = IF from < Len(r.events) THEN Len(r.events) - from ELSE 0
           /\ \A i \in 1 .. Len(NewEvents(r, h)) : NewEvents(r, h)[i] = r.events[from + i]
<1> DEFINE from == IF Len(h) > r.base THEN Len(h) - r.base ELSE 0
<1>1. from \in Nat /\ r.events \in Seq(Ids)
  BY LenProperties DEF Copy
<1>2. NewEvents(r, h) = SubSeq(r.events, from + 1, Len(r.events))
  BY DEF NewEvents, from
<1> HIDE DEF from
<1>3. /\ SubSeq(r.events, from + 1, Len(r.events)) \in Seq(Ids)
      /\ Len(SubSeq(r.events, from + 1, Len(r.events))) =
            IF from < Len(r.events) THEN Len(r.events) - from ELSE 0
      /\ \A i \in 1 .. Len(SubSeq(r.events, from + 1, Len(r.events))) :
            SubSeq(r.events, from + 1, Len(r.events))[i] = r.events[from + i]
  BY <1>1, TailFrom, Zenon
<1>4. /\ NewEvents(r, h) \in Seq(Ids)
      /\ Len(NewEvents(r, h)) = IF from < Len(r.events) THEN Len(r.events) - from ELSE 0
      /\ \A i \in 1 .. Len(NewEvents(r, h)) : NewEvents(r, h)[i] = r.events[from + i]
  BY <1>2, <1>3, Zenon
<1> QED
  BY <1>4 DEF from

(* Type correctness: rows, transaction and copies keep their shapes.       *)
LEMMA TypeStep == TypeOK /\ [Next]_vars => TypeOK'
<1> SUFFICES ASSUME TypeOK, [Next]_vars PROVE TypeOK'
  OBVIOUS
<1> USE StoreConstants DEF TypeOK, Savers
<1>0. CASE UNCHANGED vars
  BY <1>0 DEF vars, durableVars, copyVars
<1>1. ASSUME NEW c \in Copies, GetState(c) PROVE TypeOK'
  BY <1>1 DEF GetState, durableVars
<1>2. ASSUME NEW c \in Copies, GetControl(c) PROVE TypeOK'
  <2> PICK limit \in {Window, Len(history)} :
        copy' = [copy EXCEPT ![c] =
                   [base |-> IF limit < Len(history) THEN Len(history) - limit ELSE 0,
                    events |-> <<>>, state |-> state]]
    BY <1>2 DEF GetControl
  <2>1. Len(history) \in Nat /\ limit \in Nat
    BY LenProperties
  <2>2. (IF limit < Len(history) THEN Len(history) - limit ELSE 0) \in Nat
    BY <2>1
  <2>3. [base |-> IF limit < Len(history) THEN Len(history) - limit ELSE 0,
         events |-> <<>>, state |-> state] \in [base : Nat, events : Seq(Ids), state : Seq(Ids)]
    BY <2>2
  <2>4. copy' \in [Copies -> [base : Nat, events : Seq(Ids), state : Seq(Ids)]]
    <3> DEFINE new == [base |-> IF limit < Len(history) THEN Len(history) - limit ELSE 0,
                       events |-> <<>>, state |-> state]
    <3>1. new \in [base : Nat, events : Seq(Ids), state : Seq(Ids)]
      BY <2>3
    <3>2. copy' = [copy EXCEPT ![c] = new]
      OBVIOUS
    <3> HIDE DEF new
    <3> QED BY <3>1, <3>2
  <2> QED BY <1>2, <2>4 DEF GetControl, durableVars
<1>3. ASSUME NEW c \in Copies, GetEvents(c) PROVE TypeOK'
  <2>1. copy[c].base \in Nat /\ Len(history) \in Nat
    OBVIOUS
  <2>2. SubSeq(history, copy[c].base + 1, Len(history)) \in Seq(Ids)
    BY <2>1, TailFrom
  <2>3. copy' \in [Copies -> [base : Nat, events : Seq(Ids), state : Seq(Ids)]]
    <3> DEFINE new == SubSeq(history, copy[c].base + 1, Len(history))
    <3>1. copy' = [copy EXCEPT ![c].events = new]
      BY <1>3 DEF GetEvents
    <3>2. new \in Seq(Ids)
      BY <2>2
    <3> HIDE DEF new
    <3>3. copy[c] \in Copy
      BY DEF Copy
    <3>4. [copy[c] EXCEPT !.events = new] \in Copy
      BY <3>2, <3>3 DEF Copy
    <3> QED BY <3>1, <3>4 DEF Copy
  <2>4. phase' \in [Copies -> {"none", "half", "loaded"}] /\ seen' \in [Copies -> Seq(Ids)]
    BY <1>3 DEF GetEvents
  <2>5. torn' \subseteq Copies
    BY <1>3 DEF GetEvents
  <2> QED BY <1>3, <2>3, <2>4, <2>5 DEF GetEvents, durableVars
<1>4. ASSUME NEW c \in Copies, Record(c) PROVE TypeOK'
  <2>1. made' \in Ids /\ made' \in 0 .. MaxEvents
    BY <1>4, SMTT(30) DEF Record, Ids
  <2>2. /\ Append(copy[c].events, made') \in Seq(Ids)
        /\ Append(copy[c].state, made') \in Seq(Ids)
        /\ Append(seen[c], made') \in Seq(Ids)
    BY <2>1, AppendProperties
  <2>3. copy' \in [Copies -> [base : Nat, events : Seq(Ids), state : Seq(Ids)]]
    <3> DEFINE events == Append(copy[c].events, made')
               newer == Append(copy[c].state, made')
    <3>1. copy' = [copy EXCEPT ![c] = [copy[c] EXCEPT !.events = events, !.state = newer]]
      BY <1>4 DEF Record
    <3>2. events \in Seq(Ids) /\ newer \in Seq(Ids)
      BY <2>2
    <3> HIDE DEF events, newer
    <3>3. copy[c] \in Copy
      BY DEF Copy
    <3>4. [copy[c] EXCEPT !.events = events, !.state = newer] \in Copy
      BY <3>2, <3>3 DEF Copy
    <3> QED BY <3>1, <3>4 DEF Copy
  <2>4. seen' \in [Copies -> Seq(Ids)]
    BY <1>4, <2>2 DEF Record
  <2> QED BY <1>4, <2>1, <2>3, <2>4 DEF Record, durableVars
<1>5. ASSUME NEW c \in Copies, Discard(c) PROVE TypeOK'
  BY <1>5 DEF Discard, durableVars, NoCopy
<1>6. ASSUME NEW c \in Copies, NEW t \in Tasks, Begin(c, t) PROVE TypeOK'
  BY <1>6 DEF Begin, durableVars, copyVars, NoStage
<1>7. ASSUME NEW c \in Copies, NEW t \in Tasks, Write(c, t) PROVE TypeOK'
  <2>1. copy[c] \in Copy
    BY DEF Copy
  <2>2. NewEvents(copy[c], history) \in Seq(Ids)
    BY <2>1, NewEventsType
  <2>3. history \o NewEvents(copy[c], history) \in Seq(Ids)
    BY <2>2, ConcatProperties
  <2> QED BY <1>7, <2>3 DEF Write, durableVars, copyVars
<1>8. ASSUME NEW c \in Copies, NEW t \in Tasks, Commit(c, t) PROVE TypeOK'
  BY <1>8 DEF Commit, copyVars, NoStage
<1>9. ASSUME NEW c \in Copies, NEW t \in Tasks, Rollback(c, t) PROVE TypeOK'
  BY <1>9 DEF Rollback, durableVars, copyVars, NoStage
<1>10. CASE Crash
  BY <1>10 DEF Crash, durableVars, NoStage, NoCopy
<1> QED
  BY <1>0, <1>1, <1>2, <1>3, <1>4, <1>5, <1>6, <1>7, <1>8, <1>9, <1>10 DEF Next

LEMMA TypeInit == Init => TypeOK
<1> SUFFICES ASSUME Init PROVE TypeOK
  OBVIOUS
<1>1. /\ history \in Seq(Ids) /\ state \in Seq(Ids)
      /\ staged \in [history : Seq(Ids), state : Seq(Ids), open : BOOLEAN]
      /\ copy \in [Copies -> [base : Nat, events : Seq(Ids), state : Seq(Ids)]]
      /\ seen \in [Copies -> Seq(Ids)]
  BY EmptySeq DEF Init, NoCopy, NoStage
<1>2. made \in 0 .. MaxEvents /\ reserved \in Savers \cup {None}
  BY StoreConstants DEF Init
<1> QED
  BY <1>1, <1>2 DEF Init, TypeOK

(* The run's rows, copies and transactions keep their shapes.              *)
THEOREM TypeCorrect == Spec => []TypeOK
BY TypeInit, TypeStep, PTL DEF Spec

-----------------------------------------------------------------------------
(* Two sequences of events that have an event in common have everything    *)
(* before it in common: a serial number is given once, by one copy, to     *)
(* whatever that copy had seen.                                            *)
Agree(g, h) ==
    \A i \in 1 .. Len(g) : i <= Len(h) /\ g[i] = h[i] => \A j \in 1 .. i : g[j] = h[j]

Fresh ==
    /\ \A i \in 1 .. Len(history) : history[i] <= made
    /\ \A c \in Copies : \A i \in 1 .. Len(seen[c]) : seen[c][i] <= made

Forks ==
    /\ \A c \in Copies : Agree(history, seen[c])
    /\ \A c, d \in Copies : Agree(seen[c], seen[d])

(* A copy's window is the end of what it has seen, and what lies before    *)
(* the window is the history's own beginning.                              *)
Windows ==
    \A c \in Copies :
       /\ phase[c] # "none" => copy[c].base <= Len(history)
       /\ phase[c] = "loaded" =>
            /\ copy[c].base <= Len(seen[c])
            /\ \A i \in 1 .. copy[c].base : seen[c][i] = history[i]
            /\ copy[c].events = SubSeq(seen[c], copy[c].base + 1, Len(seen[c]))

(* What an open transaction has staged lies between the history and what   *)
(* its copy has seen.                                                      *)
Holder ==
    /\ staged.open => reserved # None
    /\ \A c \in Copies, t \in Tasks : reserved = <<c, t>> =>
         /\ phase[c] = "loaded"
         /\ staged.open =>
              /\ Prefix(history, staged.history)
              /\ Prefix(staged.history, seen[c])
              /\ ~lagging /\ c \notin torn => staged.state = staged.history

States ==
    ~lagging =>
       /\ state = history
       /\ \A c \in Copies \ torn : phase[c] = "loaded" => copy[c].state = seen[c]

Inv == TypeOK /\ Fresh /\ Forks /\ Windows /\ Holder /\ States

(* A copy that does not conflict continues the history: appending what the *)
(* history lacks gives exactly what the copy has seen, though one event at *)
(* most was compared.                                                      *)
LEMMA Continues ==
    ASSUME NEW r \in Copy, NEW h \in Seq(Ids), NEW s \in Seq(Ids),
           r.base <= Len(h), r.base <= Len(s),
           \A i \in 1 .. r.base : s[i] = h[i],
           r.events = SubSeq(s, r.base + 1, Len(s)),
           Agree(h, s), ~Conflicts(r, h)
    PROVE  h \o NewEvents(r, h) = s
<1> DEFINE new == NewEvents(r, h)
<1>1. /\ r.base \in Nat /\ r.events \in Seq(Ids)
      /\ Len(h) \in Nat /\ Len(s) \in Nat /\ Len(r.events) \in Nat
  BY LenProperties DEF Copy
<1>2. /\ Len(r.events) = Len(s) - r.base
      /\ \A i \in 1 .. Len(s) - r.base : r.events[i] = s[r.base + i]
  <2>1. /\ Len(SubSeq(s, r.base + 1, Len(s))) = IF r.base < Len(s) THEN Len(s) - r.base ELSE 0
        /\ \A i \in 1 .. Len(SubSeq(s, r.base + 1, Len(s))) :
              SubSeq(s, r.base + 1, Len(s))[i] = s[r.base + i]
    BY <1>1, TailFrom, Zenon
  <2>2. /\ Len(r.events) = IF r.base < Len(s) THEN Len(s) - r.base ELSE 0
        /\ \A i \in 1 .. Len(r.events) : r.events[i] = s[r.base + i]
    BY <2>1, Zenon
  <2> QED BY <1>1, <2>2, SMTT(30)
<1>3. /\ new \in Seq(Ids)
      /\ Len(new) = IF Len(h) < Len(s) THEN Len(s) - Len(h) ELSE 0
      /\ \A i \in 1 .. Len(new) : new[i] = r.events[Len(h) - r.base + i]
  <2> DEFINE from == IF Len(h) > r.base THEN Len(h) - r.base ELSE 0
  <2>1. /\ new \in Seq(Ids)
        /\ Len(new) = IF from < Len(r.events) THEN Len(r.events) - from ELSE 0
        /\ \A i \in 1 .. Len(new) : new[i] = r.events[from + i]
    BY NewEventsType, Zenon
  <2>2. from = Len(h) - r.base
    BY <1>1
  <2> HIDE DEF from, new
  <2>3. Len(new) = IF Len(h) < Len(s) THEN Len(s) - Len(h) ELSE 0
    BY <1>1, <1>2, <2>1, <2>2
  <2> QED BY <2>1, <2>2, <2>3, Zenon
<1> HIDE DEF new
<1>4. Len(s) = Len(h) + Len(new)
  <2>1. r.base + Len(r.events) = Len(h) + Len(new)
    BY DEF Conflicts, MissesCursor, Cursor, new
  <2> QED BY <1>1, <1>2, <2>1
<1>5. \A i \in 1 .. Len(h) : h[i] = s[i]
  <2>1. CASE r.base = Len(h)
    BY <2>1
  <2>2. CASE r.base < Len(h)
    <3>0. Len(h) <= Len(s) /\ Len(h) <= Cursor(r)
      BY <1>1, <1>2, <1>3, <1>4 DEF Cursor
    <3>1. r.events[Len(h) - r.base] = h[Len(h)]
      BY <2>2, <3>0 DEF Conflicts, ReplacesEvent
    <3>2. r.events[Len(h) - r.base] = s[Len(h)]
      <4> DEFINE i == Len(h) - r.base
      <4>1. i \in 1 .. Len(s) - r.base /\ r.base + i = Len(h)
        BY <1>1, <2>2, <3>0
      <4> HIDE DEF i
      <4>2. r.events[i] = s[r.base + i]
        BY <1>2, <4>1
      <4> QED BY <4>1, <4>2 DEF i
    <3>3. h[Len(h)] = s[Len(h)] /\ Len(h) \in 1 .. Len(h) /\ Len(h) <= Len(s)
      BY <1>1, <1>3, <1>4, <2>2, <3>1, <3>2
    <3> QED BY <3>3 DEF Agree
  <2> QED BY <1>1, <2>1, <2>2
<1>6. \A i \in 1 .. Len(new) : new[i] = s[Len(h) + i]
  <2> TAKE i \in 1 .. Len(new)
  <2> DEFINE j == Len(h) - r.base + i
  <2>1. j \in 1 .. Len(s) - r.base /\ r.base + j = Len(h) + i
    BY <1>1, <1>3, <1>4, SMTT(30)
  <2>2. new[i] = r.events[j]
    BY <1>3
  <2> HIDE DEF j
  <2>3. r.events[j] = s[r.base + j]
    BY <1>2, <2>1
  <2> QED BY <2>1, <2>2, <2>3
<1>7. /\ h \o new \in Seq(Ids)
      /\ Len(h \o new) = Len(h) + Len(new)
      /\ \A i \in 1 .. Len(h) + Len(new) :
            (h \o new)[i] = IF i <= Len(h) THEN h[i] ELSE new[i - Len(h)]
  <2>1. h \in Seq(Ids) /\ new \in Seq(Ids)
    BY <1>3
  <2>2. ASSUME NEW u \in Seq(Ids), NEW v \in Seq(Ids)
        PROVE  /\ u \o v \in Seq(Ids)
               /\ Len(u \o v) = Len(u) + Len(v)
               /\ \A i \in 1 .. Len(u) + Len(v) :
                     (u \o v)[i] = IF i <= Len(u) THEN u[i] ELSE v[i - Len(u)]
    BY ConcatProperties
  <2> QED BY <2>1, <2>2, Zenon
<1>8. \A i \in 1 .. Len(s) : (h \o new)[i] = s[i]
  BY <1>1, <1>3, <1>4, <1>5, <1>6, <1>7, SMTT(30)
<1>9. Len(h \o new) = Len(s)
  BY <1>4, <1>7
<1>10. h \o new = s
  BY <1>7, <1>8, <1>9, SeqEqual
<1> QED BY <1>10 DEF new

LEMMA AgreeSymmetric ==
    ASSUME NEW g \in Seq(Ids), NEW h \in Seq(Ids), Agree(g, h)
    PROVE  Agree(h, g)
BY LenProperties DEF Agree

LEMMA PrefixAgrees ==
    ASSUME NEW g \in Seq(Ids), NEW h \in Seq(Ids), NEW s \in Seq(Ids),
           Prefix(g, s), Agree(s, h)
    PROVE  Agree(g, h)
BY LenProperties DEF Agree, Prefix

LEMMA InvInit == Init => Inv
<1> SUFFICES ASSUME Init PROVE Inv
  OBVIOUS
<1>1. TypeOK
  BY TypeInit
<1>2. Len(<<>>) = 0 /\ <<>> \in Seq(Ids)
  BY EmptySeq
<1>3. Fresh /\ Forks /\ Windows
  BY <1>2 DEF Init, Fresh, Forks, Windows, Agree
<1>4. Holder /\ States
  BY StoreConstants DEF Init, Holder, States, NoStage
<1> QED
  BY <1>1, <1>3, <1>4 DEF Inv

-----------------------------------------------------------------------------
(* Every step preserves the invariant.                                     *)

(* Loading without history: the window is empty, and begins at the end.    *)
LEMMA GetStateStep ==
    ASSUME Inv, TypeOK', NEW c \in Copies, GetState(c) PROVE Inv'
<1>1. /\ phase' = [phase EXCEPT ![c] = "loaded"] /\ phase[c] = "none"
      /\ copy' = [copy EXCEPT ![c] = [base |-> Len(history), events |-> <<>>, state |-> state]]
      /\ seen' = [seen EXCEPT ![c] = history]
      /\ UNCHANGED <<history, state, reserved, staged, made, torn, lagging>>
  BY DEF GetState, durableVars
<1>2. /\ copy'[c].base = Len(history) /\ copy'[c].events = <<>> /\ copy'[c].state = state
      /\ seen'[c] = history /\ phase'[c] = "loaded"
      /\ \A d \in Copies \ {c} : copy'[d] = copy[d] /\ seen'[d] = seen[d] /\ phase'[d] = phase[d]
  BY <1>1 DEF Inv, TypeOK
<1>3. /\ history \in Seq(Ids) /\ Len(history) \in Nat
      /\ \A d \in Copies : seen[d] \in Seq(Ids)
  BY LenProperties DEF Inv, TypeOK
<1>4. Fresh'
  BY <1>1, <1>2 DEF Inv, Fresh
<1>5. Forks'
  <2>1. \A d \in Copies : Agree(history, seen[d]) /\ Agree(seen[d], history)
    BY <1>3, AgreeSymmetric DEF Inv, Forks
  <2>2. Agree(history, history)
    BY DEF Agree
  <2> QED BY <1>1, <1>2, <2>1, <2>2 DEF Inv, Forks
<1>6. Windows'
  <2>1. SubSeq(history, Len(history) + 1, Len(history)) = <<>>
    BY <1>3, SubSeqEmpty
  <2>2. \A d \in Copies \ {c} :
          /\ phase'[d] # "none" => copy'[d].base <= Len(history')
          /\ phase'[d] = "loaded" =>
               /\ copy'[d].base <= Len(seen'[d])
               /\ \A i \in 1 .. copy'[d].base : seen'[d][i] = history'[i]
               /\ copy'[d].events = SubSeq(seen'[d], copy'[d].base + 1, Len(seen'[d]))
    BY <1>1, <1>2 DEF Inv, Windows
  <2>3. /\ copy'[c].base <= Len(history') /\ copy'[c].base <= Len(seen'[c])
        /\ \A i \in 1 .. copy'[c].base : seen'[c][i] = history'[i]
        /\ copy'[c].events = SubSeq(seen'[c], copy'[c].base + 1, Len(seen'[c]))
    <3>1. copy'[c].base <= Len(history') /\ copy'[c].base <= Len(seen'[c])
      BY <1>1, <1>2, <1>3
    <3>2. \A i \in 1 .. copy'[c].base : seen'[c][i] = history'[i]
      BY <1>1, <1>2
    <3>3. copy'[c].events = SubSeq(seen'[c], copy'[c].base + 1, Len(seen'[c]))
      BY <1>2, <2>1, Zenon
    <3> QED BY <3>1, <3>2, <3>3
  <2> QED BY <2>2, <2>3 DEF Windows
<1>7. Holder'
  BY <1>1, <1>2 DEF Inv, Holder
<1>8. States'
  BY <1>1, <1>2 DEF Inv, States
<1> QED BY <1>4, <1>5, <1>6, <1>7, <1>8 DEF Inv

(* The first statement of a load fixes where the window begins.            *)
LEMMA GetControlStep ==
    ASSUME Inv, TypeOK', NEW c \in Copies, GetControl(c) PROVE Inv'
<1>1. /\ phase' = [phase EXCEPT ![c] = "half"] /\ phase[c] = "none"
      /\ UNCHANGED <<history, state, reserved, staged, made, seen, torn, lagging>>
      /\ \A d \in Copies \ {c} : copy'[d] = copy[d]
  BY DEF GetControl, durableVars, Inv, TypeOK
<1>2. copy'[c].base <= Len(history)
  <2> PICK limit \in {Window, Len(history)} :
        copy' = [copy EXCEPT ![c] =
                   [base |-> IF limit < Len(history) THEN Len(history) - limit ELSE 0,
                    events |-> <<>>, state |-> state]]
    BY DEF GetControl
  <2>1. copy'[c].base = IF limit < Len(history) THEN Len(history) - limit ELSE 0
    BY DEF Inv, TypeOK
  <2>2. Len(history) \in Nat /\ limit \in Nat
    BY StoreConstants, LenProperties DEF Inv, TypeOK
  <2> QED BY <2>1, <2>2
<1>3. phase'[c] = "half" /\ \A d \in Copies \ {c} : phase'[d] = phase[d]
  BY <1>1 DEF Inv, TypeOK
<1>4. Fresh' /\ Forks'
  BY <1>1 DEF Inv, Fresh, Forks
<1>5. Windows'
  BY <1>1, <1>2, <1>3 DEF Inv, Windows
<1>6. Holder'
  BY <1>1, <1>3 DEF Inv, Holder
<1>7. States'
  BY <1>1, <1>3 DEF Inv, States
<1> QED BY <1>4, <1>5, <1>6, <1>7 DEF Inv

(* The second statement: a commit in between tears the copy.               *)
LEMMA GetEventsStep ==
    ASSUME Inv, TypeOK', NEW c \in Copies, GetEvents(c) PROVE Inv'
<1>1. /\ phase' = [phase EXCEPT ![c] = "loaded"] /\ phase[c] = "half"
      /\ seen' = [seen EXCEPT ![c] = history]
      /\ torn' = IF copy[c].state # state THEN torn \cup {c} ELSE torn
      /\ UNCHANGED <<history, state, reserved, staged, made, lagging>>
      /\ \A d \in Copies \ {c} : copy'[d] = copy[d]
  BY DEF GetEvents, durableVars, Inv, TypeOK
<1>2. /\ copy'[c].events = SubSeq(history, copy[c].base + 1, Len(history))
      /\ copy'[c].base = copy[c].base /\ copy'[c].state = copy[c].state
  <2> DEFINE new == SubSeq(history, copy[c].base + 1, Len(history))
  <2>1. copy' = [copy EXCEPT ![c] = [copy[c] EXCEPT !.events = new]]
    BY DEF GetEvents
  <2> HIDE DEF new
  <2>2. copy'[c] = [copy[c] EXCEPT !.events = new]
    BY <2>1 DEF Inv, TypeOK
  <2>3. copy[c] \in Copy
    BY DEF Inv, TypeOK, Copy
  <2>4. copy'[c].events = new /\ copy'[c].base = copy[c].base /\ copy'[c].state = copy[c].state
    BY <2>2, <2>3 DEF Copy
  <2> QED BY <2>4 DEF new
<1>3. /\ seen'[c] = history /\ phase'[c] = "loaded"
      /\ \A d \in Copies \ {c} : seen'[d] = seen[d] /\ phase'[d] = phase[d]
  BY <1>1 DEF Inv, TypeOK
<1>4. history \in Seq(Ids) /\ \A d \in Copies : seen[d] \in Seq(Ids)
  BY DEF Inv, TypeOK
<1>5. Fresh'
  BY <1>1, <1>3 DEF Inv, Fresh
<1>6. Forks'
  <2>1. \A d \in Copies : Agree(history, seen[d]) /\ Agree(seen[d], history)
    BY <1>4, AgreeSymmetric DEF Inv, Forks
  <2>2. Agree(history, history)
    BY DEF Agree
  <2> QED BY <1>1, <1>3, <2>1, <2>2 DEF Inv, Forks
<1>7. Windows'
  BY <1>1, <1>2, <1>3, SMTT(30) DEF Inv, Windows
<1>8. Holder'
  BY <1>1, <1>3 DEF Inv, Holder
<1>9. States'
  BY <1>1, <1>2, <1>3 DEF Inv, States
<1> QED BY <1>5, <1>6, <1>7, <1>8, <1>9 DEF Inv

(* A new event is later than every other, so it agrees with none.          *)
LEMMA RecordStep ==
    ASSUME Inv, TypeOK', NEW c \in Copies, Record(c) PROVE Inv'
<1> DEFINE older == seen[c]
<1>1. /\ phase[c] = "loaded" /\ made' = made + 1
      /\ UNCHANGED <<history, state, reserved, staged, phase, torn, lagging>>
      /\ \A d \in Copies \ {c} : copy'[d] = copy[d] /\ seen'[d] = seen[d]
      /\ seen'[c] = Append(older, made')
  BY DEF Record, durableVars, Inv, TypeOK
<1>2. /\ copy'[c].events = Append(copy[c].events, made')
      /\ copy'[c].state = Append(copy[c].state, made')
      /\ copy'[c].base = copy[c].base
  <2> DEFINE events == Append(copy[c].events, made')
             newer == Append(copy[c].state, made')
  <2>1. copy' = [copy EXCEPT ![c] = [copy[c] EXCEPT !.events = events, !.state = newer]]
    BY DEF Record
  <2> HIDE DEF events, newer
  <2>2. copy'[c] = [copy[c] EXCEPT !.events = events, !.state = newer]
    BY <2>1 DEF Inv, TypeOK
  <2>3. copy[c] \in Copy
    BY DEF Inv, TypeOK, Copy
  <2>4. copy'[c].events = events /\ copy'[c].state = newer /\ copy'[c].base = copy[c].base
    BY <2>2, <2>3 DEF Copy
  <2> QED BY <2>4 DEF events, newer
<1>3. /\ older \in Seq(Ids) /\ Len(older) \in Nat /\ made' \in Ids /\ made \in Nat
      /\ history \in Seq(Ids) /\ Len(history) \in Nat
      /\ \A d \in Copies : seen[d] \in Seq(Ids) /\ Len(seen[d]) \in Nat
      /\ copy[c].events \in Seq(Ids) /\ copy[c].base \in Nat
  <2>1. /\ older \in Seq(Ids) /\ history \in Seq(Ids) /\ \A d \in Copies : seen[d] \in Seq(Ids)
        /\ copy[c].events \in Seq(Ids) /\ copy[c].base \in Nat
    BY DEF Inv, TypeOK
  <2>2. made' \in Ids /\ made \in Nat
    BY StoreConstants DEF Inv, TypeOK, Record, Ids
  <2> HIDE DEF older
  <2> QED BY <2>1, <2>2, LenProperties
<1>4. /\ seen'[c] \in Seq(Ids) /\ Len(seen'[c]) = Len(older) + 1
      /\ \A i \in 1 .. Len(older) : seen'[c][i] = older[i]
      /\ seen'[c][Len(older) + 1] = made'
  BY <1>1, <1>3, AppendProperties
<1>5. /\ made' \in Int
      /\ \A i \in 1 .. Len(history) : history[i] \in Int /\ history[i] < made'
      /\ \A d \in Copies : \A i \in 1 .. Len(seen[d]) : seen[d][i] \in Int /\ seen[d][i] < made'
  <2>1. \A d \in Copies : \A i \in 1 .. Len(seen[d]) : seen[d][i] \in Ids
    BY <1>3, ElementOfSeq
  <2>2. \A i \in 1 .. Len(history) : history[i] \in Ids
    BY <1>3, ElementOfSeq
  <2>3. Fresh
    BY DEF Inv
  <2> QED BY <1>1, <1>3, <2>1, <2>2, <2>3 DEF Fresh, Ids
<1> HIDE DEF older
<1>6. Fresh'
  <2>1. \A i \in 1 .. Len(history') : history'[i] <= made'
    BY <1>1, <1>5
  <2>2. \A d \in Copies \ {c} : \A i \in 1 .. Len(seen'[d]) : seen'[d][i] <= made'
    BY <1>1, <1>5
  <2>3. \A i \in 1 .. Len(older) : older[i] <= made'
    BY <1>5 DEF older
  <2>4. \A i \in 1 .. Len(seen'[c]) : seen'[c][i] <= made'
    <3>1. made' <= made'
      BY <1>5
    <3>2. \A i \in 1 .. Len(older) + 1 : i \in 1 .. Len(older) \/ i = Len(older) + 1
      BY <1>3
    <3> QED BY <1>4, <2>3, <3>1, <3>2
  <2> QED BY <2>1, <2>2, <2>4 DEF Fresh
<1>7. Forks'
  <2>1. ASSUME NEW g \in Seq(Ids), Len(g) \in Nat, Agree(g, older),
               \A i \in 1 .. Len(g) : g[i] \in Int /\ g[i] < made'
        PROVE  Agree(g, seen'[c])
    <3> SUFFICES ASSUME NEW i \in 1 .. Len(g), i <= Len(older) + 1, g[i] = seen'[c][i],
                        NEW j \in 1 .. i
                 PROVE  g[j] = seen'[c][j]
      BY <1>4 DEF Agree
    <3>1. g[i] # made'
      BY <1>5, <2>1
    <3>2. i <= Len(older)
      BY <1>3, <1>4, <2>1, <3>1
    <3>3. g[j] = older[j]
      BY <1>3, <1>4, <2>1, <3>2 DEF Agree
    <3> QED BY <1>3, <1>4, <2>1, <3>2, <3>3
  <2>2. /\ \A d \in Copies : Agree(seen[d], older)
        /\ Agree(history, older)
    BY DEF Inv, Forks, older
  <2>3. \A d \in Copies \ {c} : Agree(seen'[d], seen'[c]) /\ Agree(seen'[c], seen'[d])
    <3> TAKE d \in Copies \ {c}
    <3>1. Agree(seen[d], seen'[c])
      BY <1>3, <1>5, <2>1, <2>2
    <3>2. Agree(seen'[c], seen[d])
      BY <1>3, <1>4, <3>1, AgreeSymmetric
    <3> QED BY <1>1, <3>1, <3>2
  <2>4. Agree(history', seen'[c])
    BY <1>1, <1>3, <1>5, <2>1, <2>2
  <2>5. Agree(seen'[c], seen'[c])
    BY DEF Agree
  <2>6. \A d \in Copies \ {c} : Agree(history', seen'[d])
    BY <1>1 DEF Inv, Forks
  <2>7. \A d, e \in Copies \ {c} : Agree(seen'[d], seen'[e])
    BY <1>1 DEF Inv, Forks
  <2> QED BY <2>3, <2>4, <2>5, <2>6, <2>7 DEF Forks
<1>8. Windows'
  <2>1. /\ copy[c].base <= Len(history) /\ copy[c].base <= Len(older)
        /\ \A i \in 1 .. copy[c].base : older[i] = history[i]
        /\ copy[c].events = SubSeq(older, copy[c].base + 1, Len(older))
    BY <1>1 DEF Inv, Windows, older
  <2>2. copy'[c].events = SubSeq(seen'[c], copy[c].base + 1, Len(seen'[c]))
    <3> DEFINE tail == SubSeq(seen'[c], copy[c].base + 1, Len(seen'[c]))
    <3>1. /\ tail \in Seq(Ids)
          /\ Len(tail) = IF copy[c].base < Len(seen'[c]) THEN Len(seen'[c]) - copy[c].base ELSE 0
          /\ \A i \in 1 .. Len(tail) : tail[i] = seen'[c][copy[c].base + i]
      BY <1>3, <1>4, TailFrom, Zenon
    <3>2. /\ Len(copy[c].events) = IF copy[c].base < Len(older) THEN Len(older) - copy[c].base ELSE 0
          /\ \A i \in 1 .. Len(copy[c].events) : copy[c].events[i] = older[copy[c].base + i]
      <4>1. /\ Len(SubSeq(older, copy[c].base + 1, Len(older))) =
                  IF copy[c].base < Len(older) THEN Len(older) - copy[c].base ELSE 0
            /\ \A i \in 1 .. Len(SubSeq(older, copy[c].base + 1, Len(older))) :
                  SubSeq(older, copy[c].base + 1, Len(older))[i] = older[copy[c].base + i]
        BY <1>3, TailFrom, Zenon
      <4> QED BY <2>1, <4>1, Zenon
    <3>3. /\ copy'[c].events \in Seq(Ids) /\ Len(copy'[c].events) = Len(copy[c].events) + 1
          /\ \A i \in 1 .. Len(copy[c].events) : copy'[c].events[i] = copy[c].events[i]
          /\ copy'[c].events[Len(copy[c].events) + 1] = made'
      BY <1>2, <1>3, AppendProperties
    <3> HIDE DEF tail
    <3>4. Len(tail) = Len(copy'[c].events) /\ Len(copy[c].events) = Len(older) - copy[c].base
      <4>1. /\ Len(tail) = IF copy[c].base < Len(seen'[c]) THEN Len(seen'[c]) - copy[c].base ELSE 0
            /\ Len(copy[c].events) = IF copy[c].base < Len(older) THEN Len(older) - copy[c].base ELSE 0
            /\ Len(copy'[c].events) = Len(copy[c].events) + 1 /\ Len(seen'[c]) = Len(older) + 1
            /\ copy[c].base <= Len(older) /\ copy[c].base \in Nat /\ Len(older) \in Nat
        BY <1>3, <1>4, <2>1, <3>1, <3>2, <3>3, Zenon
      <4> QED BY <4>1
    <3>5. \A i \in 1 .. Len(tail) : tail[i] = copy'[c].events[i]
      <4> TAKE i \in 1 .. Len(tail)
      <4> DEFINE b == copy[c].base
                 n == Len(copy[c].events)
      <4>1. tail[i] = seen'[c][b + i]
        BY <3>1
      <4>2. /\ b \in Nat /\ n \in Nat /\ Len(older) \in Nat /\ n = Len(older) - b
            /\ Len(tail) = n + 1
        BY <1>3, <3>3, <3>4, LenProperties
      <4>3. i \in 1 .. n \/ i = n + 1
        BY <4>2
      <4>4. CASE i \in 1 .. n
        <5>1. b + i \in 1 .. Len(older)
          BY <4>2, <4>4, SMTT(30)
        <5>2. tail[i] = older[b + i]
          BY <1>4, <4>1, <5>1
        <5>3. copy'[c].events[i] = older[b + i]
          BY <3>2, <3>3, <4>4
        <5> QED BY <5>2, <5>3
      <4>5. CASE i = n + 1
        <5>1. b + i = Len(older) + 1
          BY <4>2, <4>5
        <5> QED BY <1>4, <3>3, <4>1, <4>5, <5>1
      <4> QED BY <4>3, <4>4, <4>5
    <3>6. tail = copy'[c].events
      BY <3>1, <3>3, <3>4, <3>5, SeqEqual
    <3> QED BY <3>6 DEF tail
  <2>3. /\ copy'[c].base <= Len(history') /\ copy'[c].base <= Len(seen'[c])
        /\ \A i \in 1 .. copy'[c].base : seen'[c][i] = history'[i]
    BY <1>1, <1>2, <1>3, <1>4, <2>1, SMTT(30)
  <2>4. copy'[c].events = SubSeq(seen'[c], copy'[c].base + 1, Len(seen'[c]))
    BY <1>2, <2>2
  <2>5. \A d \in Copies \ {c} :
          /\ phase'[d] # "none" => copy'[d].base <= Len(history')
          /\ phase'[d] = "loaded" =>
               /\ copy'[d].base <= Len(seen'[d])
               /\ \A i \in 1 .. copy'[d].base : seen'[d][i] = history'[i]
               /\ copy'[d].events = SubSeq(seen'[d], copy'[d].base + 1, Len(seen'[d]))
    <3> TAKE d \in Copies \ {c}
    <3>1. /\ copy'[d] = copy[d] /\ seen'[d] = seen[d]
          /\ phase' = phase /\ history' = history
      BY <1>1
    <3>2. /\ phase[d] # "none" => copy[d].base <= Len(history)
          /\ phase[d] = "loaded" =>
               /\ copy[d].base <= Len(seen[d])
               /\ \A i \in 1 .. copy[d].base : seen[d][i] = history[i]
               /\ copy[d].events = SubSeq(seen[d], copy[d].base + 1, Len(seen[d]))
      BY DEF Inv, Windows
    <3> QED BY <3>1, <3>2, Zenon
  <2> QED BY <2>3, <2>4, <2>5 DEF Windows
<1>9. Holder'
  <2>1. ASSUME NEW g, Len(g) \in Nat, Prefix(g, older) PROVE Prefix(g, seen'[c])
    BY <1>3, <1>4, <2>1 DEF Prefix
  <2>2. Len(staged.history) \in Nat
    BY LenProperties DEF Inv, TypeOK
  <2>3. ASSUME NEW d \in Copies, Prefix(staged.history, seen[d])
        PROVE  Prefix(staged.history, seen'[d])
    BY <1>1, <2>1, <2>2, <2>3 DEF older
  <2> QED BY <1>1, <2>3 DEF Inv, Holder
<1>10. States'
  BY <1>1, <1>2 DEF Inv, States, older
<1> QED BY <1>6, <1>7, <1>8, <1>9, <1>10 DEF Inv

LEMMA DiscardStep ==
    ASSUME Inv, TypeOK', NEW c \in Copies, Discard(c) PROVE Inv'
<1>1. /\ UNCHANGED <<history, state, reserved, staged, made, lagging>>
      /\ torn' = torn \ {c} /\ reserved \notin {c} \X Tasks
      /\ phase'[c] = "none" /\ seen'[c] = <<>>
      /\ \A d \in Copies \ {c} :
            phase'[d] = phase[d] /\ copy'[d] = copy[d] /\ seen'[d] = seen[d]
  BY DEF Discard, durableVars, Inv, TypeOK
<1>2. Len(<<>>) = 0
  BY EmptySeq
<1>3. Fresh'
  BY <1>1, <1>2 DEF Inv, Fresh
<1>4. Forks'
  <2>1. \A g : Agree(g, <<>>) /\ Agree(<<>>, g)
    BY <1>2 DEF Agree
  <2>2. \A d \in Copies : seen'[d] = <<>> \/ (d # c /\ seen'[d] = seen[d])
    BY <1>1
  <2> QED BY <1>1, <2>1, <2>2 DEF Inv, Forks
<1>5. Windows'
  BY <1>1 DEF Inv, Windows
<1>6. Holder'
  BY <1>1 DEF Inv, Holder
<1>7. States'
  BY <1>1 DEF Inv, States
<1> QED BY <1>3, <1>4, <1>5, <1>6, <1>7 DEF Inv

LEMMA BeginStep ==
    ASSUME Inv, TypeOK', NEW c \in Copies, NEW t \in Tasks, Begin(c, t) PROVE Inv'
<1>1. /\ UNCHANGED <<history, state, phase, copy, seen, torn, made, lagging>>
      /\ phase[c] = "loaded" /\ reserved' = <<c, t>> /\ ~staged'.open
  BY DEF Begin, durableVars, copyVars, NoStage
<1>2. Fresh' /\ Forks' /\ Windows' /\ States'
  BY <1>1 DEF Inv, Fresh, Forks, Windows, States
<1>3. Holder'
  BY <1>1 DEF Holder
<1> QED BY <1>2, <1>3 DEF Inv

(* What is staged is all that the copy has seen.                           *)
LEMMA WriteStep ==
    ASSUME Inv, TypeOK', NEW c \in Copies, NEW t \in Tasks, Write(c, t) PROVE Inv'
<1>1. /\ UNCHANGED <<history, state, reserved, phase, copy, seen, torn, made, lagging>>
      /\ reserved = <<c, t>> /\ ~Conflicts(copy[c], history)
      /\ staged'.history = history \o NewEvents(copy[c], history)
      /\ staged'.state = copy[c].state
  BY DEF Write, durableVars, copyVars
<1>2. /\ copy[c] \in Copy /\ history \in Seq(Ids) /\ seen[c] \in Seq(Ids)
      /\ phase[c] = "loaded"
  BY <1>1 DEF Inv, TypeOK, Copy, Holder
<1>3. history \o NewEvents(copy[c], history) = seen[c]
  <2>1. /\ copy[c].base <= Len(history) /\ copy[c].base <= Len(seen[c])
        /\ \A i \in 1 .. copy[c].base : seen[c][i] = history[i]
        /\ copy[c].events = SubSeq(seen[c], copy[c].base + 1, Len(seen[c]))
        /\ Agree(history, seen[c])
    BY <1>2 DEF Inv, Windows, Forks
  <2> QED BY <1>1, <1>2, <2>1, Continues
<1>4. staged'.history = seen[c]
  BY <1>1, <1>3
<1>5. Prefix(history, seen[c]) /\ Prefix(seen[c], seen[c])
  <2>1. NewEvents(copy[c], history) \in Seq(Ids)
    BY <1>2, NewEventsType
  <2>2. /\ Len(history \o NewEvents(copy[c], history)) =
             Len(history) + Len(NewEvents(copy[c], history))
        /\ \A i \in 1 .. Len(history) : (history \o NewEvents(copy[c], history))[i] = history[i]
    BY <1>2, <2>1, ConcatProperties, LenProperties
  <2>3. Len(history) \in Nat /\ Len(NewEvents(copy[c], history)) \in Nat /\ Len(seen[c]) \in Nat
    BY <1>2, <2>1, LenProperties
  <2>4. Len(history) <= Len(seen[c]) /\ \A i \in 1 .. Len(history) : seen[c][i] = history[i]
    BY <1>3, <2>2, <2>3
  <2> QED BY <2>3, <2>4 DEF Prefix
<1>6. Fresh' /\ Forks' /\ Windows' /\ States'
  BY <1>1 DEF Inv, Fresh, Forks, Windows, States
<1>7. ~lagging /\ c \notin torn => staged'.state = seen[c]
  BY <1>1, <1>2 DEF Inv, States
<1>8. Holder'
  <2>1. reserved' # None
    BY <1>1, StoreConstants
  <2>2. \A d \in Copies, u \in Tasks : reserved' = <<d, u>> => d = c
    BY <1>1
  <2> QED BY <1>1, <1>2, <1>4, <1>5, <1>7, <2>1, <2>2 DEF Holder
<1> QED BY <1>6, <1>8 DEF Inv

LEMMA CommitStep ==
    ASSUME Inv, TypeOK', NEW c \in Copies, NEW t \in Tasks, Commit(c, t) PROVE Inv'
<1>1. /\ UNCHANGED <<phase, copy, seen, torn, made>>
      /\ reserved = <<c, t>> /\ staged.open
      /\ history' = staged.history /\ state' = staged.state
      /\ reserved' = None /\ ~staged'.open /\ lagging' = (c \in torn \/ lagging)
  BY DEF Commit, copyVars, NoStage
<1>2. /\ Prefix(history, history') /\ Prefix(history', seen[c])
      /\ ~lagging /\ c \notin torn => state' = history'
  BY <1>1 DEF Inv, Holder
<1>3. /\ history \in Seq(Ids) /\ history' \in Seq(Ids) /\ \A d \in Copies : seen[d] \in Seq(Ids)
      /\ Len(history) \in Nat /\ Len(history') \in Nat
  <2>1. /\ history \in Seq(Ids) /\ history' \in Seq(Ids) /\ \A d \in Copies : seen[d] \in Seq(Ids)
    BY DEF Inv, TypeOK
  <2> QED BY <2>1, LenProperties
<1>4. Fresh'
  <2>1. \A i \in 1 .. Len(history') : history'[i] = seen[c][i] /\ i \in 1 .. Len(seen[c])
    BY <1>2, <1>3, LenProperties DEF Prefix
  <2> QED BY <1>1, <2>1 DEF Inv, Fresh
<1>5. Forks'
  <2>1. \A d \in Copies : Agree(history', seen[d])
    BY <1>2, <1>3, PrefixAgrees DEF Inv, Forks
  <2> QED BY <1>1, <2>1 DEF Inv, Forks
<1>6. Windows'
  <2> SUFFICES ASSUME NEW d \in Copies
               PROVE  /\ phase[d] # "none" => copy[d].base <= Len(history')
                      /\ phase[d] = "loaded" =>
                           \A i \in 1 .. copy[d].base : seen[d][i] = history'[i]
    BY <1>1 DEF Inv, Windows
  <2>1. copy[d].base \in Nat
    BY DEF Inv, TypeOK
  <2>2. /\ phase[d] # "none" => copy[d].base <= Len(history)
        /\ phase[d] = "loaded" => \A i \in 1 .. copy[d].base : seen[d][i] = history[i]
    BY DEF Inv, Windows
  <2>3. Len(history) <= Len(history') /\ \A i \in 1 .. Len(history) : history[i] = history'[i]
    BY <1>2 DEF Prefix
  <2> QED BY <1>3, <2>1, <2>2, <2>3
<1>7. Holder'
  BY <1>1, StoreConstants DEF Holder
<1>8. States'
  BY <1>1, <1>2 DEF Inv, States
<1> QED BY <1>4, <1>5, <1>6, <1>7, <1>8 DEF Inv

LEMMA RollbackStep ==
    ASSUME Inv, TypeOK', NEW c \in Copies, NEW t \in Tasks, Rollback(c, t) PROVE Inv'
<1>1. /\ UNCHANGED <<history, state, phase, copy, seen, torn, made, lagging>>
      /\ reserved' = None /\ ~staged'.open
  BY DEF Rollback, durableVars, copyVars, NoStage
<1>2. Fresh' /\ Forks' /\ Windows' /\ States'
  BY <1>1 DEF Inv, Fresh, Forks, Windows, States
<1>3. Holder'
  BY <1>1, StoreConstants DEF Holder
<1> QED BY <1>2, <1>3 DEF Inv

LEMMA CrashStep ==
    ASSUME Inv, TypeOK', Crash PROVE Inv'
<1>1. /\ UNCHANGED <<history, state, made, lagging>>
      /\ reserved' = None /\ ~staged'.open
      /\ \A d \in Copies : phase'[d] = "none" /\ seen'[d] = <<>>
  BY DEF Crash, durableVars, NoStage
<1>2. Len(<<>>) = 0
  BY EmptySeq
<1>3. Fresh' /\ Forks' /\ Windows' /\ States'
  BY <1>1, <1>2 DEF Inv, Fresh, Forks, Windows, States, Agree
<1>4. Holder'
  BY <1>1, StoreConstants DEF Holder
<1> QED BY <1>3, <1>4 DEF Inv

LEMMA InvStep == Inv /\ [Next]_vars => Inv'
<1> SUFFICES ASSUME Inv, [Next]_vars PROVE Inv'
  OBVIOUS
<1>1. TypeOK'
  BY TypeStep DEF Inv
<1>2. CASE UNCHANGED vars
  BY <1>1, <1>2 DEF vars, durableVars, copyVars, Inv, Fresh, Forks, Windows, Holder, States
<1>3. CASE Next
  BY <1>1, <1>3, GetStateStep, GetControlStep, GetEventsStep, RecordStep, DiscardStep,
     BeginStep, WriteStep, CommitStep, RollbackStep, CrashStep DEF Next
<1> QED BY <1>2, <1>3

(* The state document contains every change of the history beside it and   *)
(* no other, unless a copy that was loaded across a commit has been saved. *)
THEOREM StateStaysNewest == Spec => []StateIsNewest
<1>1. Inv => StateIsNewest
  BY DEF Inv, States, StateIsNewest
<1> QED BY <1>1, InvInit, InvStep, PTL DEF Spec

(* No saved event is lost or replaced: save refuses every copy that has    *)
(* not seen the whole history, or that has gone another way.               *)
THEOREM HistoryOnlyGrows == Spec => NothingLost
<1> DEFINE Lossless ==
      durableVars' # durableVars =>
         /\ Prefix(history, history')
         /\ \E c \in Copies : phase[c] = "loaded" /\ Prefix(history', seen[c])
<1>1. ASSUME Inv, [Next]_vars PROVE [Lossless]_vars
  <2>1. ASSUME NEW c \in Copies, NEW t \in Tasks, Commit(c, t) PROVE Lossless
    <3>1. /\ reserved = <<c, t>> /\ staged.open /\ history' = staged.history
      BY <2>1 DEF Commit
    <3>2. phase[c] = "loaded" /\ Prefix(history, history') /\ Prefix(history', seen[c])
      BY <1>1, <3>1 DEF Inv, Holder
    <3> QED BY <3>2
  <2>2. CASE durableVars' = durableVars
    BY <2>2
  <2>3. CASE Next
    BY <2>1, <2>2, <2>3 DEF Next, GetState, GetControl, GetEvents, Record, Discard, Begin, Write,
       Rollback, Crash
  <2> QED BY <1>1, <2>3
<1>2. Inv /\ [Next]_vars => [Lossless]_vars
  BY <1>1
<1>3. Spec => [][Lossless]_vars
  BY <1>2, InvInit, InvStep, PTL DEF Spec
<1> QED BY <1>3 DEF NothingLost

-----------------------------------------------------------------------------
(* A sum over the calls in flight, without induction: a set has at most    *)
(* number elements, of weight amount together, when no list of distinct    *)
(* elements, with its running totals, says otherwise.                      *)
Tally(n, e, w, p) ==
    /\ \A i, j \in 1 .. n : e[i] = e[j] => i = j
    /\ p[0] = 0
    /\ \A i \in 1 .. n : p[i] = p[i - 1] + w[e[i]]

Within(S, w, number, amount) ==
    \A n \in Nat : \A e \in [1 .. n -> S], p \in [0 .. n -> Int] :
        Tally(n, e, w, p) => n <= number /\ p[n] <= amount

(* The empty list.                                                         *)
LEMMA WithinBounds ==
    ASSUME NEW S, NEW w, NEW number, NEW amount, Within(S, w, number, amount)
    PROVE  0 <= number /\ 0 <= amount
<1> DEFINE e == [i \in 1 .. 0 |-> 0]
           p == [i \in 0 .. 0 |-> 0]
<1>1. 0 \in Nat /\ 1 .. 0 = {} /\ 0 .. 0 = {0}
  OBVIOUS
<1>2. e \in [1 .. 0 -> S] /\ p \in [0 .. 0 -> Int] /\ p[0] = 0
  BY <1>1
<1>3. Tally(0, e, w, p)
  BY <1>1, <1>2 DEF Tally
<1> QED
  BY <1>2, <1>3 DEF Within

LEMMA WithinEmpty ==
    ASSUME NEW w, NEW number \in Nat, NEW amount \in Nat
    PROVE  Within({}, w, number, amount)
<1> SUFFICES ASSUME NEW n \in Nat, NEW e \in [1 .. n -> {}], NEW p \in [0 .. n -> Int],
                    Tally(n, e, w, p)
             PROVE  n <= number /\ p[n] <= amount
  BY DEF Within
<1>1. n = 0
  <2> SUFFICES ASSUME n # 0 PROVE FALSE
    OBVIOUS
  <2>1. 1 \in 1 .. n
    OBVIOUS
  <2> QED
    BY <2>1
<1> QED
  BY <1>1 DEF Tally

(* A smaller set, weighed alike, under looser bounds.                      *)
LEMMA WithinLess ==
    ASSUME NEW S, NEW w, NEW number \in Int, NEW amount \in Int,
           Within(S, w, number, amount),
           NEW T \in SUBSET S, NEW v, \A c \in T : v[c] = w[c],
           NEW more \in Int, NEW higher \in Int, number <= more, amount <= higher
    PROVE  Within(T, v, more, higher)
<1> SUFFICES ASSUME NEW n \in Nat, NEW e \in [1 .. n -> T], NEW p \in [0 .. n -> Int],
                    Tally(n, e, v, p)
             PROVE  n <= more /\ p[n] <= higher
  BY DEF Within
<1>1. e \in [1 .. n -> S] /\ \A i \in 1 .. n : v[e[i]] = w[e[i]]
  OBVIOUS
<1>2. Tally(n, e, w, p)
  BY <1>1 DEF Tally
<1>3. n <= number /\ p[n] <= amount /\ p[n] \in Int
  BY <1>1, <1>2 DEF Within
<1> QED
  BY <1>3

(* One element less: whatever list is left, the element can be put at its  *)
(* end.                                                                    *)
LEMMA WithinWithout ==
    ASSUME NEW S, NEW w, NEW number \in Int, NEW amount \in Int,
           Within(S, w, number, amount), NEW c \in S, w[c] \in Int
    PROVE  Within(S \ {c}, w, number - 1, amount - w[c])
<1> SUFFICES ASSUME NEW n \in Nat, NEW e \in [1 .. n -> S \ {c}], NEW p \in [0 .. n -> Int],
                    Tally(n, e, w, p)
             PROVE  n <= number - 1 /\ p[n] <= amount - w[c]
  BY DEF Within
<1> DEFINE f == [i \in 1 .. n + 1 |-> IF i = n + 1 THEN c ELSE e[i]]
           q == [i \in 0 .. n + 1 |-> IF i = n + 1 THEN p[n] + w[c] ELSE p[i]]
<1>1. n + 1 \in Nat /\ n \in 0 .. n /\ 0 \in 0 .. n /\ n + 1 \in 0 .. n + 1
  OBVIOUS
<1>2. \A i \in 1 .. n : e[i] \in S /\ e[i] # c
  OBVIOUS
<1>3. f \in [1 .. n + 1 -> S] /\ q \in [0 .. n + 1 -> Int]
  BY <1>1, <1>2
<1>4. q[n + 1] = p[n] + w[c] /\ p[n] \in Int
  BY <1>1
<1>5. Tally(n + 1, f, w, q)
  <2>1. \A i, j \in 1 .. n + 1 : f[i] = f[j] => i = j
    BY <1>2 DEF Tally
  <2>2. q[0] = 0
    BY <1>1 DEF Tally
  <2>3. ASSUME NEW i \in 1 .. n + 1 PROVE q[i] = q[i - 1] + w[f[i]]
    <3>1. CASE i = n + 1
      BY <3>1, <1>1
    <3>2. CASE i # n + 1
      <4>1. i \in 1 .. n /\ i - 1 \in 0 .. n /\ i \in 0 .. n
        BY <3>2
      <4>2. q[i] = p[i] /\ q[i - 1] = p[i - 1] /\ f[i] = e[i]
        BY <4>1, <3>2
      <4> QED
        BY <4>1, <4>2 DEF Tally
    <3> QED
      BY <3>1, <3>2
  <2> QED
    BY <2>1, <2>2, <2>3 DEF Tally
<1>6. n + 1 <= number /\ q[n + 1] <= amount
  <2> HIDE DEF f, q
  <2> QED
    BY <1>1, <1>3, <1>5 DEF Within
<1> QED
  BY <1>4, <1>6

(* One element more: taken out of a list, it leaves a list of the others,  *)
(* whose totals are lower from its place on.                               *)
LEMMA WithinAdded ==
    ASSUME NEW S, NEW w, NEW number \in Int, NEW amount \in Int,
           Within(S, w, number, amount), NEW c, w[c] \in Nat, \A x \in S : w[x] \in Nat
    PROVE  Within(S \cup {c}, w, number + 1, amount + w[c])
<1> SUFFICES ASSUME NEW n \in Nat, NEW e \in [1 .. n -> S \cup {c}], NEW p \in [0 .. n -> Int],
                    Tally(n, e, w, p)
             PROVE  n <= number + 1 /\ p[n] <= amount + w[c]
  BY DEF Within
<1>0. p[n] \in Int
  OBVIOUS
<1>1. CASE \A i \in 1 .. n : e[i] # c
  <2>1. e \in [1 .. n -> S]
    BY <1>1
  <2>2. n <= number /\ p[n] <= amount
    BY <2>1 DEF Within
  <2> QED
    BY <2>2, <1>0
<1>2. ASSUME NEW j \in 1 .. n, e[j] = c PROVE n <= number + 1 /\ p[n] <= amount + w[c]
  <2> DEFINE f == [i \in 1 .. n - 1 |-> IF i < j THEN e[i] ELSE e[i + 1]]
             q == [i \in 0 .. n - 1 |-> IF i < j THEN p[i] ELSE p[i + 1] - w[c]]
  <2>1. n - 1 \in Nat /\ n - 1 \in 0 .. n - 1 /\ 0 \in 0 .. n - 1
    OBVIOUS
  <2>2. \A i \in 1 .. n : i # j => e[i] \in S
    BY <1>2 DEF Tally
  <2>3. p[j] = p[j - 1] + w[c] /\ p[j] \in Int /\ p[j - 1] \in Int
    BY <1>2 DEF Tally
  <2>4. f \in [1 .. n - 1 -> S]
    BY <2>2
  <2>5. q \in [0 .. n - 1 -> Int]
    OBVIOUS
  <2>6. q[n - 1] = p[n] - w[c]
    <3>1. CASE j = n
      BY <3>1, <2>1, <2>3
    <3>2. CASE j # n
      BY <3>2, <2>1
    <3> QED
      BY <3>1, <3>2
  <2>7. Tally(n - 1, f, w, q)
    <3>1. \A i, k \in 1 .. n - 1 : f[i] = f[k] => i = k
      <4> SUFFICES ASSUME NEW i \in 1 .. n - 1, NEW k \in 1 .. n - 1, f[i] = f[k]
                   PROVE  i = k
        OBVIOUS
      <4> DEFINE a == IF i < j THEN i ELSE i + 1
                 b == IF k < j THEN k ELSE k + 1
      <4>1. a \in 1 .. n /\ b \in 1 .. n /\ f[i] = e[a] /\ f[k] = e[b]
        OBVIOUS
      <4>2. a = b
        BY <4>1 DEF Tally
      <4> QED
        BY <4>2
    <3>2. q[0] = 0
      BY <2>1 DEF Tally
    <3>3. ASSUME NEW i \in 1 .. n - 1 PROVE q[i] = q[i - 1] + w[f[i]]
      <4>1. i \in 0 .. n - 1 /\ i - 1 \in 0 .. n - 1 /\ i \in 1 .. n /\ i + 1 \in 1 .. n
        OBVIOUS
      <4>2. p[i] = p[i - 1] + w[e[i]] /\ p[i + 1] = p[i] + w[e[i + 1]]
        BY <4>1, SMTT(30) DEF Tally
      <4>3. p[i - 1] \in Int /\ p[i] \in Int /\ p[i + 1] \in Int
        BY <4>1
      <4>4. CASE i < j
        <5>1. q[i] = p[i] /\ q[i - 1] = p[i - 1] /\ f[i] = e[i]
          BY <4>1, <4>4
        <5> QED
          BY <4>2, <5>1
      <4>5. CASE i = j
        <5>1. q[i] = p[i + 1] - w[c] /\ q[i - 1] = p[i - 1] /\ f[i] = e[i + 1]
          BY <4>1, <4>5
        <5>2. w[e[i + 1]] \in Int
          BY <4>1, <4>5, <2>2
        <5>3. w[f[i]] = w[e[i + 1]] /\ w[c] \in Int
          <6>1. w[f[i]] = w[e[i + 1]]
            BY <5>1, Zenon
          <6>2. w[c] \in Int
            OBVIOUS
          <6> QED
            BY <6>1, <6>2
        <5>4. p[i] = p[i - 1] + w[c]
          BY <4>5, <2>3
        <5>5. p[i + 1] = p[i] + w[e[i + 1]]
          BY <4>2, Zenon
        <5>6. p[i + 1] - w[c] = p[i - 1] + w[e[i + 1]]
          <6>1. \A x, y, z \in Int : (z + y + x) - y = z + x
            OBVIOUS
          <6>2. p[i + 1] = p[i - 1] + w[c] + w[e[i + 1]]
            BY <5>4, <5>5, Zenon
          <6>3. p[i - 1] \in Int /\ w[c] \in Int /\ w[e[i + 1]] \in Int
            BY <4>3, <5>2, <5>3, Zenon
          <6>4. (p[i - 1] + w[c] + w[e[i + 1]]) - w[c] = p[i - 1] + w[e[i + 1]]
            BY <6>1, <6>3, Zenon
          <6> QED
            BY <6>2, <6>4, Zenon
        <5> QED
          BY <5>1, <5>3, <5>6, Zenon
      <4>6. CASE i > j
        <5>1. q[i] = p[i + 1] - w[c] /\ q[i - 1] = p[i] - w[c] /\ f[i] = e[i + 1]
          BY <4>1, <4>6
        <5>2. w[e[i + 1]] \in Int
          BY <4>1, <4>6, <2>2
        <5>3. w[f[i]] = w[e[i + 1]] /\ w[c] \in Int
          <6>1. w[f[i]] = w[e[i + 1]]
            BY <5>1, Zenon
          <6>2. w[c] \in Int
            OBVIOUS
          <6> QED
            BY <6>1, <6>2
        <5>4. p[i + 1] - w[c] = p[i] - w[c] + w[e[i + 1]]
          BY <4>2, <4>3, <5>2, <5>3, SMTT(30)
        <5> QED
          BY <5>1, <5>3, <5>4, Zenon
      <4> QED
        BY <4>4, <4>5, <4>6
    <3> QED
      BY <3>1, <3>2, <3>3 DEF Tally
  <2>8. n - 1 <= number /\ q[n - 1] <= amount
    <3> HIDE DEF f, q
    <3> QED
      BY <2>1, <2>4, <2>5, <2>7 DEF Within
  <2> QED
    BY <2>6, <2>8, <1>0
<1> QED
  BY <1>1, <1>2

-----------------------------------------------------------------------------
(* The budget. Its reservations are of two kinds: of calls whose attempt   *)
(* is counted and not yet saved (Waiting), and of all whose attempt is not *)
(* settled (InFlight).                                                     *)
CallRecord == [pc : {"idle", "route", "reserving", "asking", "settling", "unpriced", "failing"},
               at : Nat \ {0}, repair : BOOLEAN, bypass : BOOLEAN]

CallsTyped ==
    /\ call \in [Calls -> CallRecord]
    /\ \A c \in Calls : call[c].pc \notin {"idle", "route"} => call[c].at <= Len(Route)

BudgetTyped ==
    /\ memory \in Budget /\ stored \in Budget
    /\ sent \in Nat /\ spent \in Int /\ excess \in Nat

Waiting == {c \in Calls : At(c, "reserving")}
InFlight == {c \in Calls : At(c, "reserving") \/ At(c, "asking")}
Held == [c \in Calls |-> IF call[c].at \in 1 .. Len(Route) THEN Reservation[Provider(c)] ELSE 0]

Reserves ==
    /\ Within(InFlight, Held, memory.attempts, memory.outstanding)
    /\ Within(Waiting, Held, memory.attempts - sent, Total(memory) + excess - spent)
    /\ Within(Waiting, Held, memory.attempts - sent, MaxCost + excess - spent)
    /\ memory.attempts <= MaxAttempts

BudgetInv == CallsTyped /\ BudgetTyped /\ Reserves /\ WithinBudget

LEMMA RouteTyped ==
    ASSUME NEW i \in Nat \ {0}, i <= Len(Route)
    PROVE  Reservation[Route[i]] \in Nat /\ i \in 1 .. Len(Route)
BY PoolConstants

LEMMA HeldTyped ==
    ASSUME CallsTyped
    PROVE  /\ \A c \in Calls : Held[c] \in Nat
           /\ \A c \in InFlight : Held[c] = Reservation[Provider(c)]
<1>1. ASSUME NEW c \in Calls PROVE Held[c] \in Nat
  <2>1. call[c].at \in Nat \ {0}
    BY DEF CallsTyped, CallRecord
  <2>2. CASE call[c].at \in 1 .. Len(Route)
    <3>1. call[c].at <= Len(Route)
      BY <2>2, PoolConstants
    <3> QED
      BY <2>1, <2>2, <3>1, RouteTyped DEF Held, Provider
  <2>3. CASE call[c].at \notin 1 .. Len(Route)
    BY <2>3 DEF Held
  <2> QED
    BY <2>2, <2>3
<1>2. ASSUME NEW c \in InFlight PROVE Held[c] = Reservation[Provider(c)]
  <2>1. c \in Calls /\ call[c].at \in Nat \ {0} /\ call[c].at <= Len(Route)
    BY DEF InFlight, At, CallsTyped, CallRecord
  <2>2. call[c].at \in 1 .. Len(Route)
    BY <2>1, RouteTyped
  <2> QED
    BY <2>1, <2>2 DEF Held
<1> QED
  BY <1>1, <1>2

(* What the step of one call changes in the two sets and in the weights.   *)
LEMMA Moves ==
    ASSUME CallsTyped, NEW c \in Calls, NEW r \in CallRecord, call' = [call EXCEPT ![c] = r],
           r.pc \notin {"idle", "route"} => r.at <= Len(Route)
    PROVE  /\ CallsTyped'
           /\ Waiting' = IF r.pc = "reserving" THEN Waiting \cup {c} ELSE Waiting \ {c}
           /\ InFlight' = IF r.pc \in {"reserving", "asking"} THEN InFlight \cup {c} ELSE InFlight \ {c}
           /\ \A d \in Calls : d # c \/ r.at = call[c].at => Held'[d] = Held[d]
<1>1. call \in [Calls -> CallRecord] /\ call'[c] = r /\ \A d \in Calls : d # c => call'[d] = call[d]
  BY DEF CallsTyped
<1>2. CallsTyped'
  BY <1>1 DEF CallsTyped
<1>3. Waiting' = IF r.pc = "reserving" THEN Waiting \cup {c} ELSE Waiting \ {c}
  BY <1>1 DEF Waiting, At
<1>4. InFlight' = IF r.pc \in {"reserving", "asking"} THEN InFlight \cup {c} ELSE InFlight \ {c}
  BY <1>1 DEF InFlight, At
<1>5. ASSUME NEW d \in Calls, d # c \/ r.at = call[c].at PROVE Held'[d] = Held[d]
  BY <1>1, <1>5 DEF Held, Provider
<1> QED
  BY <1>2, <1>3, <1>4, <1>5

(* A step that lets calls go, and saves the budget or does nothing to it.  *)
LEMMA Lets ==
    ASSUME BudgetInv, CallsTyped', UNCHANGED <<memory, historyVars>>,
           stored' = stored \/ stored' = memory,
           Waiting' \subseteq Waiting, InFlight' \subseteq InFlight,
           \A d \in InFlight' : Held'[d] = Held[d]
    PROVE  BudgetInv'
<1> DEFINE left == memory.attempts - sent
           margin == Total(memory) + excess - spent
           room == MaxCost + excess - spent
<1>1. /\ memory.attempts \in Nat /\ memory.outstanding \in Nat /\ Total(memory) \in Nat
      /\ left \in Int /\ margin \in Int /\ room \in Int
      /\ UNCHANGED <<memory, sent, spent, excess>>
  BY PoolConstants DEF BudgetInv, BudgetTyped, Budget, Total, historyVars
<1>2. BudgetTyped'
  BY <1>1 DEF BudgetInv, BudgetTyped
<1>3. Waiting' \subseteq InFlight'
  BY DEF Waiting, InFlight
<1>4. /\ Within(InFlight, Held, memory.attempts, memory.outstanding)
      /\ Within(Waiting, Held, left, margin) /\ Within(Waiting, Held, left, room)
  BY DEF BudgetInv, Reserves
<1>5. 0 <= left /\ 0 <= margin
  <2> HIDE DEF left, margin, room
  <2> QED
    BY <1>4, WithinBounds, Zenon
<1>6. Within(InFlight', Held', memory.attempts, memory.outstanding)
  BY <1>1, <1>4, WithinLess
<1>7. Within(Waiting', Held', left, margin) /\ Within(Waiting', Held', left, room)
  <2> HIDE DEF left, margin, room
  <2> QED
    BY <1>1, <1>3, <1>4, WithinLess
<1>8. Reserves'
  <2>1. memory'.attempts - sent' = left /\ Total(memory)' + excess' - spent' = margin
        /\ MaxCost + excess' - spent' = room
    BY <1>1 DEF Total
  <2>2. memory'.attempts <= MaxAttempts
    BY <1>1 DEF BudgetInv, Reserves
  <2> HIDE DEF left, margin, room
  <2> QED
    BY <1>1, <1>6, <1>7, <2>1, <2>2 DEF Reserves
<1>9. WithinBudget'
  <2>1. CASE stored' = stored
    BY <1>1, <2>1 DEF BudgetInv, WithinBudget, AttemptsBounded, SpendBounded, Total
  <2>2. CASE stored' = memory
    BY <1>1, <1>5, <2>2 DEF BudgetInv, BudgetTyped, WithinBudget, AttemptsBounded, SpendBounded, Total, Reserves
  <2> QED
    BY <2>1, <2>2
<1> QED
  BY <1>2, <1>8, <1>9 DEF BudgetInv

LEMMA Subsets == Waiting \subseteq InFlight /\ InFlight \subseteq Calls
BY DEF Waiting, InFlight

(* The actions of one call, as moves of its record.                        *)
LEMMA Went ==
    ASSUME CallsTyped, NEW c \in Calls, NEW pc, Goes(c, pc)
    PROVE  call' = [call EXCEPT ![c] = [call[c] EXCEPT !.pc = pc]]
BY DEF CallsTyped, CallRecord, Goes

LEMMA PassedOver ==
    ASSUME CallsTyped, NEW c \in Calls
    PROVE  Passed(c) = [call EXCEPT ![c] = [pc |-> "route", at |-> call[c].at + 1, repair |-> FALSE,
                                            bypass |-> call[c].bypass]]
<1> DEFINE a == [call EXCEPT ![c] = [call[c] EXCEPT !.at = @ + 1]]
           b == [a EXCEPT ![c] = [a[c] EXCEPT !.pc = "route"]]
           d == [b EXCEPT ![c] = [b[c] EXCEPT !.repair = FALSE]]
<1>1. Passed(c) = d
  BY Zenon DEF Passed
<1>2. call \in [Calls -> CallRecord] /\ call[c] \in CallRecord
  BY DEF CallsTyped
<1>3. a[c] = [call[c] EXCEPT !.at = @ + 1] /\ a \in [Calls -> CallRecord]
  BY <1>2 DEF CallRecord
<1>4. b[c] = [a[c] EXCEPT !.pc = "route"] /\ b \in [Calls -> CallRecord]
  BY <1>3 DEF CallRecord
<1>5. d[c] = [b[c] EXCEPT !.repair = FALSE] /\ d \in [Calls -> CallRecord]
  <2>1. b[c] \in CallRecord
    BY <1>4
  <2>2. [b[c] EXCEPT !.repair = FALSE] \in CallRecord
    BY <2>1 DEF CallRecord
  <2> HIDE DEF b
  <2> QED
    BY <1>4, <2>2
<1>6. \A x \in Calls : x # c => d[x] = call[x]
  BY <1>2
<1>7. d[c] = [pc |-> "route", at |-> call[c].at + 1, repair |-> FALSE, bypass |-> call[c].bypass]
  BY <1>2, <1>3, <1>4, <1>5 DEF CallRecord
<1> HIDE DEF a, b, d
<1> QED
  BY <1>1, <1>2, <1>5, <1>6, <1>7

(* A call that moves to where it holds no reservation, while the budget is *)
(* saved or left alone.                                                    *)
LEMMA LetsGo ==
    ASSUME BudgetInv, NEW c \in Calls, NEW r \in CallRecord, r.pc \in {"idle", "route"},
           call' = [call EXCEPT ![c] = r], UNCHANGED <<memory, historyVars>>,
           stored' = stored \/ stored' = memory
    PROVE  BudgetInv'
<1>1. CallsTyped /\ r.pc \notin {"reserving", "asking"}
  BY DEF BudgetInv
<1>2. /\ CallsTyped' /\ Waiting' = Waiting \ {c} /\ InFlight' = InFlight \ {c}
      /\ \A d \in Calls : d # c => Held'[d] = Held[d]
  BY <1>1, Moves
<1>3. \A d \in InFlight' : Held'[d] = Held[d]
  BY <1>2 DEF InFlight
<1> QED
  BY <1>2, <1>3, Lets

LEMMA Ends ==
    ASSUME BudgetInv, NEW c \in Calls, call' = [call EXCEPT ![c] = Idle] \/ call' = Passed(c),
           UNCHANGED <<memory, historyVars>>, stored' = stored \/ stored' = memory
    PROVE  BudgetInv'
<1>1. CallsTyped /\ call[c] \in CallRecord
  BY DEF BudgetInv, CallsTyped
<1>2. CASE call' = [call EXCEPT ![c] = Idle]
  <2>1. Idle \in CallRecord /\ Idle.pc = "idle"
    BY DEF Idle, CallRecord
  <2> QED
    BY <1>2, <2>1, LetsGo
<1>3. CASE call' = Passed(c)
  <2> DEFINE r == [pc |-> "route", at |-> call[c].at + 1, repair |-> FALSE, bypass |-> call[c].bypass]
  <2>1. r \in CallRecord /\ r.pc = "route"
    BY <1>1 DEF CallRecord
  <2>2. call' = [call EXCEPT ![c] = r]
    BY <1>1, <1>3, PassedOver
  <2> HIDE DEF r
  <2> QED
    BY <2>1, <2>2, LetsGo
<1> QED
  BY <1>2, <1>3

LEMMA Reserving ==
    ASSUME NEW b \in Budget, NEW w \in Nat
    PROVE  LET r == [b EXCEPT !.attempts = @ + 1, !.outstanding = @ + w] IN
           /\ r \in Budget /\ r.attempts = b.attempts + 1
           /\ r.outstanding = b.outstanding + w /\ r.committed = b.committed
<1>1. b = [attempts |-> b.attempts, committed |-> b.committed, outstanding |-> b.outstanding]
      /\ b.attempts \in Nat /\ b.committed \in Nat /\ b.outstanding \in Nat
  BY DEF Budget
<1>2. [b EXCEPT !.attempts = @ + 1, !.outstanding = @ + w]
      = [attempts |-> b.attempts + 1, committed |-> b.committed, outstanding |-> b.outstanding + w]
  <2> DEFINE x == [b EXCEPT !.attempts = b.attempts + 1]
  <2>1. x = [attempts |-> b.attempts + 1, committed |-> b.committed, outstanding |-> b.outstanding]
    BY DEF Budget
  <2>2. [x EXCEPT !.outstanding = x.outstanding + w]
        = [attempts |-> b.attempts + 1, committed |-> b.committed, outstanding |-> b.outstanding + w]
    <3> HIDE DEF x
    <3>1. x.outstanding = b.outstanding
      BY <2>1
    <3> QED
      BY <2>1, <3>1
  <2>3. [b EXCEPT !.attempts = @ + 1, !.outstanding = @ + w] = [x EXCEPT !.outstanding = x.outstanding + w]
    OBVIOUS
  <2> QED
    BY <2>2, <2>3
<1> QED
  BY <1>1, <1>2 DEF Budget

(* authorize: the reservation is counted before anything is sent.          *)
LEMMA AuthorizeKeeps ==
    ASSUME BudgetInv, NEW c \in Calls, Authorize(c) PROVE BudgetInv'
<1> DEFINE w == Reservation[Provider(c)]
           r == [call[c] EXCEPT !.pc = "reserving"]
           left == memory.attempts - sent
           margin == Total(memory) + excess - spent
<1>1. CallsTyped /\ call[c] \in CallRecord /\ call[c].at <= Len(Route) /\ At(c, "route")
  BY DEF Authorize, MayAsk, BudgetInv, CallsTyped
<1>2. w \in Nat /\ call[c].at \in 1 .. Len(Route)
  BY <1>1, RouteTyped DEF Provider, CallRecord
<1>3. r \in CallRecord /\ r.pc = "reserving" /\ r.at = call[c].at
  BY <1>1 DEF CallRecord
<1>4. call' = [call EXCEPT ![c] = r]
  BY <1>1, Went DEF Authorize
<1>5. /\ CallsTyped' /\ Waiting' = Waiting \cup {c} /\ InFlight' = InFlight \cup {c}
      /\ \A d \in Calls : Held'[d] = Held[d]
  <2>1. CallsTyped /\ (r.pc \notin {"idle", "route"} => r.at <= Len(Route))
    BY <1>1, <1>3
  <2> HIDE DEF r
  <2>2. /\ CallsTyped'
        /\ Waiting' = IF r.pc = "reserving" THEN Waiting \cup {c} ELSE Waiting \ {c}
        /\ InFlight' = IF r.pc \in {"reserving", "asking"} THEN InFlight \cup {c} ELSE InFlight \ {c}
        /\ \A d \in Calls : d # c \/ r.at = call[c].at => Held'[d] = Held[d]
    BY <1>3, <1>4, <2>1, Moves
  <2> QED
    BY <1>3, <2>2
<1>6. c \notin Waiting /\ c \notin InFlight
  BY <1>1 DEF Waiting, InFlight, At
<1>7. Held[c] = w /\ \A d \in Calls : Held[d] \in Nat
  BY <1>1, <1>2, HeldTyped DEF Held
<1>8. /\ memory \in Budget /\ stored \in Budget /\ sent \in Nat /\ spent \in Int /\ excess \in Nat
      /\ memory' = [memory EXCEPT !.attempts = @ + 1, !.outstanding = @ + w]
      /\ UNCHANGED <<stored, sent, spent, excess>>
  BY DEF BudgetInv, BudgetTyped, Authorize, historyVars
<1>9. /\ memory' \in Budget /\ memory'.attempts = memory.attempts + 1
      /\ memory'.outstanding = memory.outstanding + w /\ memory'.committed = memory.committed
      /\ Total(memory)' = Total(memory) + w /\ Total(memory) \in Nat
      /\ memory.attempts \in Nat /\ memory.outstanding \in Nat
      /\ left \in Int /\ margin \in Int
  <2> HIDE DEF w
  <2>1. /\ memory' \in Budget /\ memory'.attempts = memory.attempts + 1
        /\ memory'.outstanding = memory.outstanding + w /\ memory'.committed = memory.committed
    BY <1>2, <1>8, Reserving
  <2>2. memory.attempts \in Nat /\ memory.outstanding \in Nat /\ memory.committed \in Nat
    BY <1>8 DEF Budget
  <2>3. Total(memory)' = Total(memory) + w /\ Total(memory) \in Nat
    BY <1>2, <2>1, <2>2 DEF Total
  <2> QED
    BY <1>8, <2>1, <2>2, <2>3
<1>10. Total(memory) + w <= MaxCost /\ memory.attempts < MaxAttempts
  BY DEF Authorize, Affordable
<1>11. /\ Within(InFlight, Held, memory.attempts, memory.outstanding)
       /\ Within(Waiting, Held, left, margin)
  BY DEF BudgetInv, Reserves
<1>12. Within(InFlight', Held', memory'.attempts, memory'.outstanding)
  <2>1. Within(InFlight \cup {c}, Held, memory.attempts + 1, memory.outstanding + w)
    <3> DEFINE k == memory.attempts
               o == memory.outstanding
    <3> HIDE DEF w, k, o
    <3>1. \A d \in InFlight : Held[d] \in Nat
      BY <1>7, Subsets
    <3>2. Held[c] \in Nat
      BY <1>7
    <3>3. k \in Int /\ o \in Int /\ Within(InFlight, Held, k, o)
      BY <1>9, <1>11 DEF k, o
    <3>4. Within(InFlight \cup {c}, Held, k + 1, o + Held[c])
      BY <3>1, <3>2, <3>3, WithinAdded
    <3> QED
      BY <1>7, <3>4 DEF k, o
  <2> HIDE DEF w, r
  <2>2. memory.attempts + 1 \in Int /\ memory.outstanding + w \in Int
    BY <1>2, <1>9
  <2>3. \A d \in InFlight \cup {c} : Held'[d] = Held[d]
    BY <1>5 DEF InFlight
  <2>4. Within(InFlight', Held', memory.attempts + 1, memory.outstanding + w)
    BY <1>5, <2>1, <2>2, <2>3, WithinLess
  <2> QED
    BY <1>9, <2>4
<1>13. /\ Within(Waiting', Held', memory'.attempts - sent', Total(memory)' + excess' - spent')
       /\ Within(Waiting', Held', memory'.attempts - sent', MaxCost + excess' - spent')
  <2>1. Within(Waiting \cup {c}, Held, left + 1, margin + w)
    <3> HIDE DEF w, left, margin
    <3>1. \A d \in Waiting : Held[d] \in Nat
      BY <1>7, Subsets
    <3> QED
      BY <1>2, <1>7, <1>9, <1>11, <3>1, WithinAdded
  <2>2. \A d \in Waiting \cup {c} : Held'[d] = Held[d]
    BY <1>5 DEF Waiting
  <2>3. /\ memory'.attempts - sent' = left + 1
        /\ Total(memory)' + excess' - spent' = margin + w
        /\ margin + w <= MaxCost + excess' - spent' /\ MaxCost + excess' - spent' \in Int
    <3> HIDE DEF w
    <3>1. memory'.attempts - sent' = left + 1
      BY <1>8, <1>9
    <3>2. Total(memory)' + excess' - spent' = margin + w
      BY <1>2, <1>8, <1>9
    <3>3. MaxCost + excess' - spent' \in Int /\ MaxCost + excess' - spent' = MaxCost + excess - spent
      BY <1>8, PoolConstants
    <3>4. margin + w <= MaxCost + excess - spent
      BY <1>2, <1>8, <1>9, <1>10, PoolConstants
    <3> QED
      BY <3>1, <3>2, <3>3, <3>4
  <2> HIDE DEF w, left, margin, r
  <2>4. left + 1 \in Int /\ margin + w \in Int
    BY <1>2, <1>9
  <2>5. Within(Waiting', Held', left + 1, margin + w)
    BY <1>5, <2>1, <2>2, <2>4, WithinLess
  <2>6. Within(Waiting', Held', left + 1, MaxCost + excess' - spent')
    BY <1>5, <2>1, <2>2, <2>3, <2>4, WithinLess
  <2> QED
    BY <2>3, <2>5, <2>6
<1>14. Reserves'
  <2>1. memory'.attempts <= MaxAttempts
    BY <1>9, <1>10, PoolConstants
  <2> QED
    BY <1>12, <1>13, <2>1 DEF Reserves
<1>15. BudgetTyped' /\ WithinBudget'
  <2>1. BudgetTyped'
    BY <1>8, <1>9 DEF BudgetTyped
  <2>2. WithinBudget'
    BY <1>8 DEF BudgetInv, WithinBudget, AttemptsBounded, SpendBounded, Total
  <2> QED
    BY <2>1, <2>2
<1> QED
  BY <1>5, <1>14, <1>15 DEF BudgetInv

(* What both kinds of bound say at once.                                   *)
LEMMA Bounds ==
    ASSUME BudgetInv
    PROVE  /\ memory \in Budget /\ stored \in Budget
           /\ memory.attempts \in Nat /\ memory.committed \in Nat /\ memory.outstanding \in Nat
           /\ sent \in Nat /\ spent \in Int /\ excess \in Nat /\ Total(memory) \in Nat
           /\ sent <= memory.attempts /\ spent <= Total(memory) + excess /\ spent <= MaxCost + excess
<1> DEFINE left == memory.attempts - sent
           margin == Total(memory) + excess - spent
           room == MaxCost + excess - spent
<1>1. /\ memory \in Budget /\ stored \in Budget
      /\ memory.attempts \in Nat /\ memory.committed \in Nat /\ memory.outstanding \in Nat
      /\ sent \in Nat /\ spent \in Int /\ excess \in Nat /\ Total(memory) \in Nat
  BY DEF BudgetInv, BudgetTyped, Budget, Total
<1>2. 0 <= left /\ 0 <= margin /\ 0 <= room
  <2>1. Within(Waiting, Held, left, margin) /\ Within(Waiting, Held, left, room)
    BY DEF BudgetInv, Reserves
  <2> HIDE DEF left, margin, room
  <2> QED
    BY <2>1, WithinBounds, Zenon
<1> QED
  BY <1>1, <1>2, PoolConstants

LEMMA Margins ==
    ASSUME BudgetInv
    PROVE  /\ memory.attempts - sent \in Int /\ Total(memory) + excess - spent \in Int
           /\ MaxCost + excess - spent \in Int /\ MaxCost \in Nat
<1>1. /\ memory.attempts \in Nat /\ Total(memory) \in Nat
      /\ sent \in Nat /\ spent \in Int /\ excess \in Nat
  BY Bounds
<1> QED
  BY <1>1, PoolConstants

(* The save before the attempt: what was waiting is now durable and spent. *)
LEMMA ReservedKeeps ==
    ASSUME BudgetInv, NEW c \in Calls, Reserved(c) PROVE BudgetInv'
<1> DEFINE w == Held[c]
           r == [call[c] EXCEPT !.pc = "asking"]
           left == memory.attempts - sent
           margin == Total(memory) + excess - spent
           room == MaxCost + excess - spent
<1>1. CallsTyped /\ call[c] \in CallRecord /\ At(c, "reserving") /\ call[c].at <= Len(Route)
  BY DEF Reserved, BudgetInv, CallsTyped, At
<1>2. c \in Waiting /\ c \in InFlight
  BY <1>1 DEF Waiting, InFlight
<1>3. w \in Nat /\ w = Reservation[Provider(c)]
  BY <1>1, <1>2, HeldTyped
<1>4. r \in CallRecord /\ r.pc = "asking" /\ r.at = call[c].at
  BY <1>1 DEF CallRecord
<1>5. call' = [call EXCEPT ![c] = r]
  BY <1>1, Went DEF Reserved
<1>6. /\ CallsTyped' /\ Waiting' = Waiting \ {c} /\ InFlight' = InFlight
      /\ \A d \in Calls : Held'[d] = Held[d]
  <2>1. r.pc \notin {"idle", "route"} => r.at <= Len(Route)
    BY <1>1, <1>4
  <2> HIDE DEF r
  <2>2. /\ CallsTyped'
        /\ Waiting' = IF r.pc = "reserving" THEN Waiting \cup {c} ELSE Waiting \ {c}
        /\ InFlight' = IF r.pc \in {"reserving", "asking"} THEN InFlight \cup {c} ELSE InFlight \ {c}
        /\ \A d \in Calls : d # c \/ r.at = call[c].at => Held'[d] = Held[d]
    BY <1>1, <1>4, <1>5, <2>1, Moves
  <2> QED
    BY <1>2, <1>4, <2>2
<1>7. memory' = memory /\ stored' = memory /\ sent' = sent + 1 /\ spent' = spent + w /\ excess' = excess
  BY <1>3 DEF Reserved, Saved
<1>8. /\ Within(InFlight, Held, memory.attempts, memory.outstanding)
      /\ Within(Waiting, Held, left, margin) /\ Within(Waiting, Held, left, room)
  BY DEF BudgetInv, Reserves
<1>9. left \in Int /\ margin \in Int /\ room \in Int
  BY Margins, Zenon
<1>10. /\ Within(Waiting \ {c}, Held, left - 1, margin - w)
       /\ Within(Waiting \ {c}, Held, left - 1, room - w)
  <2>1. Held[c] \in Int
    BY <1>3
  <2> HIDE DEF left, margin, room
  <2> QED
    BY <1>2, <1>8, <1>9, <2>1, WithinWithout
<1>11. 0 <= left - 1 /\ 0 <= margin - w /\ 0 <= room - w
  <2> HIDE DEF left, margin, room, w
  <2> QED
    BY <1>10, WithinBounds, Zenon
<1>12. /\ memory'.attempts - sent' = left - 1
       /\ Total(memory)' + excess' - spent' = margin - w
       /\ MaxCost + excess' - spent' = room - w
  <2> HIDE DEF w
  <2>1. Total(memory)' = Total(memory)
    BY <1>7 DEF Total
  <2>2. memory.attempts \in Nat /\ Total(memory) \in Nat /\ sent \in Nat /\ spent \in Int /\ excess \in Nat
    BY Bounds
  <2>3. memory'.attempts - sent' = left - 1
    BY <1>7, <2>2
  <2>4. Total(memory)' + excess' - spent' = Total(memory) + excess - (spent + w)
    BY <1>7, <2>1
  <2>5. margin - w = Total(memory) + excess - (spent + w)
    BY <1>3, <2>2
  <2>6. MaxCost + excess' - spent' = MaxCost + excess - (spent + w)
    BY <1>7
  <2>7. room - w = MaxCost + excess - (spent + w)
    BY <1>3, <2>2, PoolConstants
  <2> QED
    BY <2>3, <2>4, <2>5, <2>6, <2>7
<1>13. Reserves'
  <2>1. Within(InFlight', Held', memory.attempts, memory.outstanding)
    BY <1>6, <1>8, Bounds, Subsets, WithinLess
  <2>2. Within(Waiting', Held', left - 1, margin - w) /\ Within(Waiting', Held', left - 1, room - w)
    <3>1. \A d \in Waiting \ {c} : Held'[d] = Held[d]
      BY <1>6, Subsets
    <3> HIDE DEF left, margin, room, w
    <3>2. left - 1 \in Int /\ margin - w \in Int /\ room - w \in Int
      BY <1>3, <1>9
    <3> QED
      BY <1>6, <1>10, <3>1, <3>2, WithinLess
  <2>3. memory'.attempts <= MaxAttempts
    BY <1>7 DEF BudgetInv, Reserves
  <2> HIDE DEF left, margin, room, w
  <2> QED
    BY <1>7, <1>12, <2>1, <2>2, <2>3 DEF Reserves
<1>14. BudgetTyped'
  <2> HIDE DEF w
  <2> QED
    BY <1>3, <1>7, Bounds DEF BudgetTyped
<1>15. WithinBudget'
  <2>1. sent' <= stored'.attempts /\ stored'.attempts <= MaxAttempts
    BY <1>7, <1>11, Bounds DEF BudgetInv, Reserves
  <2>2. spent' <= Total(stored)' + excess' /\ spent' <= MaxCost + excess'
    <3> HIDE DEF w
    <3>1. Total(stored)' = Total(memory)
      BY <1>7 DEF Total
    <3>2. Total(memory) \in Nat /\ spent \in Int /\ excess \in Nat /\ MaxCost \in Nat
      BY Bounds, Margins
    <3>3. spent + w <= Total(memory) + excess /\ spent + w <= MaxCost + excess
      BY <1>3, <1>11, <3>2
    <3> QED
      BY <1>7, <3>1, <3>3
  <2> QED
    BY <2>1, <2>2 DEF WithinBudget, AttemptsBounded, SpendBounded
<1> QED
  BY <1>6, <1>13, <1>14, <1>15 DEF BudgetInv

(* close(): a reservation is replaced by what was charged, over by extra.  *)
LEMMA CloseKeeps ==
    ASSUME BudgetInv, NEW c \in Calls, At(c, "asking"), NEW actual \in Nat, NEW pc \in {"settling", "unpriced", "failing"},
           Goes(c, pc), memory' = Closed(c, actual), UNCHANGED <<stored, sent>>,
           NEW extra \in Nat, actual <= Reservation[Provider(c)] + extra,
           excess' = excess + extra,
           \/ spent' = spent - Reservation[Provider(c)] + actual
           \/ (spent' = spent /\ actual = Reservation[Provider(c)])
    PROVE  BudgetInv'
<1> DEFINE w == Held[c]
           r == [call[c] EXCEPT !.pc = pc]
           left == memory.attempts - sent
           margin == Total(memory) + excess - spent
           room == MaxCost + excess - spent
<1>1. CallsTyped /\ call[c] \in CallRecord /\ call[c].at <= Len(Route)
  BY DEF BudgetInv, CallsTyped, At
<1>2. c \notin Waiting /\ c \in InFlight
  BY <1>1 DEF Waiting, InFlight, At
<1>3. w \in Nat /\ w = Reservation[Provider(c)]
  BY <1>1, <1>2, HeldTyped
<1>4. r \in CallRecord /\ r.pc = pc /\ r.at = call[c].at
  BY <1>1 DEF CallRecord
<1>5. call' = [call EXCEPT ![c] = r]
  BY <1>1, Went
<1>6. /\ CallsTyped' /\ Waiting' = Waiting /\ InFlight' = InFlight \ {c}
      /\ \A d \in Calls : Held'[d] = Held[d]
  <2>1. r.pc \notin {"idle", "route"} => r.at <= Len(Route)
    BY <1>1, <1>4
  <2> HIDE DEF r
  <2>2. /\ CallsTyped'
        /\ Waiting' = IF r.pc = "reserving" THEN Waiting \cup {c} ELSE Waiting \ {c}
        /\ InFlight' = IF r.pc \in {"reserving", "asking"} THEN InFlight \cup {c} ELSE InFlight \ {c}
        /\ \A d \in Calls : d # c \/ r.at = call[c].at => Held'[d] = Held[d]
    BY <1>1, <1>4, <1>5, <2>1, Moves
  <2>3. r.pc # "reserving" /\ r.pc \notin {"reserving", "asking"}
    BY <1>4
  <2> QED
    BY <1>2, <1>4, <2>2, <2>3
<1>7. /\ Within(InFlight, Held, memory.attempts, memory.outstanding)
      /\ Within(Waiting, Held, left, margin) /\ Within(Waiting, Held, left, room)
  BY DEF BudgetInv, Reserves
<1>8. left \in Int /\ margin \in Int /\ room \in Int
  BY Margins, Zenon
<1>9. Within(InFlight \ {c}, Held, memory.attempts - 1, memory.outstanding - w)
  <2> DEFINE k == memory.attempts
             o == memory.outstanding
  <2>1. k \in Int /\ o \in Int /\ Within(InFlight, Held, k, o) /\ Held[c] \in Int
    BY <1>3, <1>7, Bounds
  <2> HIDE DEF k, o
  <2>2. Within(InFlight \ {c}, Held, k - 1, o - Held[c])
    BY <1>2, <2>1, WithinWithout
  <2> QED
    BY <2>2 DEF k, o
<1>10. 0 <= memory.outstanding - w
  <2> HIDE DEF w
  <2> QED
    BY <1>9, WithinBounds, Zenon
<1>11. /\ memory'.attempts = memory.attempts /\ memory'.outstanding = memory.outstanding - w
       /\ memory'.committed = memory.committed + actual /\ memory' \in Budget
       /\ Total(memory)' = Total(memory) - w + actual
  <2> HIDE DEF w
  <2>1. memory' = [memory EXCEPT !.outstanding = @ - w, !.committed = @ + actual]
    BY <1>3, Zenon DEF Closed
  <2>2. memory' = [attempts |-> memory.attempts, committed |-> memory.committed + actual,
                   outstanding |-> memory.outstanding - w]
    <3> DEFINE x == [memory EXCEPT !.outstanding = memory.outstanding - w]
    <3>1. x = [attempts |-> memory.attempts, committed |-> memory.committed,
               outstanding |-> memory.outstanding - w]
      BY Bounds DEF Budget
    <3>2. memory' = [x EXCEPT !.committed = x.committed + actual]
      BY <2>1
    <3> HIDE DEF x
    <3>3. x.committed = memory.committed
      BY <3>1
    <3> QED
      BY <3>1, <3>2, <3>3
  <2>3. memory.outstanding - w \in Nat
    BY <1>3, <1>10, Bounds
  <2>4. memory' \in Budget
    BY <2>2, <2>3, Bounds DEF Budget
  <2>5. Total(memory)' = Total(memory) - w + actual
    BY <1>3, <2>2, Bounds DEF Total
  <2> QED
    BY <2>2, <2>4, <2>5
<1>12. /\ memory'.attempts - sent' = left
       /\ margin <= Total(memory)' + excess' - spent' /\ Total(memory)' + excess' - spent' \in Int
       /\ room <= MaxCost + excess' - spent' /\ MaxCost + excess' - spent' \in Int
       /\ spent' \in Int /\ spent' <= spent + extra
  <2> HIDE DEF w
  <2>1. actual <= w + extra /\ (spent' = spent - w + actual \/ (spent' = spent /\ actual = w))
    BY <1>3
  <2>2. sent' = sent /\ excess' = excess + extra
    OBVIOUS
  <2>3. /\ memory.attempts \in Nat /\ Total(memory) \in Nat /\ sent \in Nat /\ spent \in Int
        /\ excess \in Nat /\ MaxCost \in Nat
    BY Bounds, Margins
  <2>4. spent' \in Int /\ spent' <= spent - w + actual /\ spent - w + actual <= spent + extra
    BY <1>3, <2>1, <2>3
  <2>5. Total(memory)' = Total(memory) - w + actual /\ memory'.attempts = memory.attempts
    BY <1>11
  <2>6. margin <= Total(memory)' + excess' - spent' /\ Total(memory)' + excess' - spent' \in Int
    BY <1>3, <2>2, <2>3, <2>4, <2>5
  <2>7. room <= MaxCost + excess' - spent' /\ MaxCost + excess' - spent' \in Int
    <3>1. spent' \in Int /\ spent' <= spent + extra
      BY <1>3, <2>3, <2>4
    <3>2. \A x, y \in Int : y <= x + extra =>
              MaxCost + excess - x <= MaxCost + (excess + extra) - y
      BY <2>3
    <3>3. MaxCost + (excess + extra) - spent' \in Int
      BY <2>3, <3>1
    <3>4. room <= MaxCost + (excess + extra) - spent'
      BY <2>3, <3>1, <3>2, Zenon
    <3> QED
      BY <2>2, <3>3, <3>4, Zenon
  <2>8. memory'.attempts - sent' = left /\ spent' <= spent + extra
    BY <1>3, <2>2, <2>3, <2>4, <2>5
  <2> QED
    BY <2>4, <2>6, <2>7, <2>8
<1>13. Reserves'
  <2>1. Within(InFlight', Held', memory'.attempts, memory'.outstanding)
    <3>1. \A d \in InFlight \ {c} : Held'[d] = Held[d]
      BY <1>6, Subsets
    <3>2. /\ memory.attempts - 1 \in Int /\ memory.outstanding - w \in Int
          /\ memory'.attempts \in Int /\ memory.attempts - 1 <= memory'.attempts
      BY <1>3, <1>11, Bounds
    <3> HIDE DEF w
    <3>3. Within(InFlight \ {c}, Held', memory'.attempts, memory.outstanding - w)
      BY <1>9, <3>1, <3>2, WithinLess
    <3> QED
      BY <1>6, <1>11, <3>3
  <2>2. /\ Within(Waiting', Held', left, Total(memory)' + excess' - spent')
        /\ Within(Waiting', Held', left, MaxCost + excess' - spent')
    <3>1. \A d \in Waiting : Held'[d] = Held[d]
      BY <1>6, Subsets
    <3> HIDE DEF left, margin, room, w
    <3> QED
      BY <1>6, <1>7, <1>8, <1>12, <3>1, WithinLess
  <2>3. memory'.attempts <= MaxAttempts
    BY <1>11 DEF BudgetInv, Reserves
  <2> HIDE DEF left, margin, room, w
  <2> QED
    BY <1>12, <2>1, <2>2, <2>3 DEF Reserves
<1>14. BudgetTyped'
  BY <1>11, <1>12, Bounds DEF BudgetTyped
<1>15. WithinBudget'
  <2>1. stored' = stored /\ sent' = sent /\ Total(stored)' = Total(stored) /\ Total(stored) \in Nat
    BY Bounds DEF Total, Budget
  <2>2. spent <= Total(stored) + excess
    BY DEF BudgetInv, WithinBudget, SpendBounded
  <2>3. spent' <= Total(stored) + excess' /\ spent' <= MaxCost + excess'
    <3>1. spent \in Int /\ excess \in Nat /\ MaxCost \in Nat /\ spent <= MaxCost + excess
      BY Bounds, Margins
    <3>2. spent' \in Int /\ spent' <= spent + extra /\ excess' = excess + extra
      BY <1>12
    <3> QED
      BY <2>1, <2>2, <3>1, <3>2
  <2> QED
    BY <2>1, <2>3 DEF BudgetInv, WithinBudget, AttemptsBounded, SpendBounded
<1> QED
  BY <1>6, <1>13, <1>14, <1>15 DEF BudgetInv

LEMMA AnsweredKeeps ==
    ASSUME BudgetInv, NEW c \in Calls, Answered(c) PROVE BudgetInv'
<1> DEFINE w == Reservation[Provider(c)]
<1>1. At(c, "asking") /\ w \in Nat /\ UNCHANGED <<stored, sent>>
  <2>1. At(c, "asking") /\ c \in InFlight /\ CallsTyped
    BY DEF Answered, InFlight, BudgetInv
  <2>2. w \in Nat
    BY <2>1, HeldTyped
  <2> QED
    BY <2>1, <2>2 DEF Answered
<1>2. spent \in Int /\ excess \in Nat
  BY Bounds
<1>3. ASSUME NEW actual \in IF w = 0 THEN {0} ELSE Charges,
             memory' = Closed(c, actual), spent' = spent - w + actual,
             excess' = excess + (IF actual > w THEN actual - w ELSE 0), Goes(c, "settling")
      PROVE  BudgetInv'
  <2> DEFINE extra == IF actual > w THEN actual - w ELSE 0
  <2>1. actual \in Nat
    BY <1>3, PoolConstants
  <2>2. extra \in Nat /\ actual <= w + extra
    BY <1>1, <2>1
  <2>3. excess' = excess + extra
    BY <1>3
  <2> HIDE DEF extra
  <2> QED
    BY <1>1, <1>3, <2>1, <2>2, <2>3, CloseKeeps
<1>4. ASSUME memory' = Closed(c, w), Goes(c, "unpriced"), UNCHANGED <<spent, excess>>
      PROVE  BudgetInv'
  <2>1. w <= w + 0 /\ excess' = excess + 0 /\ 0 \in Nat
    BY <1>1, <1>2, <1>4
  <2> QED
    BY <1>1, <1>4, <2>1, CloseKeeps
<1> QED
  BY <1>3, <1>4 DEF Answered

LEMMA RaisedKeeps ==
    ASSUME BudgetInv, NEW c \in Calls, Raised(c) PROVE BudgetInv'
<1> DEFINE w == Reservation[Provider(c)]
<1>1. /\ At(c, "asking") /\ Goes(c, "failing") /\ memory' = Closed(c, w)
      /\ UNCHANGED <<stored, sent>> /\ spent' = spent /\ excess' = excess
  BY DEF Raised, historyVars
<1>2. w \in Nat
  <2>1. c \in InFlight /\ CallsTyped
    BY <1>1 DEF InFlight, BudgetInv
  <2> QED
    BY <2>1, HeldTyped
<1>3. w <= w + 0 /\ excess' = excess + 0 /\ 0 \in Nat
  BY <1>1, <1>2, Bounds
<1> QED
  BY <1>1, <1>2, <1>3, CloseKeeps

(* Steps that end a call, move it along its route or save.                 *)
LEMMA HandlesKeeps ==
    ASSUME BudgetInv, NEW c \in Calls, Complete(c) \/ Handles(c) \/ SaveFails(c)
    PROVE  BudgetInv'
<1>0. CallsTyped /\ call[c] \in CallRecord
  BY DEF BudgetInv, CallsTyped
<1>1. ASSUME Complete(c) PROVE BudgetInv'
  <2>1. PICK bypass \in BOOLEAN :
            call' = [call EXCEPT ![c] = [Idle EXCEPT !.pc = "route", !.bypass = bypass]]
    BY <1>1 DEF Complete
  <2> DEFINE r == [Idle EXCEPT !.pc = "route", !.bypass = bypass]
  <2>2. r \in CallRecord /\ r.pc = "route"
    <3> DEFINE x == [Idle EXCEPT !.pc = "route"]
    <3>1. Idle \in CallRecord
      BY DEF Idle, CallRecord
    <3>2. x \in CallRecord /\ x.pc = "route"
      BY <3>1 DEF CallRecord
    <3>3. r = [x EXCEPT !.bypass = bypass]
      BY Zenon
    <3> HIDE DEF r, x
    <3> QED
      BY <3>2, <3>3 DEF CallRecord
  <2>3. UNCHANGED <<memory, stored, historyVars>> /\ call' = [call EXCEPT ![c] = r]
    BY <1>1, <2>1 DEF Complete, budgetVars
  <2> HIDE DEF r
  <2> QED
    BY <2>2, <2>3, LetsGo
<1>2. ASSUME Skip(c) PROVE BudgetInv'
  BY <1>2, Ends DEF Skip, budgetVars
<1>3. ASSUME Exhausted(c) PROVE BudgetInv'
  BY <1>3, Ends DEF Exhausted, Returns, budgetVars
<1>4. ASSUME Refuse(c) PROVE BudgetInv'
  BY <1>4, Ends DEF Refuse, Returns, budgetVars
<1>5. ASSUME Settled(c) PROVE BudgetInv'
  <2>1. UNCHANGED <<memory, historyVars>> /\ stored' = memory
    BY <1>5 DEF Settled, Saved
  <2>2. CASE Returns(c) \/ Failed(c)
    BY <2>1, <2>2, Ends DEF Returns, Failed
  <2>3. CASE call' = [call EXCEPT ![c].pc = "route", ![c].repair = TRUE]
    <3> DEFINE x == [call[c] EXCEPT !.pc = "route"]
               r == [x EXCEPT !.repair = TRUE]
    <3>1. x \in CallRecord /\ x.pc = "route"
      BY <1>0 DEF CallRecord
    <3>2. r \in CallRecord /\ r.pc = "route"
      <4> HIDE DEF x
      <4> QED
        BY <3>1 DEF CallRecord
    <3>3. call' = [call EXCEPT ![c] = r]
      BY <1>0, <2>3 DEF CallsTyped
    <3> HIDE DEF r, x
    <3> QED
      BY <2>1, <3>2, <3>3, LetsGo
  <2> QED
    BY <1>5, <2>2, <2>3 DEF Settled
<1>6. ASSUME Unpriced(c) PROVE BudgetInv'
  BY <1>6, Ends DEF Unpriced, Returns, Saved
<1>7. ASSUME GaveUp(c) PROVE BudgetInv'
  BY <1>7, Ends DEF GaveUp, Failed, Saved
<1>8. ASSUME SaveFails(c) PROVE BudgetInv'
  BY <1>8, Ends DEF SaveFails, Failed, budgetVars
<1> QED
  BY <1>1, <1>2, <1>3, <1>4, <1>5, <1>6, <1>7, <1>8, AuthorizeKeeps, ReservedKeeps, AnsweredKeeps,
     RaisedKeeps DEF Handles

(* A restart: no call is left, and what was waiting is counted as spent or *)
(* was never sent.                                                         *)
LEMMA InterruptedKeeps ==
    ASSUME BudgetInv, Interrupted PROVE BudgetInv'
<1>1. /\ call' = [c \in Calls |-> Idle] /\ memory' = stored' /\ stored' \in {stored, memory}
      /\ sent' = sent /\ spent' = spent /\ excess' = excess
  BY DEF Interrupted, historyVars
<1>2. Waiting' = {} /\ InFlight' = {} /\ CallsTyped'
  <2>1. Idle \in CallRecord /\ Idle.pc = "idle"
    BY DEF Idle, CallRecord
  <2>2. \A c \in Calls : call'[c] = Idle
    BY <1>1
  <2>3. Waiting' = {} /\ InFlight' = {}
    BY <2>1, <2>2 DEF Waiting, InFlight, At
  <2>4. CallsTyped'
    BY <1>1, <2>1 DEF CallsTyped
  <2> QED
    BY <2>3, <2>4
<1>3. /\ stored' \in Budget /\ sent' <= stored'.attempts /\ stored'.attempts <= MaxAttempts
      /\ spent' <= Total(stored') + excess' /\ spent' <= MaxCost + excess'
  <2>1. CASE stored' = stored
    BY <1>1, <2>1, Bounds DEF BudgetInv, WithinBudget, AttemptsBounded, SpendBounded
  <2>2. CASE stored' = memory
    BY <1>1, <2>2, Bounds DEF BudgetInv, Reserves
  <2> QED
    BY <1>1, <2>1, <2>2
<1>4. BudgetTyped'
  BY <1>1, <1>3, Bounds DEF BudgetTyped
<1>5. WithinBudget'
  <2>1. Total(stored)' = Total(stored')
    BY DEF Total
  <2> QED
    BY <1>3, <2>1 DEF WithinBudget, AttemptsBounded, SpendBounded
<1>6. Reserves'
  <2> DEFINE left == memory'.attempts - sent'
             margin == Total(memory)' + excess' - spent'
             room == MaxCost + excess' - spent'
  <2>1. memory'.attempts \in Nat /\ memory'.outstanding \in Nat /\ Total(memory)' = Total(stored') /\ Total(memory)' \in Nat
    BY <1>1, <1>3 DEF Budget, Total
  <2>2. sent' \in Nat /\ spent' \in Int /\ excess' \in Nat /\ MaxCost \in Nat
    BY <1>1, Bounds, Margins
  <2>3. left \in Nat /\ margin \in Nat /\ room \in Nat
    BY <1>1, <1>3, <2>1, <2>2
  <2>4. memory'.attempts <= MaxAttempts
    BY <1>1, <1>3
  <2> HIDE DEF left, margin, room
  <2>5. Within({}, Held', left, margin) /\ Within({}, Held', left, room)
        /\ Within({}, Held', memory'.attempts, memory'.outstanding)
    BY <2>1, <2>3, WithinEmpty
  <2> QED
    BY <1>2, <2>4, <2>5 DEF Reserves, left, margin, room
<1> QED
  BY <1>2, <1>4, <1>5, <1>6 DEF BudgetInv

(* Nothing moves but the stored budget.                                    *)
LEMMA StillKeeps ==
    ASSUME BudgetInv, UNCHANGED <<call, memory, historyVars>>, stored' = stored \/ stored' = memory
    PROVE  BudgetInv'
<1>1. Waiting' = Waiting /\ InFlight' = InFlight
  BY DEF Waiting, InFlight, At
<1>2. Held' = Held
  BY DEF Held, Provider
<1>3. CallsTyped'
  BY DEF BudgetInv, CallsTyped
<1> QED
  BY <1>1, <1>2, <1>3, Lets

LEMMA BudgetStep == BudgetInv /\ [PoolNext]_poolVars => BudgetInv'
<1> SUFFICES ASSUME BudgetInv, [PoolNext]_poolVars PROVE BudgetInv'
  OBVIOUS
<1>1. CASE Reported
  BY <1>1, StillKeeps DEF Reported, Saved
<1>2. CASE CooldownEnds
  BY <1>2, StillKeeps DEF CooldownEnds, budgetVars
<1>3. CASE UNCHANGED poolVars
  BY <1>3, StillKeeps DEF poolVars, budgetVars
<1> QED
  BY <1>1, <1>2, <1>3, HandlesKeeps, InterruptedKeeps DEF PoolNext

LEMMA BudgetInit == PoolInit => BudgetInv
<1> SUFFICES ASSUME PoolInit PROVE BudgetInv
  OBVIOUS
<1>1. /\ memory = [attempts |-> 0, committed |-> 0, outstanding |-> 0] /\ stored = memory
      /\ sent = 0 /\ spent = 0 /\ excess = 0 /\ call = [c \in Calls |-> Idle]
  BY DEF PoolInit
<1>2. BudgetTyped /\ Total(memory) = 0 /\ Total(stored) = 0
  BY <1>1 DEF BudgetTyped, Budget, Total
<1>3. CallsTyped /\ Waiting = {} /\ InFlight = {}
  BY <1>1 DEF CallsTyped, CallRecord, Waiting, InFlight, At, Idle
<1>4. WithinBudget
  BY <1>1, <1>2, PoolConstants DEF WithinBudget, AttemptsBounded, SpendBounded
<1>5. Reserves
  <2>1. /\ memory.attempts = 0 /\ memory.outstanding = 0 /\ memory.attempts - sent = 0
        /\ Total(memory) + excess - spent = 0 /\ MaxCost + excess - spent = MaxCost
        /\ MaxCost \in Nat /\ 0 \in Nat /\ 0 <= MaxAttempts
    BY <1>1, <1>2, PoolConstants
  <2>2. Within({}, Held, 0, 0) /\ Within({}, Held, 0, MaxCost)
    BY <2>1, WithinEmpty
  <2> QED
    BY <1>3, <2>1, <2>2 DEF Reserves
<1> QED
  BY <1>2, <1>3, <1>4, <1>5 DEF BudgetInv

(* Whatever fails, overlaps or is interrupted, no attempt is made beyond   *)
(* max_provider_attempts, nothing spent is missing from the saved budget,  *)
(* and the cap is exceeded only by answers dearer than their reservation.  *)
THEOREM BudgetHolds == PoolSpec => []WithinBudget
<1>1. BudgetInv => WithinBudget
  BY DEF BudgetInv
<1> QED
  BY <1>1, BudgetInit, BudgetStep, PTL DEF PoolSpec
=============================================================================
