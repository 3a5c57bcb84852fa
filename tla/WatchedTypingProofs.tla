------------------------ MODULE WatchedTypingProofs ------------------------
(***************************************************************************)
(* What a watched delivery guarantees for any set of profiles and any cap: *)
(* however it is misread, whoever takes the focus, whatever is lost.       *)
(***************************************************************************)
EXTENDS WatchedTyping, TLAPS

Looking == {"judge", "pronoun", "chained", "glyph", "repaired", "tab", "blink"}
Local == {"pronoun", "chained", "glyph", "repaired"}

(* Where the call can be with what it knows.                               *)
Ways ==
    /\ pc = "emit" => sent < p.chunks
    /\ pc = "locate" => sent > 0
    /\ sent = 0 => ~located
    /\ ~located /\ pc \notin {"recover", "done"} => read = "none"
    /\ sent = 0 => focus = "here"
    /\ pc \in Looking \cup {"reread"} => located
    /\ pc \in Looking => ~clean
    /\ clean => sent = p.chunks
    /\ pc \in {"pronoun", "tab", "blink"} => corrections = 0
    /\ pc \in {"tab", "blink"} => sent = p.chunks /\ read = "edit"
    /\ read = "pronoun" => Editor
    /\ pc \in Local => Editor
    /\ caret # "end" => stable
    /\ caret = "beyond" => Editor
    /\ focus = "next" => sent = p.chunks
    /\ pc # "done" => result = "none"

(* What the stop can still find under way.                                 *)
Stops ==
    /\ ~stop => late = 0
    /\ pc \in {"emit", "pronoun", "tab", "blink"} => late = 0
    /\ pc \in {"glyph", "chained"} => late <= 1
    /\ StopBounded

(* When a stolen focus goes unseen.                                        *)
Guards ==
    /\ focus = "stolen" /\ (~located \/ pc \in {"emit", "locate"}) => window
    /\ based => window
    /\ focus = "stolen" => window \/ unasked
    /\ strayed => focus = "stolen"
    /\ FocusGuard

(* Before a replay the field holds what was sent, in order and once.       *)
Distinct == \A j, k \in DOMAIN field : j # k => field[j].of # field[k].of

Tidy ==
    /\ Len(field) <= sent
    /\ \A j \in DOMAIN field : field[j].of <= sent
    /\ Distinct

Excused == doubled \/ caret # "end" \/ sent > MaxBackspaces

Keeps ==
    /\ Tidy \/ (corrections > 0 /\ pc \notin Looking \ {"judge"} /\ Excused)
    /\ corrections = 0 /\ focus = "here" => Len(field) = sent
    /\ prior \/ lost \/ Adrift

(* What was read is in the field, unless a correction came after the frame *)
(* that was read: until then a late frame lacks only the end of the field. *)
Trails ==
    corrections = 0 =>
        /\ Len(shown) <= Len(field)
        /\ \A j \in 1 .. Len(shown) : shown[j] = field[j]

Attested ==
    corrections = 0 \/ ~behind =>
        /\ read = "match" => Match(field)
        /\ read \in {"contains", "carved"} => Contains(field)

Reading ==
    /\ Trails
    /\ pc \in {"judge", "recover"} \/ clean => Attested
    /\ VerifiedHolds

Inv == TypeOK /\ Ways /\ Stops /\ Guards /\ Keeps /\ Reading

(* An emission appends its chunk where the field has the focus.            *)
LEMMA Emission ==
    ASSUME TypeOK, EmitText
    PROVE  /\ field' \in Seq(Cells)
           /\ lost' \in BOOLEAN /\ doubled' \in BOOLEAN
           /\ (lost => lost') /\ (doubled => doubled')
           /\ \/ focus # "here" /\ field' = field
              \/ /\ focus = "here" /\ Len(field') = Len(field) + 1
                 /\ \A j \in 1 .. Len(field) : field'[j] = field[j]
                 /\ field'[Len(field) + 1].of = sent + 1
<1>1. /\ field \in Seq(Cells) /\ sent \in Nat /\ sent' = sent + 1
  BY TypingConstants DEF TypeOK, EmitText, Delivery
<1>2. CASE focus = "here"
  <2>1. PICK shape \in Shapes : /\ field' = Append(field, [of |-> sent + 1, shape |-> shape])
                              /\ lost' = (lost \/ shape = "short")
                              /\ doubled' = (doubled \/ shape = "long")
    BY <1>1, <1>2 DEF EmitText
  <2> DEFINE cell == [of |-> sent + 1, shape |-> shape]
  <2>2. cell \in Cells /\ cell.of = sent + 1 /\ cell.shape = shape
    BY <1>1, <2>1 DEF Cells
  <2>3. field' = Append(field, cell)
    BY <2>1
  <2> HIDE DEF cell
  <2>4. /\ field' \in Seq(Cells) /\ Len(field') = Len(field) + 1 /\ field'[Len(field) + 1] = cell
        /\ \A j \in 1 .. Len(field) : field'[j] = field[j]
    BY <1>1, <2>2, <2>3
  <2>5. lost' \in BOOLEAN /\ doubled' \in BOOLEAN /\ (lost => lost') /\ (doubled => doubled')
    BY <2>1 DEF TypeOK
  <2> QED
    BY <1>2, <2>2, <2>4, <2>5
<1>3. CASE focus # "here"
  BY <1>1, <1>3 DEF EmitText, TypeOK
<1> QED
  BY <1>2, <1>3

(* What a clear leaves is a part of the field.                             *)
LEMMA Leaving ==
    ASSUME TypeOK, NEW rest \in Rests
    PROVE  rest \in Seq(Cells)
<1>1. field \in Seq(Cells)
  BY DEF TypeOK
<1>2. \A s \in Prefixes : s \in Seq(Cells)
  <2>1. \A k \in 0 .. Len(field) : SubSeq(field, 1, k) \in Seq(Cells)
    BY <1>1
  <2> QED
    BY <2>1 DEF Prefixes
<1>3. CASE rest \in Prefixes
  BY <1>2, <1>3
<1>4. CASE rest \notin Prefixes
  <2>1. PICK s \in Prefixes \ {<<>>} : rest = [s EXCEPT ![Len(s)].shape = "short"]
    BY <1>4 DEF Rests
  <2> DEFINE cell == [s[Len(s)] EXCEPT !.shape = "short"]
  <2>2. s \in Seq(Cells) /\ Len(s) \in DOMAIN s
    <3>1. s \in Seq(Cells) /\ s # <<>>
      BY <1>2, <2>1
    <3> QED
      BY <3>1
  <2>3. cell \in Cells
    <3>1. s[Len(s)] \in Cells
      BY <2>2
    <3> QED
      BY <3>1 DEF Cells, Shapes
  <2>4. rest = [s EXCEPT ![Len(s)] = cell]
    BY <2>1
  <2> HIDE DEF cell
  <2> QED
    BY <2>2, <2>3, <2>4
<1> QED
  BY <1>3, <1>4

(* A replay is made before any other correction. Where it starts behind    *)
(* the text, reaches all of it and nothing comes twice, the field is left  *)
(* as sent once more; older text is reached if something was lost.         *)
LEMMA Replaying ==
    ASSUME TypeOK, Ways, Keeps, Replay, corrections = 0, focus' = "here" => focus = "here",
           UNCHANGED <<p, sent, caret>>
    PROVE  /\ field' \in Seq(Cells)
           /\ lost' \in BOOLEAN /\ doubled' \in BOOLEAN /\ prior' \in BOOLEAN /\ strayed' \in BOOLEAN
           /\ prior' \/ lost' \/ Adrift'
           /\ Tidy' \/ Excused'
<1>1. /\ field \in Seq(Cells) /\ sent \in Nat /\ MaxBackspaces \in Nat
      /\ lost \in BOOLEAN /\ doubled \in BOOLEAN /\ prior \in BOOLEAN /\ strayed \in BOOLEAN
      /\ caret \in {"end", "home", "beyond"} /\ (prior \/ lost \/ Adrift)
  BY TypingConstants DEF TypeOK, Keeps, Delivery
<1>2. strayed' \in BOOLEAN /\ Adrift' = Adrift
  BY <1>1 DEF Replay, Adrift, Editor
<1>3. CASE focus' # "here"
  <2>1. UNCHANGED <<field, prior, lost, doubled>>
    BY <1>3 DEF Replay
  <2>2. Tidy
    BY DEF Keeps
  <2>3. Tidy'
    BY <2>1, <2>2 DEF Tidy, Distinct
  <2> QED
    BY <1>1, <1>2, <2>1, <2>3
<1>4. CASE focus' = "here"
  <2>1. Len(field) = sent
    BY <1>4 DEF Keeps
  <2>2. PICK shape \in Shapes, rest \in Rests, eaten \in BOOLEAN :
          LET again == [j \in 1 .. sent |-> [of |-> j, shape |-> shape]] IN
          /\ CASE caret = "home" -> field' = again \o field /\ UNCHANGED prior
               [] caret = "beyond" -> field' = field \o again /\ prior' = (prior /\ ~eaten)
               [] caret = "end" -> /\ field' = rest \o again
                                   /\ eaten => rest = <<>>
                                   /\ prior' = (prior /\ ~eaten /\ Erased <= Len(field))
          /\ caret # "end" => rest = Remaining
          /\ lost' = (lost \/ shape = "short" \/ (caret = "end" /\ (eaten \/ Short(rest))))
          /\ doubled' = (doubled \/ shape = "long" \/ Len(rest) > Len(Remaining))
    BY <1>4 DEF Replay
  <2> DEFINE again == [j \in 1 .. sent |-> [of |-> j, shape |-> shape]]
  <2>3. again \in Seq(Cells) /\ Len(again) = sent /\ \A j \in 1 .. sent : again[j].of = j
    <3>1. \A j \in 1 .. sent : [of |-> j, shape |-> shape] \in Cells
      BY <1>1, <2>2 DEF Cells
    <3> QED
      BY <1>1, <3>1
  <2>4. /\ caret = "home" => field' = again \o field /\ prior' = prior
        /\ caret = "beyond" => field' = field \o again /\ prior' = (prior /\ ~eaten)
        /\ caret = "end" => field' = rest \o again /\ prior' = (prior /\ ~eaten /\ Erased <= Len(field))
    BY <2>2
  <2>5. /\ lost' = (lost \/ shape = "short" \/ (caret = "end" /\ (eaten \/ Short(rest))))
        /\ doubled' = (doubled \/ shape = "long" \/ Len(rest) > Len(Remaining))
    BY <2>2
  <2> HIDE DEF again
  <2>6. Erased \in Nat /\ Erased <= sent
    BY <1>1 DEF Erased
  <2>7. rest \in Seq(Cells) /\ eaten \in BOOLEAN
    BY <2>2, Leaving
  <2>8. field' \in Seq(Cells)
    <3>1. again \o field \in Seq(Cells) /\ field \o again \in Seq(Cells) /\ rest \o again \in Seq(Cells)
      BY <1>1, <2>3, <2>7
    <3> QED
      BY <1>1, <2>4, <3>1
  <2>9. lost' \in BOOLEAN /\ doubled' \in BOOLEAN /\ prior' \in BOOLEAN
    BY <1>1, <2>1, <2>4, <2>5, <2>6, <2>7
  <2>10. prior' \/ lost' \/ Adrift'
    <3>1. caret = "beyond" => Adrift
      BY DEF Ways, Adrift
    <3>2. caret = "end" => ~Adrift
      BY DEF Adrift
    <3> QED
      BY <1>1, <1>2, <2>1, <2>4, <2>5, <2>6, <2>7, <3>1, <3>2
  <2>11. ASSUME ~Excused' PROVE Tidy'
    <3>1. caret = "end" /\ sent <= MaxBackspaces /\ Len(rest) <= Len(Remaining)
      <4>1. ~doubled' /\ caret' = "end" /\ ~(sent' > MaxBackspaces)
        BY <2>11 DEF Excused
      <4>2. Remaining \in Seq(Cells)
        BY <1>1, <2>6 DEF Remaining
      <4>3. ~(Len(rest) > Len(Remaining))
        BY <2>5, <4>1
      <4> QED
        BY <1>1, <2>7, <4>1, <4>2, <4>3
    <3>2. Remaining = <<>>
      BY <1>1, <2>1, <3>1 DEF Erased, Remaining
    <3>3. rest = <<>>
      BY <2>7, <3>1, <3>2
    <3>4. field' = again
      BY <2>3, <2>4, <3>1, <3>3
    <3> QED
      BY <1>1, <2>3, <3>4 DEF Tidy, Distinct
  <2> QED
    BY <1>2, <2>8, <2>9, <2>10, <2>11
<1> QED
  BY <1>3, <1>4

(* A local repair changes how one cell reads, never what cells there are.  *)
LEMMA Repairing ==
    ASSUME TypeOK, Repair
    PROVE  /\ field' \in Seq(Cells) /\ Len(field') = Len(field)
           /\ \A j \in DOMAIN field : field'[j].of = field[j].of
           /\ prior' \in BOOLEAN /\ strayed' \in BOOLEAN
           /\ prior' = prior \/ Adrift
<1>1. field \in Seq(Cells) /\ prior' \in BOOLEAN /\ strayed' \in BOOLEAN /\ (prior' = prior \/ Adrift)
  BY DEF TypeOK, Repair
<1>2. CASE field' = field
  BY <1>1, <1>2 DEF Repair
<1>3. CASE field' # field
  <2>1. field' \in Touched
    BY <1>3 DEF Repair
  <2>2. PICK j \in DOMAIN field, shape \in Shapes : field' = [field EXCEPT ![j].shape = shape]
    BY <1>3, <2>1 DEF Touched
  <2> DEFINE cell == [field[j] EXCEPT !.shape = shape]
  <2>3. cell \in Cells /\ cell.of = field[j].of
    <3>1. field[j] \in Cells
      BY <1>1, <2>2
    <3> QED
      BY <2>2, <3>1 DEF Cells
  <2>4. field' = [field EXCEPT ![j] = cell]
    BY <2>2
  <2> HIDE DEF cell
  <2> QED
    BY <1>1, <2>2, <2>3, <2>4
<1> QED
  BY <1>2, <1>3

(* A read tells the truth about the frame, and the frame about the field.  *)
LEMMA Sighted ==
    ASSUME TypeOK, Keeps, Trails, NEW c, Reads(c),
           c = "match" => Match(shown), c \in {"contains", "carved"} => Contains(shown),
           UNCHANGED <<p, sent, field, shown, corrections>>
    PROVE  Attested'
<1>1. /\ field \in Seq(Cells) /\ shown \in Seq(Cells) /\ sent \in Nat /\ corrections \in Nat
      /\ read' = c /\ behind' = (shown # field)
  BY TypingConstants DEF TypeOK, Delivery, Reads
<1>2. CASE ~behind'
  <2>1. shown = field
    BY <1>1, <1>2
  <2> QED
    BY <1>1, <2>1 DEF Attested, Match, Contains, Legible, Ends
<1>3. CASE corrections = 0
  <2>1. Len(field) <= sent /\ Len(shown) <= Len(field) /\ \A j \in 1 .. Len(shown) : shown[j] = field[j]
    BY <1>3 DEF Keeps, Tidy, Trails
  <2>2. Match(shown) => Match(field)
    BY <1>1, <2>1 DEF Match, Legible
  <2>3. ASSUME Contains(shown) PROVE Contains(field)
    <3>1. PICK a \in 0 .. Len(shown) :
            a + sent <= Len(shown) /\ \A j \in 1 .. sent : Legible(shown[a + j], j, Ends(j))
      BY <2>3 DEF Contains
    <3>2. \A j \in 1 .. sent : a + j \in 1 .. Len(shown)
      BY <1>1, <3>1
    <3>3. \A j \in 1 .. sent : Legible(field[a + j], j, Ends(j))
      BY <2>1, <3>1, <3>2
    <3>4. a \in 0 .. Len(field) /\ a + sent <= Len(field)
      BY <1>1, <2>1, <3>1
    <3> QED
      BY <3>3, <3>4 DEF Contains
  <2>4. Match(field)' = Match(field) /\ Contains(field)' = Contains(field)
    BY DEF Match, Contains, Legible, Ends
  <2> QED
    BY <1>1, <2>2, <2>3, <2>4 DEF Attested
<1> QED
  BY <1>1, <1>2, <1>3 DEF Attested

(* So a look at the field leaves what is attested.                         *)
LEMMA Looked ==
    ASSUME TypeOK, Keeps, Trails, \E c \in Readable : Reads(c),
           UNCHANGED <<p, sent, field, shown, corrections>>
    PROVE  Attested'
<1>1. PICK c \in Readable : Reads(c)
  OBVIOUS
<1>2. (c = "match" => Match(shown)) /\ (c \in {"contains", "carved"} => Contains(shown))
  BY DEF Readable
<1> QED
  BY <1>1, <1>2, Sighted

(* So the field stays tidy, short of what went to another window.          *)
LEMMA Appending ==
    ASSUME TypeOK, Keeps, EmitText
    PROVE  Keeps'
<1>1. /\ field \in Seq(Cells) /\ sent \in Nat /\ sent' = sent + 1 /\ pc' = "locate" /\ pc = "emit"
      /\ UNCHANGED <<p, corrections, focus, caret, prior>> /\ lost \in BOOLEAN /\ MaxBackspaces \in Nat
  BY TypingConstants DEF TypeOK, EmitText, Delivery
<1>2. /\ field' \in Seq(Cells)
      /\ (lost => lost') /\ (doubled => doubled')
      /\ \/ focus # "here" /\ field' = field
         \/ /\ focus = "here" /\ Len(field') = Len(field) + 1
            /\ \A j \in 1 .. Len(field) : field'[j] = field[j]
            /\ field'[Len(field) + 1].of = sent + 1
  BY Emission
<1>3. \A j \in DOMAIN field' : \/ j \in 1 .. Len(field) /\ field'[j] = field[j]
                               \/ j = Len(field) + 1 /\ focus = "here"
  <2>1. DOMAIN field = 1 .. Len(field) /\ DOMAIN field' = 1 .. Len(field') /\ Len(field) \in Nat
    BY <1>1, <1>2
  <2>2. CASE focus # "here"
    <3>1. field' = field
      BY <1>2, <2>2
    <3> QED
      BY <2>1, <3>1
  <2>3. CASE focus = "here"
    <3>1. /\ Len(field') = Len(field) + 1
          /\ \A j \in 1 .. Len(field) : field'[j] = field[j]
      BY <1>2, <2>3
    <3> QED
      BY <2>1, <2>3, <3>1
  <2> QED
    BY <2>2, <2>3
<1>4. \A i \in 1 .. Len(field) : field[i] \in Cells /\ field[i].of \in Nat
  <2>1. \A cell \in Cells : cell.of \in Nat
    BY DEF Cells
  <2>2. \A i \in 1 .. Len(field) : field[i] \in Cells
    BY <1>1
  <2> QED
    BY <2>1, <2>2
<1>5. DOMAIN field = 1 .. Len(field) /\ Len(field) \in Nat
  BY <1>1
<1>6. ASSUME Tidy PROVE Tidy'
  <2>1. \A i \in 1 .. Len(field) : field[i].of <= sent
    BY <1>5, <1>6 DEF Tidy
  <2>2. Len(field) <= sent
    BY <1>6 DEF Tidy
  <2>3. Len(field') <= sent'
    BY <1>1, <1>2, <1>5, <2>2
  <2>4. ASSUME NEW j \in DOMAIN field' PROVE field'[j].of <= sent'
    <3>1. CASE j \in 1 .. Len(field) /\ field'[j] = field[j]
      BY <1>1, <1>4, <2>1, <3>1
    <3>2. CASE j = Len(field) + 1 /\ focus = "here"
      <4>1. field'[j].of = sent + 1
        BY <1>2, <3>2
      <4> QED
        BY <1>1, <4>1
    <3> QED
      BY <1>3, <3>1, <3>2
  <2>5. ASSUME NEW j \in DOMAIN field', NEW k \in DOMAIN field', j # k
        PROVE  field'[j].of # field'[k].of
    <3>1. \A i \in 1 .. Len(field) : field[i].of # sent + 1
      BY <1>1, <1>4, <2>1
    <3>2. focus = "here" => field'[Len(field) + 1].of = sent + 1
      BY <1>2
    <3>3. CASE /\ j \in 1 .. Len(field) /\ field'[j] = field[j]
               /\ k \in 1 .. Len(field) /\ field'[k] = field[k]
      BY <1>5, <1>6, <2>5, <3>3 DEF Tidy, Distinct
    <3>4. CASE j = Len(field) + 1 /\ focus = "here"
      BY <1>3, <2>5, <3>1, <3>2, <3>4
    <3>5. CASE k = Len(field) + 1 /\ focus = "here"
      BY <1>3, <2>5, <3>1, <3>2, <3>5
    <3> QED
      BY <1>3, <3>3, <3>4, <3>5
  <2> QED
    BY <2>3, <2>4, <2>5 DEF Tidy, Distinct
<1>7. (Excused => Excused') /\ Adrift' = Adrift
  BY <1>1, <1>2 DEF Excused, Adrift, Editor
<1>8. corrections' = 0 /\ focus' = "here" => Len(field') = sent'
  BY <1>1, <1>2 DEF Keeps
<1>9. (prior \/ lost \/ Adrift) /\ (Tidy \/ (corrections > 0 /\ Excused))
  BY <1>1 DEF Keeps, Looking
<1> QED
  BY <1>1, <1>2, <1>6, <1>7, <1>8, <1>9 DEF Keeps, Looking

(* Every step keeps the shapes.                                            *)
LEMMA TypeStep ==
    ASSUME Inv, [Next]_vars
    PROVE  TypeOK'
<1> USE TypingConstants DEF Inv, TypeOK, Ways, Delivery, Shapes, Cells, Classes, Found, Statuses, Verified, Status, Editor, Field, Readable, Looking, Local
<1>1. CASE Interrupted
  BY <1>1 DEF Interrupted, Returns, Starts, vars, typerVars, fieldVars, history, judgeRest, keyed
<1>2. CASE FocusLost
  BY <1>2 DEF FocusLost, Returns, Starts, vars, typerVars, fieldVars, history, judgeRest, keyed
<1>3. CASE Proceed
  <2>1. /\ UNCHANGED <<p, final, sent, located, stable, corrections, before, clean, read, result,
                       stop, field, prior, focus, caret, shown, lost, doubled, late, strayed,
                       behind>>
        /\ pc' = "emit" /\ unasked' = FALSE
    BY <1>3 DEF Proceed, fieldVars
  <2>2. based' \in BOOLEAN /\ window' \in BOOLEAN
    <3>1. (based' = based \/ based' = TRUE) /\ (window' = window \/ window' = TRUE)
      BY <1>3 DEF Proceed
    <3> QED
      BY <3>1
  <2>3. {final', located', stable', clean', stop', prior', lost', doubled', strayed', unasked',
         behind'} \subseteq BOOLEAN
    BY <2>1
  <2>4. /\ p' \in Profiles /\ field' \in Seq(Cells) /\ shown' \in Seq(Cells)
        /\ sent' \in 0 .. p'.chunks /\ before' \in 0 .. corrections'
        /\ corrections' \in 0 .. (IF Editor' THEN 2 ELSE 1) /\ late' \in Nat
    BY <2>1
  <2>5. /\ read' \in Classes /\ result' \in Statuses \cup {"none"} /\ pc' = "emit"
        /\ focus' \in {"here", "next", "stolen"} /\ caret' \in {"end", "home", "beyond"}
    BY <2>1
  <2> HIDE DEF Classes, Statuses
  <2> QED
    BY <2>2, <2>3, <2>4, <2>5
<1>4. CASE EmitText
  <2>0. field' \in Seq(Cells) /\ lost' \in BOOLEAN /\ doubled' \in BOOLEAN
    BY <1>4, Emission
  <2>a. p \in Delivery /\ sent \in Nat /\ sent < p.chunks
    BY <1>4 DEF EmitText
  <2>b. sent' = sent + 1 /\ p' = p /\ late' \in Nat
    BY <1>4 DEF EmitText, Input
  <2>1. sent' \in 0 .. p.chunks
    BY <2>a, <2>b
  <2>2. strayed' \in BOOLEAN
    BY <1>4 DEF EmitText
  <2> QED
    BY <1>4, <2>0, <2>1, <2>2, <2>b DEF EmitText
<1>5. CASE Locate
  <2>1. based' \in BOOLEAN /\ located' \in BOOLEAN /\ clean' \in BOOLEAN
    BY <1>5 DEF Locate
  <2>2. read' \in Classes /\ behind' \in BOOLEAN /\ pc' = "cadence"
    BY <1>5 DEF Locate, Reads
  <2>3. UNCHANGED <<p, final, sent, stable, corrections, before, result, stop, fieldVars, shown,
                   lost, doubled, late, strayed, window, unasked>>
    BY <1>5 DEF Locate
  <2> QED
    BY <2>1, <2>2, <2>3 DEF fieldVars
<1>6. CASE NothingLocated
  BY <1>6 DEF NothingLocated, Returns, vars, typerVars, fieldVars, history, judgeRest, keyed
<1>7. CASE SkipRead
  BY <1>7 DEF SkipRead, vars, typerVars, fieldVars, history, judgeRest, keyed
<1>8. CASE CadenceRead
  <2>1. read' \in Classes /\ behind' \in BOOLEAN /\ before' = corrections /\ pc' = "judge"
    BY <1>8 DEF CadenceRead, ReadCurrentField, Reads
  <2>2. focus' \in {"here", "next", "stolen"} /\ caret' \in {"end", "home", "beyond"} /\ stable' \in BOOLEAN
    BY <1>8 DEF CadenceRead, ReadCurrentField, AfterShiftTab
  <2>3. final' \in BOOLEAN
        /\ UNCHANGED <<p, sent, located, based, corrections, clean, result, stop, field, prior,
                        shown, lost, doubled, late, strayed, window, unasked>>
    BY <1>8 DEF CadenceRead, ReadCurrentField
  <2> QED
    BY <2>1, <2>2, <2>3
<1>9. CASE FinalRead
  <2>1. read' \in Classes /\ behind' \in BOOLEAN /\ before' = corrections /\ pc' = "judge"
    BY <1>9 DEF FinalRead, ReadCurrentField, Reads
  <2>2. focus' \in {"here", "next", "stolen"} /\ caret' \in {"end", "home", "beyond"} /\ stable' \in BOOLEAN
    BY <1>9 DEF FinalRead, ReadCurrentField, AfterShiftTab
  <2>3. final' \in BOOLEAN
        /\ UNCHANGED <<p, sent, located, based, corrections, clean, result, stop, field, prior,
                        shown, lost, doubled, late, strayed, window, unasked>>
    BY <1>9 DEF FinalRead, ReadCurrentField
  <2> QED
    BY <2>1, <2>2, <2>3
<1>10. CASE NoFinalRead
  BY <1>10 DEF NoFinalRead, vars, typerVars, fieldVars, history, judgeRest, keyed
<1>11. CASE LeaveAsRead
  <2>1. based' \in BOOLEAN /\ window' \in BOOLEAN /\ pc' \in {"top", "reread", "recover"}
    BY <1>11 DEF LeaveAsRead, Onward
  <2>2. UNCHANGED <<judgeRest, corrections, clean, read, keyed, behind>>
    BY <1>11 DEF LeaveAsRead
  <2> QED
    BY <2>1, <2>2 DEF judgeRest, keyed, fieldVars
<1>12. CASE LookAgain
  BY <1>12 DEF LookAgain, Judging, vars, typerVars, fieldVars, history, judgeRest, keyed
<1>13. CASE Judge
  BY <1>13 DEF Judge, Onward, Judging, Accepts, vars, typerVars, fieldVars, history, judgeRest, keyed
<1>14. CASE Correct
  <2>1. /\ field' \in Seq(Cells) /\ lost' \in BOOLEAN /\ doubled' \in BOOLEAN
        /\ prior' \in BOOLEAN /\ strayed' \in BOOLEAN
    BY <1>14, Replaying DEF Correct, Judging, judgeRest
  <2>2. corrections' = 1 /\ late' \in Nat
    BY <1>14 DEF Correct, Judging, Replay, Input
  <2>3. based' \in BOOLEAN /\ window' \in BOOLEAN /\ pc' \in {"top", "reread", "recover"}
    BY <1>14 DEF Correct, Onward
  <2>4. /\ UNCHANGED <<p, final, sent, located, stable, before, result, stop, shown, unasked>>
        /\ UNCHANGED <<clean, read, caret, focus, behind>> /\ corrections = 0
    BY <1>14 DEF Correct, Judging, judgeRest
  <2> QED
    BY <2>1, <2>2, <2>3, <2>4
<1>15. CASE GiveUp
  BY <1>15 DEF GiveUp, Onward, Reads, vars, typerVars, fieldVars, history, judgeRest, keyed
<1>16. CASE Repair
  <2>1. field' \in Seq(Cells) /\ prior' \in BOOLEAN /\ strayed' \in BOOLEAN
    BY <1>16, Repairing
  <2>2. corrections' \in 0 .. 2 /\ corrections' = corrections + 1 /\ late' \in Nat
        /\ pc' \in {"chained", "repaired"}
    BY <1>16 DEF Repair, Input
  <2>3. before' \in 0 .. corrections'
    BY <1>16, <2>2 DEF Repair, judgeRest
  <2> QED
    BY <1>16, <2>1, <2>2, <2>3 DEF Repair, judgeRest
<1>17. CASE Restored
  BY <1>17 DEF Restored, Onward, Reads, Accepts, vars, typerVars, fieldVars, history, judgeRest, keyed
<1>18. CASE Chain
  BY <1>18 DEF Chain, Reads, vars, typerVars, fieldVars, history, judgeRest, keyed
<1>19. CASE RepairFailed
  BY <1>19 DEF RepairFailed, Returns, Reads, vars, typerVars, fieldVars, history, judgeRest, keyed
<1>20. CASE Recheck
  BY <1>20 DEF Recheck, Onward, Reads, Moved, AfterShiftTab, Accepts, vars, typerVars, fieldVars, history, judgeRest, keyed
<1>21. CASE CorrectConfirmed
  <2>1. /\ field' \in Seq(Cells) /\ lost' \in BOOLEAN /\ doubled' \in BOOLEAN
        /\ prior' \in BOOLEAN /\ strayed' \in BOOLEAN
    BY <1>21, Replaying DEF CorrectConfirmed, Moved, AfterShiftTab, judgeRest
  <2>2. corrections' = 1 /\ late' \in Nat
    BY <1>21 DEF CorrectConfirmed, Replay, Input
  <2>3. based' \in BOOLEAN /\ window' \in BOOLEAN /\ pc' \in {"top", "reread", "recover"}
    BY <1>21 DEF CorrectConfirmed, Onward
  <2>4. focus' \in {"here", "next", "stolen"}
    BY <1>21 DEF CorrectConfirmed, Moved, AfterShiftTab
  <2> QED
    BY <1>21, <2>1, <2>2, <2>3, <2>4 DEF CorrectConfirmed, judgeRest
<1>22. CASE Reread
  BY <1>22 DEF Reread, Reads, vars, typerVars, fieldVars, history, judgeRest, keyed
<1>23. CASE LateRead
  BY <1>23 DEF LateRead, recoverRest, Reads, vars, typerVars, fieldVars, history, judgeRest, keyed
<1>24. CASE _finalise
  BY <1>24 DEF _finalise, Returns, vars, typerVars, fieldVars, history, judgeRest, keyed
<1>25. CASE Raises
  BY <1>25 DEF Raises, Returns, vars, typerVars, fieldVars, history, judgeRest, keyed
<1>26. CASE Stop
  BY <1>26 DEF Stop, vars, typerVars, fieldVars, history, judgeRest, keyed
<1>27. CASE Steal
  BY <1>27 DEF Steal, vars, typerVars, fieldVars, history, judgeRest, keyed
<1>28. CASE Paint
  BY <1>28 DEF Paint, vars, typerVars, fieldVars, history, judgeRest, keyed
<1>29. CASE UNCHANGED vars
  BY <1>29 DEF vars, typerVars, fieldVars, history, judgeRest, keyed
<1>30. CASE Localise
  BY <1>30 DEF Localise, recoverRest, Reads, vars, typerVars, fieldVars, history, judgeRest, keyed
<1> QED
  BY <1>1, <1>2, <1>3, <1>4, <1>5, <1>6, <1>7, <1>8, <1>9, <1>10, <1>11, <1>12, <1>13, <1>14, <1>15, <1>16, <1>17, <1>18, <1>19, <1>20, <1>21, <1>22, <1>23, <1>24, <1>25, <1>26, <1>27, <1>28, <1>29, <1>30 DEF Next

(* Every step leads from where a step can be to where one can be.          *)
LEMMA WaysStep ==
    ASSUME Inv, [Next]_vars
    PROVE  Ways'
<1> USE TypingConstants DEF Inv, TypeOK, Ways, Delivery, Editor, Field, Readable, Looking, Local, Classes, Found, Matched
<1>1. CASE Interrupted
  BY <1>1 DEF Interrupted, Returns, Starts, vars, typerVars, fieldVars, history, judgeRest, keyed
<1>2. CASE FocusLost
  BY <1>2 DEF FocusLost, Returns, Starts, vars, typerVars, fieldVars, history, judgeRest, keyed
<1>3. CASE Proceed
  BY <1>3 DEF Proceed, Starts, vars, typerVars, fieldVars, history, judgeRest, keyed
<1>4. CASE EmitText
  BY <1>4 DEF EmitText, Input, vars, typerVars, fieldVars, history, judgeRest, keyed
<1>5. CASE Locate
  BY <1>5 DEF Locate, Reads, vars, typerVars, fieldVars, history, judgeRest, keyed
<1>6. CASE NothingLocated
  BY <1>6 DEF NothingLocated, Returns, vars, typerVars, fieldVars, history, judgeRest, keyed
<1>7. CASE SkipRead
  BY <1>7 DEF SkipRead, vars, typerVars, fieldVars, history, judgeRest, keyed
<1>8. CASE CadenceRead
  BY <1>8 DEF CadenceRead, ReadCurrentField, Stabilises, Plain, AfterShiftTab, Due, Reads, vars, typerVars, fieldVars, history, judgeRest, keyed
<1>9. CASE FinalRead
  BY <1>9 DEF FinalRead, ReadCurrentField, Stabilises, Plain, AfterShiftTab, Due, Reads, vars, typerVars, fieldVars, history, judgeRest, keyed
<1>10. CASE NoFinalRead
  BY <1>10 DEF NoFinalRead, vars, typerVars, fieldVars, history, judgeRest, keyed
<1>11. CASE LeaveAsRead
  BY <1>11 DEF LeaveAsRead, Onward, vars, typerVars, fieldVars, history, judgeRest, keyed
<1>12. CASE LookAgain
  BY <1>12 DEF LookAgain, Judging, vars, typerVars, fieldVars, history, judgeRest, keyed
<1>13. CASE Judge
  BY <1>13 DEF Judge, Onward, Judging, Accepts, vars, typerVars, fieldVars, history, judgeRest, keyed
<1>14. CASE Correct
  BY <1>14 DEF Correct, Onward, Judging, Replay, Input, vars, typerVars, fieldVars, history, judgeRest, keyed
<1>15. CASE GiveUp
  BY <1>15 DEF GiveUp, Onward, Reads, vars, typerVars, fieldVars, history, judgeRest, keyed
<1>16. CASE Repair
  BY <1>16 DEF Repair, Input, Touched, vars, typerVars, fieldVars, history, judgeRest, keyed
<1>17. CASE Restored
  BY <1>17 DEF Restored, Onward, Reads, Accepts, vars, typerVars, fieldVars, history, judgeRest, keyed
<1>18. CASE Chain
  BY <1>18 DEF Chain, Reads, vars, typerVars, fieldVars, history, judgeRest, keyed
<1>19. CASE RepairFailed
  BY <1>19 DEF RepairFailed, Returns, Reads, vars, typerVars, fieldVars, history, judgeRest, keyed
<1>20. CASE Recheck
  BY <1>20 DEF Recheck, Onward, Reads, Moved, AfterShiftTab, Accepts, vars, typerVars, fieldVars, history, judgeRest, keyed
<1>21. CASE CorrectConfirmed
  BY <1>21 DEF CorrectConfirmed, Onward, Replay, Input, Moved, AfterShiftTab, vars, typerVars, fieldVars, history, judgeRest, keyed
<1>22. CASE Reread
  BY <1>22 DEF Reread, Reads, vars, typerVars, fieldVars, history, judgeRest, keyed
<1>23. CASE LateRead
  BY <1>23 DEF LateRead, recoverRest, Reads, vars, typerVars, fieldVars, history, judgeRest, keyed
<1>24. CASE _finalise
  BY <1>24 DEF _finalise, Returns, vars, typerVars, fieldVars, history, judgeRest, keyed
<1>25. CASE Raises
  BY <1>25 DEF Raises, Returns, vars, typerVars, fieldVars, history, judgeRest, keyed
<1>26. CASE Stop
  BY <1>26 DEF Stop, vars, typerVars, fieldVars, history, judgeRest, keyed
<1>27. CASE Steal
  BY <1>27 DEF Steal, vars, typerVars, fieldVars, history, judgeRest, keyed
<1>28. CASE Paint
  BY <1>28 DEF Paint, vars, typerVars, fieldVars, history, judgeRest, keyed
<1>29. CASE UNCHANGED vars
  BY <1>29 DEF vars, typerVars, fieldVars, history, judgeRest, keyed
<1>30. CASE Localise
  BY <1>30 DEF Localise, recoverRest, Reads, vars, typerVars, fieldVars, history, judgeRest, keyed
<1> QED
  BY <1>1, <1>2, <1>3, <1>4, <1>5, <1>6, <1>7, <1>8, <1>9, <1>10, <1>11, <1>12, <1>13, <1>14, <1>15, <1>16, <1>17, <1>18, <1>19, <1>20, <1>21, <1>22, <1>23, <1>24, <1>25, <1>26, <1>27, <1>28, <1>29, <1>30 DEF Next

(* An input after the stop spends what the poll before it granted.         *)
LEMMA StopsStep ==
    ASSUME Inv, [Next]_vars
    PROVE  Stops'
<1> USE TypingConstants DEF Inv, TypeOK, Ways, Stops, StopBounded, Delivery, Editor, Looking, Local
<1>1. CASE Interrupted
  BY <1>1 DEF Interrupted, Returns, Starts, vars, typerVars, fieldVars, history, judgeRest, keyed
<1>2. CASE FocusLost
  BY <1>2 DEF FocusLost, Returns, Starts, vars, typerVars, fieldVars, history, judgeRest, keyed
<1>3. CASE Proceed
  BY <1>3 DEF Proceed, Starts, vars, typerVars, fieldVars, history, judgeRest, keyed
<1>4. CASE EmitText
  BY <1>4 DEF EmitText, Input, vars, typerVars, fieldVars, history, judgeRest, keyed
<1>5. CASE Locate
  BY <1>5 DEF Locate, Reads, vars, typerVars, fieldVars, history, judgeRest, keyed
<1>6. CASE NothingLocated
  BY <1>6 DEF NothingLocated, Returns, vars, typerVars, fieldVars, history, judgeRest, keyed
<1>7. CASE SkipRead
  BY <1>7 DEF SkipRead, vars, typerVars, fieldVars, history, judgeRest, keyed
<1>8. CASE CadenceRead
  BY <1>8 DEF CadenceRead, ReadCurrentField, Stabilises, Plain, AfterShiftTab, Due, Reads, vars, typerVars, fieldVars, history, judgeRest, keyed
<1>9. CASE FinalRead
  BY <1>9 DEF FinalRead, ReadCurrentField, Stabilises, Plain, AfterShiftTab, Due, Reads, vars, typerVars, fieldVars, history, judgeRest, keyed
<1>10. CASE NoFinalRead
  BY <1>10 DEF NoFinalRead, vars, typerVars, fieldVars, history, judgeRest, keyed
<1>11. CASE LeaveAsRead
  BY <1>11 DEF LeaveAsRead, Onward, vars, typerVars, fieldVars, history, judgeRest, keyed
<1>12. CASE LookAgain
  BY <1>12 DEF LookAgain, Judging, vars, typerVars, fieldVars, history, judgeRest, keyed
<1>13. CASE Judge
  BY <1>13 DEF Judge, Onward, Judging, Accepts, vars, typerVars, fieldVars, history, judgeRest, keyed
<1>14. CASE Correct
  BY <1>14 DEF Correct, Onward, Judging, Replay, Input, vars, typerVars, fieldVars, history, judgeRest, keyed
<1>15. CASE GiveUp
  BY <1>15 DEF GiveUp, Onward, Reads, vars, typerVars, fieldVars, history, judgeRest, keyed
<1>16. CASE Repair
  BY <1>16 DEF Repair, Input, Touched, vars, typerVars, fieldVars, history, judgeRest, keyed
<1>17. CASE Restored
  BY <1>17 DEF Restored, Onward, Reads, Accepts, vars, typerVars, fieldVars, history, judgeRest, keyed
<1>18. CASE Chain
  BY <1>18 DEF Chain, Reads, vars, typerVars, fieldVars, history, judgeRest, keyed
<1>19. CASE RepairFailed
  BY <1>19 DEF RepairFailed, Returns, Reads, vars, typerVars, fieldVars, history, judgeRest, keyed
<1>20. CASE Recheck
  BY <1>20 DEF Recheck, Onward, Reads, Moved, AfterShiftTab, Accepts, vars, typerVars, fieldVars, history, judgeRest, keyed
<1>21. CASE CorrectConfirmed
  BY <1>21 DEF CorrectConfirmed, Onward, Replay, Input, Moved, AfterShiftTab, vars, typerVars, fieldVars, history, judgeRest, keyed
<1>22. CASE Reread
  BY <1>22 DEF Reread, Reads, vars, typerVars, fieldVars, history, judgeRest, keyed
<1>23. CASE LateRead
  BY <1>23 DEF LateRead, recoverRest, Reads, vars, typerVars, fieldVars, history, judgeRest, keyed
<1>24. CASE _finalise
  BY <1>24 DEF _finalise, Returns, vars, typerVars, fieldVars, history, judgeRest, keyed
<1>25. CASE Raises
  BY <1>25 DEF Raises, Returns, vars, typerVars, fieldVars, history, judgeRest, keyed
<1>26. CASE Stop
  BY <1>26 DEF Stop, vars, typerVars, fieldVars, history, judgeRest, keyed
<1>27. CASE Steal
  BY <1>27 DEF Steal, vars, typerVars, fieldVars, history, judgeRest, keyed
<1>28. CASE Paint
  BY <1>28 DEF Paint, vars, typerVars, fieldVars, history, judgeRest, keyed
<1>29. CASE UNCHANGED vars
  BY <1>29 DEF vars, typerVars, fieldVars, history, judgeRest, keyed
<1>30. CASE Localise
  BY <1>30 DEF Localise, recoverRest, Reads, vars, typerVars, fieldVars, history, judgeRest, keyed
<1> QED
  BY <1>1, <1>2, <1>3, <1>4, <1>5, <1>6, <1>7, <1>8, <1>9, <1>10, <1>11, <1>12, <1>13, <1>14, <1>15, <1>16, <1>17, <1>18, <1>19, <1>20, <1>21, <1>22, <1>23, <1>24, <1>25, <1>26, <1>27, <1>28, <1>29, <1>30 DEF Next

(* The focus guard meets every theft it had a frame for.                   *)
LEMMA GuardsStep ==
    ASSUME Inv, [Next]_vars
    PROVE  Guards'
<1> USE TypingConstants DEF Inv, TypeOK, Ways, Guards, FocusGuard, Guarded, Intruded, Delivery, Looking, Local
<1>1. CASE Interrupted
  BY <1>1 DEF Interrupted, Returns, Starts, vars, typerVars, fieldVars, history, judgeRest, keyed
<1>2. CASE FocusLost
  BY <1>2 DEF FocusLost, Returns, Starts, vars, typerVars, fieldVars, history, judgeRest, keyed
<1>3. CASE Proceed
  <2>1. /\ UNCHANGED <<strayed, located, focus>> /\ pc' = "emit" /\ pc = "top"
        /\ window => window'
    BY <1>3 DEF Proceed, Starts, fieldVars
  <2>2. based' => window'
    <3>1. (based' = based /\ (window => window')) \/ window' = TRUE
      BY <1>3 DEF Proceed
    <3> QED
      BY <3>1
  <2>3. focus = "stolen" => window'
    BY <1>3 DEF Proceed
  <2>4. strayed => window'
    BY <2>1, <2>3
  <2> QED
    BY <2>1, <2>2, <2>3, <2>4
<1>4. CASE EmitText
  <2>1. focus # "here" => window /\ focus = "stolen"
    BY <1>4 DEF EmitText
  <2>2. strayed' => strayed \/ focus # "here"
    BY <1>4 DEF EmitText, fieldVars
  <2>3. UNCHANGED <<window, unasked, located, based, focus>> /\ pc' = "locate"
    BY <1>4 DEF EmitText
  <2> QED
    BY <2>1, <2>2, <2>3, <1>4 DEF EmitText
<1>5. CASE Locate
  BY <1>5 DEF Locate, Reads, vars, typerVars, fieldVars, history, judgeRest, keyed
<1>6. CASE NothingLocated
  BY <1>6 DEF NothingLocated, Returns, vars, typerVars, fieldVars, history, judgeRest, keyed
<1>7. CASE SkipRead
  BY <1>7 DEF SkipRead, vars, typerVars, fieldVars, history, judgeRest, keyed
<1>8. CASE CadenceRead
  BY <1>8 DEF CadenceRead, ReadCurrentField, Stabilises, Plain, AfterShiftTab, Due, Reads, vars, typerVars, fieldVars, history, judgeRest, keyed
<1>9. CASE FinalRead
  BY <1>9 DEF FinalRead, ReadCurrentField, Stabilises, Plain, AfterShiftTab, Due, Reads, vars, typerVars, fieldVars, history, judgeRest, keyed
<1>10. CASE NoFinalRead
  BY <1>10 DEF NoFinalRead, vars, typerVars, fieldVars, history, judgeRest, keyed
<1>11. CASE LeaveAsRead
  BY <1>11 DEF LeaveAsRead, Onward, vars, typerVars, fieldVars, history, judgeRest, keyed
<1>12. CASE LookAgain
  BY <1>12 DEF LookAgain, Judging, vars, typerVars, fieldVars, history, judgeRest, keyed
<1>13. CASE Judge
  BY <1>13 DEF Judge, Onward, Judging, Accepts, vars, typerVars, fieldVars, history, judgeRest, keyed
<1>14. CASE Correct
  BY <1>14 DEF Correct, Onward, Judging, Replay, Input, vars, typerVars, fieldVars, history, judgeRest, keyed
<1>15. CASE GiveUp
  BY <1>15 DEF GiveUp, Onward, Reads, vars, typerVars, fieldVars, history, judgeRest, keyed
<1>16. CASE Repair
  BY <1>16 DEF Repair, Input, Touched, vars, typerVars, fieldVars, history, judgeRest, keyed
<1>17. CASE Restored
  BY <1>17 DEF Restored, Onward, Reads, Accepts, vars, typerVars, fieldVars, history, judgeRest, keyed
<1>18. CASE Chain
  BY <1>18 DEF Chain, Reads, vars, typerVars, fieldVars, history, judgeRest, keyed
<1>19. CASE RepairFailed
  BY <1>19 DEF RepairFailed, Returns, Reads, vars, typerVars, fieldVars, history, judgeRest, keyed
<1>20. CASE Recheck
  BY <1>20 DEF Recheck, Onward, Reads, Moved, AfterShiftTab, Accepts, vars, typerVars, fieldVars, history, judgeRest, keyed
<1>21. CASE CorrectConfirmed
  BY <1>21 DEF CorrectConfirmed, Onward, Replay, Input, Moved, AfterShiftTab, vars, typerVars, fieldVars, history, judgeRest, keyed
<1>22. CASE Reread
  BY <1>22 DEF Reread, Reads, vars, typerVars, fieldVars, history, judgeRest, keyed
<1>23. CASE LateRead
  BY <1>23 DEF LateRead, recoverRest, Reads, vars, typerVars, fieldVars, history, judgeRest, keyed
<1>24. CASE _finalise
  BY <1>24 DEF _finalise, Returns, vars, typerVars, fieldVars, history, judgeRest, keyed
<1>25. CASE Raises
  BY <1>25 DEF Raises, Returns, vars, typerVars, fieldVars, history, judgeRest, keyed
<1>26. CASE Stop
  BY <1>26 DEF Stop, vars, typerVars, fieldVars, history, judgeRest, keyed
<1>27. CASE Steal
  BY <1>27 DEF Steal, vars, typerVars, fieldVars, history, judgeRest, keyed
<1>28. CASE Paint
  BY <1>28 DEF Paint, vars, typerVars, fieldVars, history, judgeRest, keyed
<1>29. CASE UNCHANGED vars
  BY <1>29 DEF vars, typerVars, fieldVars, history, judgeRest, keyed
<1>30. CASE Localise
  BY <1>30 DEF Localise, recoverRest, Reads, vars, typerVars, fieldVars, history, judgeRest, keyed
<1> QED
  BY <1>1, <1>2, <1>3, <1>4, <1>5, <1>6, <1>7, <1>8, <1>9, <1>10, <1>11, <1>12, <1>13, <1>14, <1>15, <1>16, <1>17, <1>18, <1>19, <1>20, <1>21, <1>22, <1>23, <1>24, <1>25, <1>26, <1>27, <1>28, <1>29, <1>30 DEF Next

(* Appends, repairs and the one replay keep the field and what is older.   *)
LEMMA KeepsStep ==
    ASSUME Inv, [Next]_vars
    PROVE  Keeps'
<1> USE TypingConstants DEF Inv, TypeOK, Ways, Keeps, Tidy, Distinct, Excused, Adrift, Delivery, Shapes, Cells, Editor, Field, Looking, Local
<1>1. CASE Interrupted
  BY <1>1 DEF Interrupted, Returns, Starts, vars, typerVars, fieldVars, history, judgeRest, keyed
<1>2. CASE FocusLost
  BY <1>2 DEF FocusLost, Returns, Starts, vars, typerVars, fieldVars, history, judgeRest, keyed
<1>3. CASE Proceed
  BY <1>3 DEF Proceed, Starts, vars, typerVars, fieldVars, history, judgeRest, keyed
<1>4. CASE EmitText
  BY <1>4, Appending
<1>5. CASE Locate
  BY <1>5 DEF Locate, Reads, vars, typerVars, fieldVars, history, judgeRest, keyed
<1>6. CASE NothingLocated
  BY <1>6 DEF NothingLocated, Returns, vars, typerVars, fieldVars, history, judgeRest, keyed
<1>7. CASE SkipRead
  BY <1>7 DEF SkipRead, vars, typerVars, fieldVars, history, judgeRest, keyed
<1>8. CASE CadenceRead
  BY <1>8 DEF CadenceRead, ReadCurrentField, Stabilises, Plain, AfterShiftTab, Due, Reads, vars, typerVars, fieldVars, history, judgeRest, keyed
<1>9. CASE FinalRead
  BY <1>9 DEF FinalRead, ReadCurrentField, Stabilises, Plain, AfterShiftTab, Due, Reads, vars, typerVars, fieldVars, history, judgeRest, keyed
<1>10. CASE NoFinalRead
  BY <1>10 DEF NoFinalRead, vars, typerVars, fieldVars, history, judgeRest, keyed
<1>11. CASE LeaveAsRead
  BY <1>11 DEF LeaveAsRead, Onward, vars, typerVars, fieldVars, history, judgeRest, keyed
<1>12. CASE LookAgain
  BY <1>12 DEF LookAgain, Judging, vars, typerVars, fieldVars, history, judgeRest, keyed
<1>13. CASE Judge
  BY <1>13 DEF Judge, Onward, Judging, Accepts, vars, typerVars, fieldVars, history, judgeRest, keyed
<1>14. CASE Correct
  <2>1. Tidy' \/ Excused'
    BY <1>14, Replaying DEF Correct, Judging, judgeRest
  <2>2. prior' \/ lost' \/ Adrift'
    BY <1>14, Replaying DEF Correct, Judging, judgeRest
  <2>3. corrections' = 1 /\ pc' \in {"top", "reread", "recover"}
    BY <1>14 DEF Correct, Judging, judgeRest, Replay, Onward
  <2> QED
    BY <2>1, <2>2, <2>3
<1>15. CASE GiveUp
  BY <1>15 DEF GiveUp, Onward, Reads, vars, typerVars, fieldVars, history, judgeRest, keyed
<1>16. CASE Repair
  <2>1. corrections' > 0 /\ UNCHANGED <<p, sent, caret, lost>> /\ (prior' = prior \/ Adrift)
    BY <1>16, Repairing DEF Repair, judgeRest
  <2>2. Tidy
    BY <1>16 DEF Repair
  <2>a. /\ field \in Seq(Cells) /\ field' \in Seq(Cells) /\ Len(field') = Len(field)
        /\ \A j \in DOMAIN field : field'[j].of = field[j].of
    BY <1>16, Repairing
  <2>b. DOMAIN field' = DOMAIN field
    BY <2>a
  <2>3. Tidy'
    <3>1. Len(field') <= sent' /\ \A j \in DOMAIN field' : field'[j].of <= sent'
      BY <2>1, <2>2, <2>a, <2>b
    <3>2. Distinct'
      <4>1. SUFFICES ASSUME NEW j \in DOMAIN field', NEW k \in DOMAIN field', j # k
                     PROVE  field'[j].of # field'[k].of
        BY DEF Distinct
      <4>2. field'[j].of = field[j].of /\ field'[k].of = field[k].of
        BY <2>a, <2>b
      <4>3. field[j].of # field[k].of
        BY <2>2, <2>b, <4>1
      <4> QED
        BY <4>2, <4>3
    <3> QED
      BY <3>1, <3>2
  <2> QED
    BY <2>1, <2>3
<1>17. CASE Restored
  BY <1>17 DEF Restored, Onward, Reads, Accepts, vars, typerVars, fieldVars, history, judgeRest, keyed
<1>18. CASE Chain
  BY <1>18 DEF Chain, Reads, vars, typerVars, fieldVars, history, judgeRest, keyed
<1>19. CASE RepairFailed
  BY <1>19 DEF RepairFailed, Returns, Reads, vars, typerVars, fieldVars, history, judgeRest, keyed
<1>20. CASE Recheck
  BY <1>20 DEF Recheck, Onward, Reads, Moved, AfterShiftTab, Accepts, vars, typerVars, fieldVars, history, judgeRest, keyed
<1>21. CASE CorrectConfirmed
  <2>1. Tidy' \/ Excused'
    BY <1>21, Replaying DEF CorrectConfirmed, Moved, AfterShiftTab, judgeRest
  <2>2. prior' \/ lost' \/ Adrift'
    BY <1>21, Replaying DEF CorrectConfirmed, Moved, AfterShiftTab, judgeRest
  <2>3. corrections' = 1 /\ pc' \in {"top", "reread", "recover"}
    BY <1>21 DEF CorrectConfirmed, Moved, AfterShiftTab, judgeRest, Replay, Onward
  <2> QED
    BY <2>1, <2>2, <2>3
<1>22. CASE Reread
  BY <1>22 DEF Reread, Reads, vars, typerVars, fieldVars, history, judgeRest, keyed
<1>23. CASE LateRead
  BY <1>23 DEF LateRead, recoverRest, Reads, vars, typerVars, fieldVars, history, judgeRest, keyed
<1>24. CASE _finalise
  BY <1>24 DEF _finalise, Returns, vars, typerVars, fieldVars, history, judgeRest, keyed
<1>25. CASE Raises
  BY <1>25 DEF Raises, Returns, vars, typerVars, fieldVars, history, judgeRest, keyed
<1>26. CASE Stop
  BY <1>26 DEF Stop, vars, typerVars, fieldVars, history, judgeRest, keyed
<1>27. CASE Steal
  BY <1>27 DEF Steal, vars, typerVars, fieldVars, history, judgeRest, keyed
<1>28. CASE Paint
  BY <1>28 DEF Paint, vars, typerVars, fieldVars, history, judgeRest, keyed
<1>29. CASE UNCHANGED vars
  BY <1>29 DEF vars, typerVars, fieldVars, history, judgeRest, keyed
<1>30. CASE Localise
  BY <1>30 DEF Localise, recoverRest, Reads, vars, typerVars, fieldVars, history, judgeRest, keyed
<1> QED
  BY <1>1, <1>2, <1>3, <1>4, <1>5, <1>6, <1>7, <1>8, <1>9, <1>10, <1>11, <1>12, <1>13, <1>14, <1>15, <1>16, <1>17, <1>18, <1>19, <1>20, <1>21, <1>22, <1>23, <1>24, <1>25, <1>26, <1>27, <1>28, <1>29, <1>30 DEF Next

(* What was read stays in the field until the call returns.                *)
LEMMA ReadingStep ==
    ASSUME Inv, [Next]_vars
    PROVE  Reading'
<1> USE TypingConstants DEF Inv, TypeOK, Ways, Reading, Trails, Attested, VerifiedHolds, Match, Contains, Legible, Ends, Delivery, Shapes, Cells, Classes, Found, Verified, Editor, Field, Looking, Local
<1>1. CASE Interrupted
  BY <1>1 DEF Interrupted, Returns, Starts, vars, typerVars, fieldVars, history, judgeRest, keyed
<1>2. CASE FocusLost
  BY <1>2 DEF FocusLost, Returns, Starts, vars, typerVars, fieldVars, history, judgeRest, keyed
<1>3. CASE Proceed
  BY <1>3 DEF Proceed, Starts, vars, typerVars, fieldVars, history, judgeRest, keyed
<1>4. CASE EmitText
  <2>1. /\ field \in Seq(Cells) /\ UNCHANGED <<corrections, shown, clean, result>>
        /\ ~clean /\ pc' = "locate" /\ result = "none"
    BY <1>4 DEF EmitText
  <2>2. Trails'
    BY <1>4, <2>1, Emission
  <2> QED
    BY <2>1, <2>2
<1>5. CASE Locate
  <2>1. /\ UNCHANGED <<p, sent, field, shown, corrections, result>> /\ pc' = "cadence" /\ result = "none"
    BY <1>5 DEF Locate, fieldVars
  <2>2. Trails'
    BY <2>1
  <2>3. CASE UNCHANGED <<clean, read, behind>>
    BY <2>1, <2>2, <2>3
  <2>4. CASE \E c \in Readable : Reads(c)
    <3>1. Attested'
      BY <2>1, <2>4, Looked
    <3> QED
      BY <2>1, <2>2, <3>1
  <2>5. UNCHANGED <<clean, read, behind>> \/ \E c \in Readable : Reads(c)
    BY <1>5 DEF Locate
  <2> QED
    BY <2>3, <2>4, <2>5
<1>6. CASE NothingLocated
  BY <1>6 DEF NothingLocated, Returns, vars, typerVars, fieldVars, history, judgeRest, keyed
<1>7. CASE SkipRead
  BY <1>7 DEF SkipRead, vars, typerVars, fieldVars, history, judgeRest, keyed
<1>8. CASE CadenceRead
  <2>1. /\ UNCHANGED <<p, sent, field, shown, corrections, result>> /\ pc' = "judge" /\ result = "none" /\ ~clean /\ ~clean'
    BY <1>8 DEF CadenceRead, ReadCurrentField, Due
  <2>2. Trails'
    BY <2>1
  <2>3. Attested'
    <3>1. CASE \E c \in Readable : Reads(c)
      BY <2>1, <3>1, Looked
    <3>2. CASE Reads("none")
      BY <3>2 DEF Reads
    <3> QED
      BY <1>8, <3>1, <3>2 DEF CadenceRead, ReadCurrentField
  <2> QED
    BY <2>1, <2>2, <2>3
<1>9. CASE FinalRead
  <2>1. /\ UNCHANGED <<p, sent, field, shown, corrections, result>> /\ pc' = "judge" /\ result = "none" /\ ~clean /\ ~clean'
    BY <1>9 DEF FinalRead, ReadCurrentField
  <2>2. Trails'
    BY <2>1
  <2>3. Attested'
    <3>1. CASE \E c \in Readable : Reads(c)
      BY <2>1, <3>1, Looked
    <3>2. CASE Reads("none")
      BY <3>2 DEF Reads
    <3> QED
      BY <1>9, <3>1, <3>2 DEF FinalRead, ReadCurrentField
  <2> QED
    BY <2>1, <2>2, <2>3
<1>10. CASE NoFinalRead
  BY <1>10 DEF NoFinalRead, vars, typerVars, fieldVars, history, judgeRest, keyed
<1>11. CASE LeaveAsRead
  BY <1>11 DEF LeaveAsRead, Onward, vars, typerVars, fieldVars, history, judgeRest, keyed
<1>12. CASE LookAgain
  BY <1>12 DEF LookAgain, Judging, vars, typerVars, fieldVars, history, judgeRest, keyed
<1>13. CASE Judge
  BY <1>13 DEF Judge, Onward, Judging, Accepts, vars, typerVars, fieldVars, history, judgeRest, keyed
<1>14. CASE Correct
  BY <1>14 DEF Correct, Onward, Judging, Replay, Input, vars, typerVars, fieldVars, history, judgeRest, keyed
<1>15. CASE GiveUp
  <2>1. /\ UNCHANGED <<p, sent, field, shown, corrections, result>> /\ result = "none"
    BY <1>15 DEF GiveUp, judgeRest, keyed, fieldVars
  <2>2. Trails'
    BY <2>1
  <2>3. Attested'
    BY <1>15, <2>1, Looked DEF GiveUp
  <2> QED
    BY <2>1, <2>2, <2>3
<1>16. CASE Repair
  <2>1. /\ corrections \in Nat /\ corrections' = corrections + 1
        /\ pc' \in {"chained", "repaired"} /\ pc \in Looking
        /\ UNCHANGED <<clean, result>>
    BY <1>16 DEF Repair, judgeRest
  <2>2. corrections' # 0 /\ ~clean' /\ result' = "none"
    BY <2>1
  <2> QED
    BY <2>1, <2>2
<1>17. CASE Restored
  <2>1. /\ UNCHANGED <<p, sent, field, shown, corrections, result>> /\ result = "none"
    BY <1>17 DEF Restored, judgeRest, keyed, fieldVars
  <2>2. Trails'
    BY <2>1
  <2>3. Attested'
    BY <1>17, <2>1, Looked DEF Restored
  <2> QED
    BY <2>1, <2>2, <2>3
<1>18. CASE Chain
  BY <1>18 DEF Chain, Reads, vars, typerVars, fieldVars, history, judgeRest, keyed
<1>19. CASE RepairFailed
  BY <1>19 DEF RepairFailed, Returns, Reads, vars, typerVars, fieldVars, history, judgeRest, keyed
<1>20. CASE Recheck
  <2>1. /\ UNCHANGED <<p, sent, field, shown, corrections, result>> /\ result = "none" /\ read = "edit"
    BY <1>20 DEF Recheck, judgeRest
  <2>2. Trails'
    BY <2>1
  <2>3. Attested'
    <3>1. CASE \E c \in Readable : Reads(c)
      BY <2>1, <3>1, Looked
    <3>2. CASE UNCHANGED read
      BY <2>1, <3>2
    <3> QED
      BY <1>20, <3>1, <3>2 DEF Recheck
  <2> QED
    BY <2>1, <2>2, <2>3
<1>21. CASE CorrectConfirmed
  BY <1>21 DEF CorrectConfirmed, Onward, Replay, Input, Moved, AfterShiftTab, vars, typerVars, fieldVars, history, judgeRest, keyed
<1>22. CASE Reread
  <2>1. /\ UNCHANGED <<p, sent, field, shown, corrections, result>> /\ result = "none"
    BY <1>22 DEF Reread, fieldVars
  <2>2. Trails'
    BY <2>1
  <2>3. Attested'
    BY <1>22, <2>1, Looked DEF Reread
  <2> QED
    BY <2>1, <2>2, <2>3
<1>23. CASE LateRead
  <2>1. /\ UNCHANGED <<p, sent, field, shown, corrections, result>> /\ result = "none"
    BY <1>23 DEF LateRead, recoverRest, fieldVars
  <2>2. Trails'
    BY <2>1
  <2>3. Attested'
    BY <1>23, <2>1, Looked DEF LateRead
  <2> QED
    BY <2>1, <2>2, <2>3
<1>24. CASE _finalise
  <2>1. /\ UNCHANGED <<p, sent, field, shown, corrections, read, behind, clean>>
        /\ pc = "recover" /\ pc' = "done" /\ result' \in Status
    BY <1>24 DEF _finalise, Returns, fieldVars
  <2>2. Trails' /\ Attested /\ Attested'
    BY <2>1
  <2>3. /\ Match(field)' = Match(field) /\ Contains(field)' = Contains(field)
    BY <2>1
  <2>4. VerifiedHolds'
    BY <2>1, <2>2, <2>3 DEF Status
  <2> QED
    BY <2>1, <2>2, <2>4
<1>25. CASE Raises
  BY <1>25 DEF Raises, Returns, vars, typerVars, fieldVars, history, judgeRest, keyed
<1>26. CASE Stop
  BY <1>26 DEF Stop, vars, typerVars, fieldVars, history, judgeRest, keyed
<1>27. CASE Steal
  BY <1>27 DEF Steal, vars, typerVars, fieldVars, history, judgeRest, keyed
<1>28. CASE Paint
  BY <1>28 DEF Paint, vars, typerVars, fieldVars, history, judgeRest, keyed
<1>29. CASE UNCHANGED vars
  <2>1. UNCHANGED <<p, pc, sent, corrections, clean, read, result, field, shown, behind>>
    BY <1>29 DEF vars, typerVars, fieldVars, history
  <2>2. Match(field)' = Match(field) /\ Contains(field)' = Contains(field)
    BY <2>1
  <2>3. Trails'
    BY <2>1
  <2>4. (pc' \in {"judge", "recover"} \/ clean' => Attested') /\ VerifiedHolds'
    BY <2>1, <2>2
  <2> QED
    BY <2>3, <2>4
<1>30. CASE Localise
  <2>1. /\ UNCHANGED <<p, sent, field, shown, corrections, clean, result>> /\ result = "none"
        /\ pc = "recover"
    BY <1>30 DEF Localise, recoverRest, fieldVars
  <2>2. Trails'
    BY <2>1
  <2>3. Attested'
    <3>1. CASE read = "contains" /\ read' = "carved" /\ UNCHANGED behind
      <4>1. Contains(field)' = Contains(field)
        BY <2>1
      <4>2. corrections = 0 \/ ~behind => Contains(field)
        BY <2>1, <3>1
      <4> QED
        BY <2>1, <3>1, <4>1, <4>2
    <3>2. CASE Contains(shown) /\ Reads("carved")
      BY <2>1, <3>2, Sighted
    <3>3. CASE Reads("elsewhere")
      BY <3>3 DEF Reads
    <3> QED
      BY <1>30, <3>1, <3>2, <3>3 DEF Localise
  <2> QED
    BY <2>1, <2>2, <2>3
<1> QED
  BY <1>1, <1>2, <1>3, <1>4, <1>5, <1>6, <1>7, <1>8, <1>9, <1>10, <1>11, <1>12, <1>13, <1>14, <1>15, <1>16, <1>17, <1>18, <1>19, <1>20, <1>21, <1>22, <1>23, <1>24, <1>25, <1>26, <1>27, <1>28, <1>29, <1>30 DEF Next

LEMMA InitInv ==
    ASSUME Init
    PROVE  Inv
<1> USE TypingConstants DEF Init
<1>1. TypeOK
  <2>1. p.chunks \in Nat
    BY DEF Delivery
  <2>2. field \in Seq(Cells) /\ shown \in Seq(Cells)
    OBVIOUS
  <2>3. read \in Classes /\ result \in Statuses \cup {"none"}
    BY DEF Classes, Found
  <2>4. sent \in 0 .. p.chunks /\ corrections \in 0 .. 2 /\ before \in 0 .. corrections /\ late \in Nat
    BY <2>1
  <2>5. {final, located, based, stable, clean, stop, prior, lost, doubled, strayed, window, unasked, behind} \subseteq BOOLEAN
    OBVIOUS
  <2> QED
    BY <2>2, <2>3, <2>4, <2>5 DEF TypeOK
<1>2. Ways /\ Stops /\ Guards
  BY DEF Ways, Stops, Guards, Looking, Local, StopBounded, FocusGuard, Delivery
<1>3. Keeps /\ Reading
  BY DEF Keeps, Tidy, Distinct, Adrift, Looking, Reading, Trails, Attested, VerifiedHolds, Verified
<1> QED
  BY <1>1, <1>2, <1>3 DEF Inv

LEMMA Invariance == Spec => []Inv
<1>1. Init => Inv
  BY InitInv
<1>2. Inv /\ [Next]_vars => Inv'
  BY TypeStep, WaysStep, StopsStep, GuardsStep, KeepsStep, ReadingStep DEF Inv
<1> QED
  BY <1>1, <1>2, PTL DEF Spec

(* The state of _humanized keeps its shape.                                *)
THEOREM TypeCorrect == Spec => []TypeOK
<1>1. Inv => TypeOK
  BY DEF Inv
<1> QED
  BY <1>1, Invariance, PTL

(* What type_text returned as verified is in the field, whatever was lost, *)
(* doubled or misread, in a longer text where it was carved out of one; but*)
(* not if it was found elsewhere, nor if a correction was judged by a frame*)
(* that trails.                                                            *)
THEOREM VerifiedStaysTrue == Spec => []VerifiedHolds
<1>1. Inv => VerifiedHolds
  BY DEF Inv, Reading
<1> QED
  BY <1>1, Invariance, PTL

(* After should_continue turned false one more input begins, two where an  *)
(* editor's repairs are chained, however long the text is.                 *)
THEOREM StopIsBounded == Spec => []StopBounded
<1>1. Inv => StopBounded
  BY DEF Inv, Stops
<1> QED
  BY <1>1, Invariance, PTL

(* maybe_correct erases nothing older unless input was lost or an editor's *)
(* caret was left elsewhere, and repeats no chunk unless a key was doubled *)
(* or lost, the caret was not behind the text, or the clear met its cap.   *)
THEOREM FieldIsKept == Spec => []FieldKept
<1>1. Inv => FieldKept
  BY DEF Inv, Keeps, Tidy, Distinct, Excused, FieldKept
<1> QED
  BY <1>1, Invariance, PTL

(* No text, of a chunk or of a correction, goes to a window that the focus *)
(* guard had a frame of before a chunk.                                    *)
THEOREM GuardSeesThefts == Spec => []FocusGuard
<1>1. Inv => FocusGuard
  BY DEF Inv, Guards
<1> QED
  BY <1>1, Invariance, PTL

=============================================================================
