--------------------------- MODULE WatchedTyping ---------------------------
(***************************************************************************)
(* One watched type_text of executor/typing.py: chunks go out blind, the   *)
(* frames are looked at, a mismatch is corrected at most once, and the     *)
(* result says what was verified. The machine types into whatever has the  *)
(* focus, loses or bends what it is sent, and its video trails.            *)
(*                                                                         *)
(* The text is its chunks 1 .. chunks, and the field is the control that   *)
(* had the focus when the first of them went out. Recognition is a choice: *)
(* any class of misreading is possible, but nothing is read that the       *)
(* screen does not show. A step is the code between two awaits that        *)
(* another party can use.                                                  *)
(***************************************************************************)
EXTENDS Naturals, Sequences

CONSTANTS
    Profiles,       \* the deliveries under study, see Delivery
    MaxBackspaces   \* MAX_BACKSPACES, counted in chunks

(* What type_text derives from its arguments: exact comparison, declared   *)
(* prose, the kind of control, the printer transport, a payload that starts*)
(* with blanks, at most 20 characters, a read that moves the caret instead *)
(* of the focus. And of the target: the screen shows the text in another   *)
(* place as well.                                                          *)
Delivery == [chunks : Nat \ {0}, precise : BOOLEAN, prose : BOOLEAN,
             control : {"field", "editor", "other"}, fast : BOOLEAN, indent : BOOLEAN,
             short : BOOLEAN, home : BOOLEAN, echoed : BOOLEAN]

ASSUME TypingConstants == Profiles \subseteq Delivery /\ MaxBackspaces \in Nat

VARIABLES
    p,              \* the delivery
    pc,             \* the await _humanized is suspended at
    final,          \* the read under way is the final one
    sent,           \* chunks emitted: typed_so_far
    located,        \* cur_region is known
    based,          \* grid_prev already shows what took the focus
    stable,         \* stable_field_read_performed
    corrections, before,    \* and its value when the final read began
    clean,          \* verified_clean
    read,           \* last_read, as the verifier classifies it
    result,         \* the status returned
    stop,           \* should_continue() is false
    field,          \* what the control holds behind the text it held before
    prior,          \* that earlier text is intact
    shown,          \* the field in the frames
    focus, caret,   \* where input goes
    lost,           \* history: text got lost, or a Backspace came twice
    doubled,        \* history: text came twice, or a Backspace got lost
    late,           \* history: inputs begun after the stop
    strayed,        \* history: text went to another window
    window,         \* history: the focus guard was blind
    unasked,        \* history: no chunk was let out since the focus was taken
    behind          \* history: the last read was of an older field

typerVars == <<final, sent, located, based, stable, corrections, before, clean, read, result>>
fieldVars == <<field, prior, focus, caret>>
history == <<lost, doubled, late, strayed, window, unasked, behind>>
vars == <<p, pc, typerVars, stop, fieldVars, shown, history>>

Shapes == {"good", "bent", "short", "long"}
Cells == [of : Nat, shape : Shapes]
Verified == {"verified_exact", "verified_safe_normalized", "verified_with_warnings"}
Statuses == Verified \cup {"blocked_by_policy", "failed_focus_lost", "failed_repair",
                           "unverified", "failed", "raised"}
(* "elsewhere" is the text, found where the field is not; "carved" is the  *)
(* text cut out of a longer one.                                           *)
Found == {"match", "elsewhere", "carved"}
Classes == Found \cup {"none", "contains", "prefix", "noise", "layout", "case", "other",
                       "edit", "pronoun"}

Editor == p.precise /\ p.control = "editor"
Field == p.control = "field"

(* compute_verdict: exact text must be there glyph for glyph; for prose a  *)
(* few wrong glyphs are tolerated. A glyph that came twice at either end   *)
(* of exact text leaves it whole inside the longer one.                    *)
Legible(cell, j, shapes) == cell.of = j /\ (p.precise => cell.shape \in shapes)
Ends(j) == IF j \in {1, sent} THEN {"good", "long"} ELSE {"good"}
Match(s) == Len(s) = sent /\ \A j \in DOMAIN s : Legible(s[j], j, {"good"})
Contains(s) ==
    \E a \in 0 .. Len(s) : a + sent <= Len(s) /\ \A j \in 1 .. sent : Legible(s[a + j], j, Ends(j))

(* What a read of the frame may yield. One-edit and standalone-i evidence  *)
(* and a pure case difference exist for exact text only.                   *)
Readable ==
    {c \in Classes \ {"carved"} :
        /\ c = "match" => Match(shown)
        /\ c = "elsewhere" => p.echoed \/ strayed
        /\ c = "contains" => Contains(shown)
        /\ c \in {"case", "edit"} => p.precise
        /\ c = "edit" => p.short
        /\ c = "pronoun" => Editor}

Reads(c) == read' = c /\ behind' = (shown # field)

TypeOK ==
    /\ p \in Profiles
    /\ pc \in {"top", "emit", "locate", "cadence", "judge", "pronoun", "chained",
               "glyph", "repaired", "tab", "blink", "reread", "recover", "done"}
    /\ sent \in 0 .. p.chunks /\ before \in 0 .. corrections
    /\ corrections \in 0 .. (IF Editor THEN 2 ELSE 1)
    /\ {final, located, based, stable, clean, stop, prior, lost, doubled, strayed, window,
        unasked, behind} \subseteq BOOLEAN
    /\ read \in Classes /\ result \in Statuses \cup {"none"}
    /\ field \in Seq(Cells) /\ shown \in Seq(Cells)
    /\ focus \in {"here", "next", "stolen"} /\ caret \in {"end", "home", "beyond"}
    /\ late \in Nat

Init ==
    /\ p \in Profiles /\ pc = "top"
    /\ final = FALSE /\ sent = 0 /\ located = FALSE /\ based = FALSE /\ stable = FALSE
    /\ corrections = 0 /\ before = 0 /\ clean = FALSE /\ read = "none" /\ result = "none"
    /\ stop = FALSE
    /\ field = <<>> /\ prior = TRUE /\ shown = <<>> /\ focus = "here" /\ caret = "end"
    /\ lost = FALSE /\ doubled = FALSE /\ late = 0 /\ strayed = FALSE
    /\ window = FALSE /\ unasked = FALSE /\ behind = FALSE

Returns(status) ==
    /\ pc' = "done" /\ result' = status
    /\ UNCHANGED <<p, final, sent, located, based, stable, corrections, before, clean, stop,
                   fieldVars, shown, lost, doubled, late, strayed, window, unasked>>

(* An input that begins although control was taken away.                   *)
Input == late' = late + (IF stop THEN 1 ELSE 0)

----------------------------------------------------------------------------
(* The chunks. The poll stands before each of them.                        *)
Interrupted ==
    /\ pc = "top" /\ sent < p.chunks /\ stop
    /\ Returns("blocked_by_policy") /\ UNCHANGED <<read, behind>>

\* A mutant: the stop is not polled between chunks.
StartsUnpolled == pc = "top" /\ sent < p.chunks
Starts == pc = "top" /\ sent < p.chunks /\ ~stop
Intruded == focus = "stolen" /\ ~based
Guarded == sent > 0 /\ located

(* The frame before a chunk shows a change away from the field.            *)
FocusLost ==
    /\ Starts /\ Guarded /\ Intruded
    /\ Returns("failed_focus_lost") /\ UNCHANGED <<read, behind>>

\* A mutant: the frame before a chunk is not compared.
ProceedUnseen ==
    /\ Starts /\ pc' = "emit" /\ unasked' = FALSE
    /\ UNCHANGED <<p, final, sent, located, based, stable, corrections, before, clean, read, result,
                   stop, fieldVars, shown, lost, doubled, late, strayed, window, behind>>

(* It shows none, the capture failed, or moving prose is found again and   *)
(* the frame becomes the new baseline.                                     *)
Proceed ==
    /\ Starts /\ pc' = "emit" /\ unasked' = FALSE
    /\ \/ ~(Guarded /\ Intruded) /\ UNCHANGED <<based, window>>
       \/ Guarded /\ Intruded /\ window' = TRUE /\ UNCHANGED based
       \/ Guarded /\ Intruded /\ p.fast /\ ~p.precise /\ window' = TRUE /\ based' = TRUE
    /\ UNCHANGED <<p, final, sent, located, stable, corrections, before, clean, read, result,
                   stop, fieldVars, shown, lost, doubled, late, strayed, behind>>

EmitText ==
    /\ pc = "emit" /\ pc' = "locate"
    /\ sent' = sent + 1
    /\ Input
    /\ \E shape \in Shapes :
          IF focus = "here"
          THEN /\ field' = Append(field, [of |-> sent', shape |-> shape])
               /\ lost' = (lost \/ shape = "short")
               /\ doubled' = (doubled \/ shape = "long")
               /\ UNCHANGED strayed
          ELSE strayed' = TRUE /\ UNCHANGED <<field, lost, doubled>>
    /\ UNCHANGED <<p, final, located, based, stable, corrections, before, clean, read, result,
                   stop, prior, focus, caret, shown, window, unasked, behind>>

(* Changed pixels or recognised text place the field, and what they show   *)
(* is the next baseline. Full recognition may prove the text on the way. A *)
(* first chunk too short to be found is let pass, a longer one is not.     *)
Locate ==
    /\ pc = "locate"
    /\ \/ /\ pc' = "cadence" /\ located' = TRUE
          /\ \/ UNCHANGED <<clean, read, behind>>
             \/ /\ ~located /\ p.precise /\ sent = p.chunks
                /\ \E c \in Readable \cap Found : Reads(c)
                /\ clean' = TRUE
       \/ /\ ~located /\ sent = 1
          /\ pc' = "cadence" /\ UNCHANGED <<located, clean, read, behind>>
    /\ based' \in {based, focus = "stolen"}
    /\ UNCHANGED <<p, final, sent, stable, corrections, before, result, stop, fieldVars, shown,
                   lost, doubled, late, strayed, window, unasked>>

NothingLocated ==
    /\ pc = "locate" /\ ~located
    /\ Returns("failed_focus_lost") /\ UNCHANGED <<read, behind>>

(* cadence: the first chunk, then every third of a longer text.            *)
Due == ~clean /\ located /\ (sent = 1 \/ (~p.short /\ sent % 3 = 1))

SkipRead ==
    /\ pc = "cadence" /\ ~Due /\ pc' = "top"
    /\ UNCHANGED <<p, typerVars, stop, fieldVars, shown, history>>

----------------------------------------------------------------------------
(* read_current_field: the complete exact text of a field or an editor is  *)
(* read once with the caret out of the way. The caret goes Home. In an     *)
(* editor End or Ctrl+End follows (failures are suppressed), which is      *)
(* beyond where it was if older text stands there; in a field nothing does.*)
(* Or the focus goes on with Tab and back with Shift-Tab (the same).       *)
Stabilises == p.precise /\ p.control # "other" /\ sent = p.chunks /\ ~stable
Plain == ~Stabilises \/ p.indent
AfterShiftTab == {focus} \cup (IF focus = "here" THEN {"next"} ELSE {})

ReadCurrentField ==
    /\ \/ /\ Plain
          /\ \E c \in Readable : Reads(c)
          /\ UNCHANGED <<stable, focus, caret>>
       \/ Stabilises /\ stop /\ Reads("none") /\ UNCHANGED <<stable, focus, caret>>
       \/ /\ Stabilises /\ ~stop /\ stable' = TRUE
          /\ \E c \in Readable : Reads(c)
          /\ \/ Editor /\ caret' \in {"end", "home", "beyond"} /\ UNCHANGED focus
             \/ Field /\ p.home /\ caret' = "home" /\ UNCHANGED focus
             \/ Field /\ ~p.home /\ focus' \in AfterShiftTab /\ UNCHANGED caret
    /\ pc' = "judge" /\ before' = corrections
    /\ UNCHANGED <<p, sent, located, based, corrections, clean, result, stop, field, prior,
                   shown, lost, doubled, late, strayed, window, unasked>>

CadenceRead == pc = "cadence" /\ Due /\ final' = FALSE /\ ReadCurrentField

FinalRead ==
    /\ pc = "top" /\ sent = p.chunks /\ ~clean /\ located
    /\ final' = TRUE /\ ReadCurrentField

NoFinalRead ==
    /\ pc = "top" /\ sent = p.chunks /\ (clean \/ ~located)
    /\ pc' = "recover"
    /\ UNCHANGED <<p, typerVars, stop, fieldVars, shown, history>>

----------------------------------------------------------------------------
(* maybe_correct. What follows it: after a cadence read that found the     *)
(* budget spent the baseline is renewed; after a final one that corrected, *)
(* the field is read again.                                                *)
Onward(made) ==
    /\ pc' = IF ~final THEN "top" ELSE IF made > before THEN "reread" ELSE "recover"
    /\ IF ~final /\ made > 0
       THEN based' = (focus = "stolen") /\ window' = (window \/ based')
       ELSE UNCHANGED <<based, window>>

Matched == Found \cup {"contains"}

\* A mutant: part of the text is taken for all of it.
AcceptsPart(c) == clean' = (clean \/ c \in Matched)
Accepts(c) == clean' = (clean \/ (c \in Matched /\ sent = p.chunks))

judgeRest == <<p, final, sent, located, stable, before, result, stop, shown, unasked>>
keyed == <<fieldVars, lost, doubled, late, strayed>>    \* what the keys of a correction change

(* The correction is spent or control was taken away.                      *)
LeaveAsRead ==
    /\ pc = "judge" /\ (corrections > 0 \/ stop)
    /\ Onward(corrections)
    /\ UNCHANGED <<judgeRest, corrections, clean, read, keyed, behind>>

\* A mutant: corrections are not limited to one.
JudgingAlways == pc = "judge" /\ ~stop
Judging == pc = "judge" /\ corrections = 0 /\ ~stop

(* Evidence that needs a second look first: a standalone i, one wrong or   *)
(* missing glyph of an editor row, a one-edit reading of a short text.     *)
LookAgain ==
    /\ Judging
    /\ \/ read = "pronoun" /\ pc' = "pronoun"
       \/ Editor /\ read # "pronoun" /\ pc' = "glyph"
       \/ read = "edit" /\ sent = p.chunks /\ pc' = IF Field THEN "tab" ELSE "blink"
    /\ UNCHANGED <<judgeRest, based, window, corrections, clean, read, keyed, behind>>

(* The first chunk of a longer text has at most 20 characters, two of its  *)
(* chunks have more.                                                       *)
LongSoFar == p.precise /\ Field /\ ~p.short /\ sent > 1

Replayable ==
    /\ read \in {"layout", "case"} \/ (read = "other" /\ ~p.precise)
    /\ ~LongSoFar
    /\ ~(Editor /\ p.indent) /\ ~p.fast

(* A match is clean; anything else that permits no replay is left alone.   *)
Judge ==
    /\ Judging /\ read # "pronoun" /\ (Replayable => read = "case")
    /\ Accepts(read)
    /\ Onward(corrections)
    /\ UNCHANGED <<judgeRest, corrections, read, keyed, behind>>

\* A mutant: the whole text is cleared, not what was sent.
ErasedText == IF p.chunks > MaxBackspaces THEN MaxBackspaces ELSE p.chunks

(* _clear_recent_input: one Backspace for each character sent, up to the   *)
(* cap. If every key came once this takes the last chunks, as many as were *)
(* sent. Else it ends anywhere, inside a chunk too, or in older text.      *)
Erased == IF sent > MaxBackspaces THEN MaxBackspaces ELSE sent
Remaining == IF Erased < Len(field) THEN SubSeq(field, 1, Len(field) - Erased) ELSE <<>>
Prefixes == {SubSeq(field, 1, k) : k \in 0 .. Len(field)}
Rests == Prefixes \cup {[s EXCEPT ![Len(s)].shape = "short"] : s \in Prefixes \ {<<>>}}
Short(rest) == Len(rest) <= Len(Remaining) /\ rest # Remaining

(* The clear and emit_text: the text comes again where the caret then is.  *)
(* Neither looks who has the focus.                                        *)
Replay ==
    /\ corrections' = corrections + 1
    /\ Input
    /\ strayed' = (strayed \/ focus' = "stolen")
    /\ IF focus' # "here" THEN UNCHANGED <<field, prior, lost, doubled>>
       ELSE \E shape \in Shapes, rest \in Rests, eaten \in BOOLEAN :
              LET again == [j \in 1 .. sent |-> [of |-> j, shape |-> shape]] IN
              /\ CASE caret = "home" -> field' = again \o field /\ UNCHANGED prior
                   [] caret = "beyond" -> field' = field \o again /\ prior' = (prior /\ ~eaten)
                   [] caret = "end" -> /\ field' = rest \o again
                                       /\ eaten => rest = <<>>
                                       /\ prior' = (prior /\ ~eaten /\ Erased <= Len(field))
              /\ caret # "end" => rest = Remaining
              /\ lost' = (lost \/ shape = "short" \/ (caret = "end" /\ (eaten \/ Short(rest))))
              /\ doubled' = (doubled \/ shape = "long" \/ Len(rest) > Len(Remaining))

Correct ==
    /\ Judging /\ Replayable
    /\ UNCHANGED focus
    /\ Replay
    /\ Onward(corrections + 1)
    /\ UNCHANGED <<judgeRest, clean, read, caret, behind>>

(* The second look does not confirm, or a gate of the repair is closed.    *)
GiveUp ==
    /\ pc \in {"pronoun", "glyph"}
    /\ \E c \in Readable : Reads(c)
    /\ Onward(corrections)
    /\ UNCHANGED <<judgeRest, corrections, clean, keyed>>

(* One glyph is replaced or inserted, counted from Home or End. Keys of    *)
(* the repair may get lost too, so that the chunk it is in may end in any  *)
(* shape; and where the caret was left in another line, that is older text.*)
Adrift == Editor /\ caret # "end"
Touched == {field} \cup {[field EXCEPT ![j].shape = shape] : j \in DOMAIN field, shape \in Shapes}

Repair ==
    /\ \/ pc = "pronoun" /\ pc' = "chained"
       \/ pc = "glyph" /\ corrections < 2 /\ pc' = "repaired"
    /\ corrections' = corrections + 1
    /\ Input
    /\ strayed' = (strayed \/ focus = "stolen")
    /\ \/ focus # "here" /\ UNCHANGED <<field, prior>>
       \/ focus = "here" /\ caret # "beyond" /\ field' \in Touched /\ UNCHANGED prior
       \/ focus = "here" /\ Adrift /\ prior' = FALSE /\ UNCHANGED field
    /\ UNCHANGED <<judgeRest, based, window, clean, read, focus, caret, lost, doubled, behind>>

(* The repaired row is read; a pronoun's repair may uncover a wrong glyph. *)
Restored ==
    /\ pc \in {"chained", "repaired"}
    /\ \E c \in Readable \cap Found : Reads(c) /\ Accepts(c)
    /\ Onward(corrections)
    /\ UNCHANGED <<judgeRest, corrections, keyed>>

Chain ==
    /\ pc = "chained" /\ corrections < 2
    /\ \E c \in Readable \ Found : Reads(c)
    /\ pc' = "glyph"
    /\ UNCHANGED <<judgeRest, based, window, corrections, clean, keyed>>

RepairFailed ==
    /\ pc \in {"chained", "repaired"}
    /\ \E c \in Readable \ Found : Reads(c)
    /\ Returns("failed_repair")

(* A short exact text is looked at with the focus moved on, or in another  *)
(* phase of the caret. Only the same strong evidence again permits replay. *)
Moved == IF pc = "tab" THEN focus' \in AfterShiftTab ELSE UNCHANGED focus

Recheck ==
    /\ pc \in {"tab", "blink"}
    /\ \E c \in Readable : \/ Reads(c) /\ Accepts(c)
                           \/ c \notin Matched /\ UNCHANGED <<read, behind, clean>>
    /\ Moved
    /\ Onward(corrections)
    /\ UNCHANGED <<judgeRest, corrections, field, prior, caret, lost, doubled, late, strayed>>

CorrectConfirmed ==
    /\ pc \in {"tab", "blink"} /\ "edit" \in Readable
    /\ ~(Editor /\ p.indent) /\ ~p.fast
    /\ Moved
    /\ Replay
    /\ Onward(corrections + 1)
    /\ UNCHANGED <<judgeRest, clean, read, caret, behind>>

----------------------------------------------------------------------------
(* After a correction by the final read, the field is read again.          *)
Reread ==
    /\ pc = "reread" /\ pc' = "recover"
    /\ \E c \in Readable : Reads(c)
    /\ UNCHANGED <<p, final, sent, located, based, stable, corrections, before, clean, result, stop,
                   fieldVars, shown, lost, doubled, late, strayed, window, unasked>>

(* Settled reads, and a complete line anywhere on the screen that changed: *)
(* they send nothing and are kept only when they find the text.            *)
Unsettled == {"none", "prefix", "noise", "edit", "pronoun"}

recoverRest == <<p, pc, final, sent, located, based, stable, corrections, before, clean, result,
                 stop, fieldVars, shown, lost, doubled, late, strayed, window, unasked>>

LateRead ==
    /\ pc = "recover" /\ located /\ p.precise
    /\ read \notin Found /\ (read = "contains" => Editor)
    /\ \E c \in Readable \cap Matched :
          /\ c = "contains" => read \in Unsettled
          /\ Reads(c)
    /\ UNCHANGED recoverRest

(* _bounded_prose_candidate. Printed text, exact or not, and exact prose   *)
(* are looked for in the last read, then on the whole screen, and the      *)
(* place where they are found is cut out, of exact text even if what was   *)
(* read only normalises to it. Nothing ties the place to the field.        *)
Localised == p.fast \/ (p.prose /\ p.precise)

Localise ==
    /\ pc = "recover" /\ Localised /\ (read \in Found => p.precise)
    /\ \/ p.precise /\ read = "contains" /\ read' = "carved" /\ UNCHANGED behind
       \/ Contains(shown) /\ Reads("carved")
       \/ "elsewhere" \in Readable /\ Reads("elsewhere")
    /\ UNCHANGED recoverRest

(* verify_text and what _finalise makes of it: exact text that only a      *)
(* normalised comparison finds equal is not verified, and risky characters *)
(* are compared exactly even in declared prose.                            *)
Status ==
    CASE read \in Found /\ p.precise ->
             {"verified_exact", "unverified"}
             \cup (IF p.control = "other" THEN {"verified_safe_normalized"} ELSE {})
      [] read \in Found /\ ~p.precise ->
             {"verified_safe_normalized", "verified_exact", "unverified", "failed"}
      [] read = "contains" ->
             IF p.precise THEN {"unverified"} ELSE {"verified_with_warnings", "unverified"}
      [] read \in {"layout", "case", "other", "noise", "pronoun"} -> {"failed", "unverified"}
      [] OTHER -> {"unverified"}

_finalise ==
    /\ pc = "recover"
    /\ \E s \in Status : Returns(s)
    /\ UNCHANGED <<read, behind>>

(* A call of the backend raises through type_text.                         *)
Raises == pc # "done" /\ Returns("raised") /\ UNCHANGED <<read, behind>>

----------------------------------------------------------------------------
(* Everyone else: an abort, another window, the video. The window that has *)
(* the focus when the first chunk goes out is the field.                   *)
Stop ==
    /\ pc # "done" /\ ~stop /\ stop' = TRUE
    /\ UNCHANGED <<p, pc, typerVars, fieldVars, shown, history>>

Steal ==
    /\ pc # "done" /\ sent > 0 /\ focus = "here" /\ focus' = "stolen"
    /\ window' = (window \/ ~located \/ pc \in {"emit", "locate"})
    /\ unasked' = TRUE
    /\ UNCHANGED <<p, pc, typerVars, stop, field, prior, caret, shown, lost, doubled, late, strayed,
                   behind>>

Paint ==
    /\ pc # "done" /\ shown # field /\ shown' = field
    /\ UNCHANGED <<p, pc, typerVars, stop, fieldVars, history>>

Next ==
    \/ Interrupted \/ FocusLost \/ Proceed \/ EmitText \/ Locate \/ NothingLocated \/ SkipRead
    \/ CadenceRead \/ FinalRead \/ NoFinalRead
    \/ LeaveAsRead \/ LookAgain \/ Judge \/ Correct
    \/ GiveUp \/ Repair \/ Restored \/ Chain \/ RepairFailed \/ Recheck \/ CorrectConfirmed
    \/ Reread \/ LateRead \/ Localise \/ _finalise \/ Raises
    \/ Stop \/ Steal \/ Paint

Spec == Init /\ [][Next]_vars

----------------------------------------------------------------------------
(* A delivery whose verdict rests on its field is in the field as it was   *)
(* requested, with text around it where it was cut out of a longer read: no*)
(* later input has undone what was read. After a correction this needs     *)
(* frames that have caught up with the field.                              *)
VerifiedHolds ==
    result \in Verified /\ read # "elsewhere" /\ (corrections = 0 \/ ~behind) =>
        IF read = "carved" \/ result = "verified_with_warnings" THEN Contains(field) ELSE Match(field)

(* "A long type_text is interruptible" (type_text): after the stop one more*)
(* input may begin, the one whose poll was passed; in an editor the repair *)
(* chained to it as well.                                                  *)
StopBounded == late <= IF Editor THEN 2 ELSE 1

(* Whatever is misread, a clear that begins behind the text takes no older *)
(* text unless input was lost, and leaves no chunk twice unless input was  *)
(* doubled or it met its cap (_clear_recent_input: "preserving prior       *)
(* text"). In an editor both need the caret to be back behind the text, in *)
(* a field only the second.                                                *)
FieldKept ==
    /\ prior \/ lost \/ Adrift
    /\ \/ doubled \/ caret # "end" \/ sent > MaxBackspaces
       \/ \A j, k \in DOMAIN field : j # k => field[j].of # field[k].of

(* Text goes to a window that took the focus only if the guard before a    *)
(* chunk had no frame to compare (a chunk was on its way, the field was not*)
(* known, the baseline was renewed), or if no chunk came after the theft:  *)
(* the guard stands before chunks, not before a correction.                *)
FocusGuard == strayed => window \/ unasked

=============================================================================
