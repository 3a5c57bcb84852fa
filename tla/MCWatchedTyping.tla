-------------------------- MODULE MCWatchedTyping --------------------------
EXTENDS WatchedTyping

Text(n, precise, control, short) ==
    [chunks |-> n, precise |-> precise, prose |-> ~precise, control |-> control, fast |-> FALSE,
     indent |-> FALSE, short |-> short, home |-> FALSE, echoed |-> FALSE]

ShortField == Text(1, TRUE, "field", TRUE)
FileName == [ShortField EXCEPT !.home = TRUE]
LongField == [Text(2, TRUE, "field", FALSE) EXCEPT !.home = TRUE]
ShortCode == Text(1, TRUE, "editor", TRUE)
Append2 == [Text(2, TRUE, "editor", FALSE) EXCEPT !.indent = TRUE]
Command == [Text(2, TRUE, "other", FALSE) EXCEPT !.echoed = TRUE]
Prose == Text(3, FALSE, "other", FALSE)
PrintedProse == [Text(2, FALSE, "editor", FALSE) EXCEPT !.fast = TRUE]
PrintedCode == [ShortCode EXCEPT !.fast = TRUE]
ExactProse == [Text(2, TRUE, "other", FALSE) EXCEPT !.prose = TRUE, !.echoed = TRUE]

Deliveries == {ShortField, FileName, LongField, ShortCode, Append2, Command, Prose, PrintedProse,
               PrintedCode, ExactProse}
=============================================================================
