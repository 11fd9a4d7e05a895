------------------------------- MODULE MCLogs -------------------------------
(***************************************************************************)
(* One run takes three small systems: the readers and the retention of     *)
(* three runs, the rolling files of one output stream, and the texts of    *)
(* short streams.  They meet only where one hands over to the next, when a *)
(* capture worker ends and when text is appended; "part" says which moves. *)
(***************************************************************************)
EXTENDS LogReaders, LogStream, LogText

VARIABLE part

logsVars == <<vars, streamVars, textVars, part>>

LogBudgets == {[reads |-> 1, faults |-> 1, quiet |-> 0], [reads |-> 2, faults |-> 0, quiet |-> 1]}
CalmBudgets == {[reads |-> 3, faults |-> 0, quiet |-> 0]}
StreamTexts == {<<1>>, <<2, 1>>}

(* Control sequences; secrets that overlap, end in a line break or are cut *)
(* by a control sequence; characters of two bytes at a seam; byte order    *)
(* marks, UTF-8 and neither of them; a code page with a gap.               *)
Stream(policy, secrets, alphabet, length) ==
  [policy |-> policy, secrets |-> secrets, alphabet |-> alphabet, length |-> length]
TextPipelines ==
  {Stream("Utf8", {}, {97, 91, 93, 27, 7, 13, 10}, 4),
   Stream("Utf8", {<<97, 98>>, <<98, 97, 98, 98>>, <<98, 13>>}, {97, 98, 13, 10}, 6),
   Stream("Utf8", {<<97, 97>>}, {97, 27, 91}, 6),
   Stream("Utf8", {<<97, 195, 169>>, <<195, 169, 97, 97>>}, {97, 195, 169}, 6),
   Stream("Auto", {}, {97, 239, 187, 191, 255, 254, 195}, 4),
   Stream("AutoWithoutFallback", {}, {97, 195, 169, 226, 128}, 4),
   Stream("CodePage", {<<194, 128>>}, {97, 128, 129}, 3)}
TextCodePage == [b \in 128..255 \ {129} |-> b]

InReaders(A) == part = "Readers" /\ A /\ UNCHANGED <<streamVars, textVars, part>>
InStream(A)  == part = "Stream" /\ A /\ UNCHANGED <<vars, textVars, part>>
InText(A)    == part = "Text" /\ A /\ UNCHANGED <<vars, streamVars, part>>

AnyBudget   == CHOOSE b \in Budgets : TRUE

LogsInit ==
  /\ Init /\ StreamInit /\ TextInit
  /\ part \in {"Readers", "Stream", "Text"}
  /\ part # "Readers" => budget = AnyBudget
  /\ part # "Text" => pipeline.policy = "CodePage"
LogsNext == InReaders(Next) \/ InStream(StreamNext) \/ InText(TextNext)
LogsSpec == LogsInit /\ [][LogsNext]_logsVars

FairLogsSpec == LogsSpec /\ WF_logsVars(InReaders(ReadersProgress) \/ InStream(StreamProgress))

ReadersSpec == LogsInit /\ part = "Readers" /\ [][LogsNext]_logsVars
=============================================================================
