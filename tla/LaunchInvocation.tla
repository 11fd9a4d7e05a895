-------------------------- MODULE LaunchInvocation --------------------------
(***************************************************************************)
(* From a launch profile to what its program is given: the layers of the   *)
(* environment, the search for the executable, the shell, the budgets, the *)
(* preview the user sees (crates/lifecycle/src/preview.rs), and the words  *)
(* and environment of the process (managed.rs of both platforms).          *)
(*                                                                         *)
(* A path is a root and parts, a part is a stem and an extension; the part *)
(* <<"", "">> is what a doubled or trailing separator leaves.  Words are   *)
(* sequences of units, as quoting depends on them.  The environment is a   *)
(* set: nothing depends on the order in which it is sorted.                *)
(***************************************************************************)
EXTENDS Integers, Sequences, SequencesExt, FiniteSets

CONSTANTS
  NoFile,
  Spelling,              \* the units of stems, extensions and names
  Capital,               \* what to_ascii_uppercase changes
  Aliases,               \* stems that end in a dot or a space
  SensitiveNames,        \* is_sensitive_field_name
  Invocations,           \* profiles with their surroundings
  MaxUnits,              \* of a command line; of all that exec is given
  MaxPathUnits,          \* of a candidate in the preview
  MaxPatternUnits,       \* of a value that logs have to redact
  MaxEnvironmentUnits, MaxCandidatePaths, MaxEntries

ASSUME InvocationLimits ==
  {MaxUnits, MaxPathUnits, MaxPatternUnits, MaxEnvironmentUnits, MaxCandidatePaths, MaxEntries}
    \subseteq Nat

VARIABLES
  asked,     \* the profile, the layers, the disk and the secrets
  shown,     \* the preview
  untried,   \* the candidates that remain to be tried
  given,     \* the environment with its secrets
  outcome    \* what became of the launch

invocationVars == <<asked, shown, untried, given, outcome>>

OnWindows == asked.os = "Windows"
Upper(s)  == IF s \in DOMAIN Capital THEN Capital[s] ELSE s
Spell(s)  == IF s \in DOMAIN Spelling THEN Spelling[s] ELSE <<s>>

Cases(s) == IF OnWindows THEN Upper(s) ELSE s
EnvironmentKey(name) == Cases(name)
PathKey(path) == [path EXCEPT !.parts = [i \in DOMAIN @ |-> <<Cases(@[i][1]), Cases(@[i][2])>>]]

----------------------------------------------------------------------------
(* Paths *)

Empty  == <<"", "">>
Dots   == {<<".", "">>, <<"..", "">>}
Device == {<<".", "">>, <<"?", "">>, <<"GLOBALROOT", "">>}

Relative(parts) == [root |-> "Relative", parts |-> parts]
Parts(path) == {path.parts[i] : i \in DOMAIN path.parts}

ValidNormalPart(part)  == part # Empty /\ part \notin Dots
ValidWindowsPart(part) == ValidNormalPart(part) /\ part[1] \notin Aliases

ValidAbsoluteWindowsPath(path) ==
  /\ \A part \in Parts(path) : ValidWindowsPart(part)
  /\ \/ path.root = "Drive"
     \/ path.root = "Unc" /\ Len(path.parts) >= 2 /\ path.parts[1] \notin Device

ValidAbsoluteMacosPath(path) ==
  path.root = "Slash" /\ \A part \in Parts(path) : ValidNormalPart(part)

IsAbsolute(path) ==
  IF OnWindows THEN ValidAbsoluteWindowsPath(path) ELSE ValidAbsoluteMacosPath(path)

JoinPath(base, child) == [base EXCEPT !.parts = @ \o child.parts]

Extension(path) == Upper(path.parts[Len(path.parts)][2])
Bare(path) == path.root = "Relative" /\ Len(path.parts) = 1

Scripts == {".BAT", ".CMD", ".PS1", ".VBS", ".JS", ".JSE", ".WSF", ".WSH", ".MSC"}
UnsafeDirectScript(path) == OnWindows /\ path.parts # <<>> /\ Extension(path) \in Scripts

ValidDirectExecutable(path) ==
  \/ IsAbsolute(path)
  \/ Bare(path) /\ IF OnWindows THEN ValidWindowsPart(path.parts[1]) ELSE path.parts[1] # Empty

(* An entry of PATH may be quoted as a whole, on Windows; an empty entry *)
(* is the working directory.                                             *)
ValidSearchPathEntry(entry) ==
  /\ OnWindows => entry.quote # "Inside"
  /\ \/ entry.path = Relative(<<>>) /\ entry.quote = "None"
     \/ IsAbsolute(entry.path)
     \/ /\ entry.path.root = "Relative" /\ entry.path.parts # <<>>
        /\ \A part \in Parts(entry.path) :
             IF OnWindows THEN ValidWindowsPart(part) ELSE ValidNormalPart(part)

PathText(path) ==
  LET separator == IF OnWindows THEN <<"\\">> ELSE <<"/">>
      root == CASE path.root = "Drive" -> <<"C", ":", "\\">>
                [] path.root = "Unc"   -> <<"\\", "\\">>
                [] path.root = "Slash" -> <<"/">>
                [] OTHER               -> <<>>
      upTo[i \in 0..Len(path.parts)] ==
        IF i = 0 THEN root
        ELSE upTo[i - 1] \o (IF i = 1 THEN <<>> ELSE separator)
             \o Spell(path.parts[i][1]) \o Spell(path.parts[i][2])
  IN  upTo[Len(path.parts)]

----------------------------------------------------------------------------
(* The environment *)

Reference(value) == "reference" \in DOMAIN value

ValidEnvironment(layer) ==
  /\ \A d, e \in layer : EnvironmentKey(d.name) = EnvironmentKey(e.name) => d = e
  /\ \A e \in layer : Upper(e.name) \in SensitiveNames => Reference(e.value)

MergeLayer(merged, l) ==
  {m \in merged : \A e \in asked.layers[l] : EnvironmentKey(e.name) # EnvironmentKey(m.name)}
  \cup {[name |-> e.name, value |-> e.value, source |-> l] : e \in asked.layers[l]}

SupervisorBase == 1
Profile == 4
MergeEnvironment ==
  LET layer[l \in 0..Profile] == IF l = 0 THEN {} ELSE MergeLayer(layer[l - 1], l)
  IN  layer[Profile]

EnvironmentVariable(merged, name) ==
  {e \in merged : EnvironmentKey(e.name) = EnvironmentKey(name)}

(* What a value takes; a secret counts once it is known. *)
Size(value) ==
  CASE "text" \in DOMAIN value -> Len(value.text)
    [] "path" \in DOMAIN value -> Len(value.path)
    [] "extensions" \in DOMAIN value -> Len(value.extensions)
    [] OTHER -> 0

SumOver(entries) ==
  LET sum[s \in SUBSET entries] ==
        IF s = {} THEN 0
        ELSE LET e == CHOOSE e \in s : TRUE
             IN  Len(Spell(e.name)) + Size(e.value) + 2 + sum[s \ {e}]
  IN  sum[entries]

EnvironmentFits(entries) ==
  IF OnWindows THEN 1 + SumOver(entries) <= MaxEnvironmentUnits ELSE SumOver(entries) <= MaxUnits

(* A profile may use the secrets of its own variables alone. *)
ResolveEnvironmentCredentials(merged) ==
  LET readable(e) == /\ e.value.reference \in DOMAIN asked.secrets
                     /\ e.source = Profile => e.value.slot = e.name
      resolved == {[name |-> e.name, secret |-> Reference(e.value),
                    value |-> IF Reference(e.value) THEN asked.secrets[e.value.reference] ELSE e.value]
                     : e \in merged}
  IN  IF (\A e \in merged : Reference(e.value) => readable(e)) THEN
        IF EnvironmentFits(resolved) THEN {resolved} ELSE {}
      ELSE {}

PreviewEnvironment(merged) ==
  {[name |-> e.name, source |-> e.source,
    value |-> CASE Reference(e.value)         -> [redacted |-> "Credential"]
                [] e.source = SupervisorBase  -> [redacted |-> "Inherited"]
                [] OTHER                      -> e.value] : e \in merged}

----------------------------------------------------------------------------
(* What to run *)

ResolvePath(merged) ==
  LET found == EnvironmentVariable(merged, "PATH")
      value == (CHOOSE e \in found : TRUE).value
  IN  IF found = {} THEN [known |-> FALSE, reason |-> "PathMissing"]
      ELSE IF Reference(value) THEN [known |-> FALSE, reason |-> "PathCredentialReference"]
      ELSE IF \E i \in DOMAIN value.path : ~ValidSearchPathEntry(value.path[i])
             THEN [known |-> FALSE, reason |-> "PathInvalidValue"]
      ELSE [known |-> TRUE, path |-> value.path]

ValidExtension(extension) == Len(Spell(extension)) > 1 /\ Spell(extension)[1] = "."

ResolvePathExtensions(merged) ==
  LET found == EnvironmentVariable(merged, "PATHEXT")
      value == (CHOOSE e \in found : TRUE).value
      kept  == SelectSeq(value.extensions, LAMBDA x : x # "")
  IN  IF ~OnWindows THEN [known |-> FALSE, reason |-> "NotApplicable"]
      ELSE IF found = {} THEN [known |-> FALSE, reason |-> "PathExtensionMissing"]
      ELSE IF Reference(value) THEN [known |-> FALSE, reason |-> "PathExtensionCredentialReference"]
      ELSE IF \E i \in DOMAIN kept : ~ValidExtension(kept[i])
             THEN [known |-> FALSE, reason |-> "PathExtensionMissing"]
      ELSE [known |-> TRUE, extensions |-> [i \in DOMAIN kept |-> Upper(kept[i])]]

(* The shells of Windows come from the SystemRoot that the Supervisor has. *)
WindowsSystemShell(parts) ==
  LET found == {e \in asked.layers[SupervisorBase] : Upper(e.name) = "SYSTEMROOT"}
      root  == (CHOOSE e \in found : TRUE).value
  IN  IF found = {} THEN NoFile
      ELSE IF Reference(root) THEN NoFile
      ELSE IF ~ValidAbsoluteWindowsPath(root.path[1].path) THEN NoFile
      ELSE JoinPath(root.path[1].path, Relative(parts))

PowerShellArguments(command) ==
  <<<<"-NoLogo">>, <<"-NoProfile">>>>
  \o (IF asked.interactive THEN <<>> ELSE <<<<"-NonInteractive">>>>)
  \o <<<<"-Command">>, command>>

Invoke(file, argv, direct) == [file |-> file, argv |-> argv, direct |-> direct]
BuildInvocation ==
  LET run == asked.execution
  IN  CASE run.mode = "Direct" -> Invoke(run.file, run.argv, TRUE)
        [] run.mode = "PowerShell" /\ OnWindows ->
             Invoke(WindowsSystemShell(<<<<"System32", "">>, <<"powershell", ".exe">>>>),
                    PowerShellArguments(run.command), FALSE)
        [] run.mode = "PowerShell" /\ ~OnWindows ->
             Invoke(Relative(<<<<"pwsh", "">>>>), PowerShellArguments(run.command), FALSE)
        [] run.mode = "Cmd" /\ OnWindows ->
             Invoke(WindowsSystemShell(<<<<"System32", "">>, <<"cmd", ".exe">>>>),
                    <<<<"/D">>, <<"/S">>, <<"/C">>, run.command>>, FALSE)
        [] run.mode = "Zsh" /\ ~OnWindows ->
             Invoke([root |-> "Slash", parts |-> <<<<"bin", "">>, <<"zsh", "">>>>],
                    <<<<"-f">>, <<"-c">>, run.command>>, FALSE)
        [] OTHER -> Invoke(NoFile, <<>>, FALSE)

SafeDirectPathExtensions(invocation, extensions) ==
  IF invocation.direct /\ OnWindows /\ Extension(invocation.file) = "" /\ extensions.known
  THEN SelectSeq(extensions.extensions, LAMBDA x : x \in {".EXE", ".COM"})
  ELSE <<>>

WithExtension(file, extension) ==
  [file EXCEPT !.parts[Len(file.parts)] = <<@[1], extension>>]

Directory(entry) ==
  IF entry.path = Relative(<<>>) THEN asked.workingDirectory
  ELSE IF IsAbsolute(entry.path) THEN entry.path
  ELSE JoinPath(asked.workingDirectory, entry.path)

(* push_candidate takes every path once. *)
Candidates(file, path, extensions) ==
  LET names == <<file>> \o [i \in DOMAIN extensions |-> WithExtension(file, extensions[i])]
      all == FlattenSeq([i \in DOMAIN path |->
               [n \in DOMAIN names |-> JoinPath(Directory(path[i]), names[n])]])
      taken[i \in 0..Len(all)] ==
        IF i = 0 THEN <<>>
        ELSE IF \E t \in DOMAIN taken[i - 1] : PathKey(taken[i - 1][t]) = PathKey(all[i])
             THEN taken[i - 1]
             ELSE Append(taken[i - 1], all[i])
  IN  taken[Len(all)]

Resolution(reason, candidates) == [reason |-> reason, candidates |-> candidates]
Uninspected(candidates) == Resolution("FilesystemNotInspected", candidates)

ResolveExecutable(invocation, path, extensions) ==
  LET file == invocation.file
  IN  IF file = NoFile THEN Resolution("ShellUnavailable", <<>>)
      ELSE IF invocation.direct /\ (~ValidDirectExecutable(file) \/ UnsafeDirectScript(file))
             THEN Resolution("InvalidExecutablePath", <<>>)
      ELSE IF IsAbsolute(file) THEN Uninspected(<<file>>)
      ELSE IF ~path.known THEN Resolution(path.reason, <<>>)
      ELSE LET names == SafeDirectPathExtensions(invocation, extensions)
               found == Candidates(file, path.path, names)
           IN  IF OnWindows /\ invocation.direct /\ Extension(file) = "" /\ ~extensions.known
               THEN Resolution(extensions.reason, found)
               ELSE Uninspected(found)

SumLengths(words, extra) ==
  LET sum[i \in 0..Len(words)] == IF i = 0 THEN 0 ELSE sum[i - 1] + Len(words[i]) + extra
  IN  sum[Len(words)]

(* Before the secrets are known, and before the candidate is *)
ValidatePlatformExecutionBudget(invocation, merged) ==
  LET words == (IF invocation.file = NoFile THEN <<>> ELSE <<PathText(invocation.file)>>)
               \o invocation.argv
  IN  IF OnWindows
      THEN 1 + 2 * SumLengths(words, 0) + 3 * Len(words) <= MaxUnits /\ EnvironmentFits(merged)
      ELSE SumLengths(words, 1) + SumOver(merged) <= MaxUnits

NotYet  == [state |-> "NotYet"]
Refused(why) == [state |-> "Refused", why |-> why]

BuildExecutionPreview ==
  LET merged     == MergeEnvironment
      invocation == BuildInvocation
      resolution == ResolveExecutable(invocation, ResolvePath(merged), ResolvePathExtensions(merged))
      candidates == resolution.candidates
  IN  IF ~ValidEnvironment(asked.layers[Profile]) THEN Refused("Environment")
      ELSE IF Cardinality(merged) > MaxEntries THEN Refused("Entries")
      ELSE IF \/ Len(candidates) > MaxCandidatePaths
              \/ \E i \in DOMAIN candidates : Len(PathText(candidates[i])) > MaxPathUnits
             THEN Refused("Candidates")
      ELSE IF ~ValidatePlatformExecutionBudget(invocation, merged) THEN Refused("Budget")
      ELSE [state |-> "Preview", file |-> invocation.file, argv |-> invocation.argv,
            environment |-> PreviewEnvironment(merged), resolution |-> resolution]

----------------------------------------------------------------------------
(* What the process is given *)

Quoted(word) == word = <<>> \/ \E i \in DOMAIN word : word[i] \in {" ", "\t", "\""}
Backslashes(n) == [i \in 1..n |-> "\\"]

FaultyBeforeQuote(pending, closing) == IF closing THEN pending ELSE 2 * pending + 1
BeforeQuote(pending, closing) == IF closing THEN 2 * pending ELSE 2 * pending + 1

AppendWindowsArgument(word) ==
  LET step[i \in 0..Len(word)] ==
        IF i = 0 THEN [text |-> <<"\"">>, pending |-> 0]
        ELSE IF word[i] = "\\" THEN [step[i - 1] EXCEPT !.pending = @ + 1]
        ELSE LET before == IF word[i] = "\"" THEN BeforeQuote(step[i - 1].pending, FALSE)
                                             ELSE step[i - 1].pending
             IN  [text |-> step[i - 1].text \o Backslashes(before) \o <<word[i]>>, pending |-> 0]
      last == step[Len(word)]
  IN  IF Quoted(word) THEN last.text \o Backslashes(BeforeQuote(last.pending, TRUE)) \o <<"\"">>
                      ELSE word

BuildCommandLine(words) ==
  LET line[i \in 1..Len(words)] ==
        IF i = 1 THEN AppendWindowsArgument(words[1])
                 ELSE line[i - 1] \o <<" ">> \o AppendWindowsArgument(words[i])
  IN  line[Len(words)]

(* How a program of Windows takes its command line apart: backslashes are *)
(* literal unless a quotation mark follows them.                          *)
CommandLineToArgv(line) ==
  LET Add(s, units) == [s EXCEPT !.word = @ \o units, !.begun = TRUE, !.pending = 0]
      Literal(s) == Backslashes(s.pending)
      End(s) == IF s.begun \/ s.pending > 0
                THEN [s EXCEPT !.words = Append(@, s.word \o Literal(s)), !.word = <<>>,
                               !.begun = FALSE, !.pending = 0]
                ELSE s
      step[i \in 0..Len(line)] ==
        IF i = 0 THEN [words |-> <<>>, word |-> <<>>, begun |-> FALSE, pending |-> 0, inside |-> FALSE]
        ELSE LET s == step[i - 1]
             IN  CASE line[i] = "\\" -> [s EXCEPT !.pending = @ + 1]
                   [] line[i] = "\"" /\ s.pending % 2 = 1 ->
                        Add(s, Backslashes(s.pending \div 2) \o <<"\"">>)
                   [] line[i] = "\"" /\ s.pending % 2 = 0 ->
                        [Add(s, Backslashes(s.pending \div 2)) EXCEPT !.inside = ~@]
                   [] line[i] \in {" ", "\t"} /\ ~s.inside -> End(s)
                   [] OTHER -> Add(s, Literal(s) \o <<line[i]>>)
  IN  End(step[Len(line)]).words

(* How cmd takes what follows /S /C: without the quotation marks around it *)
CommandOfCmd(text) ==
  IF text # <<>> /\ text[1] = "\"" THEN SubSeq(text, 2, Len(text) - 1) ELSE text

WordsOf(file, argv) == <<PathText(file)>> \o argv
Words(file, argv) ==
  CASE ~OnWindows -> WordsOf(file, argv)
    [] OnWindows /\ asked.execution.mode = "Cmd" ->
         WordsOf(file, [argv EXCEPT ![Len(argv)] = CommandOfCmd(AppendWindowsArgument(@))])
    [] OTHER -> CommandLineToArgv(BuildCommandLine(WordsOf(file, argv)))

(* With the NUL at the end; exec counts the environment as well. *)
WordsFit(file, argv) ==
  IF OnWindows THEN Len(BuildCommandLine(WordsOf(file, argv))) + 1 <= MaxUnits
  ELSE SumLengths(WordsOf(file, argv), 1) + SumOver(given) <= MaxUnits

BuildEnvironmentBlock(entries) ==
  IF \E d, e \in entries : d # e /\ EnvironmentKey(d.name) = EnvironmentKey(e.name) THEN {}
  ELSE IF ~EnvironmentFits(entries) THEN {}
  ELSE {{[name |-> e.name, value |-> e.value] : e \in entries}}

ManagedLogRedactionRules(entries) ==
  {e.value : e \in {d \in entries : d.secret \/ Upper(d.name) \in SensitiveNames}}

RulesFit(entries) ==
  \A value \in ManagedLogRedactionRules(entries) : Size(value) <= MaxPatternUnits

----------------------------------------------------------------------------
(* Steps *)

InvocationsInit ==
  /\ asked \in Invocations
  /\ shown = NotYet /\ untried = <<>> /\ given = {} /\ outcome = NotYet

Preview ==
  /\ shown = NotYet
  /\ shown' = BuildExecutionPreview
  /\ UNCHANGED <<asked, untried, given, outcome>>

CredentialBacked == {"PathCredentialReference", "PathExtensionCredentialReference"}

(* start_platform_run up to the first candidate, platform_launch_plan.  The *)
(* working directory is there.                                              *)
PlanLaunch ==
  /\ outcome = NotYet /\ untried = <<>>
  /\ LET preview == BuildExecutionPreview
         resolved == ResolveEnvironmentCredentials(MergeEnvironment)
         refuse(why) == outcome' = why /\ UNCHANGED <<untried, given>>
     IN  \/ preview.state = "Refused" /\ refuse(preview)
         \/ /\ preview.state = "Preview"
            /\ \/ preview.resolution.reason \in CredentialBacked
               \/ preview.resolution.candidates = <<>>
            /\ refuse(Refused("Executable"))
         \/ /\ preview.state = "Preview"
            /\ preview.resolution.reason \notin CredentialBacked
            /\ preview.resolution.candidates # <<>>
            /\ \/ resolved = {} /\ refuse(Refused("Credentials"))
               \/ \E entries \in resolved :
                    \/ ~RulesFit(entries) /\ refuse(Refused("Rules"))
                    \/ /\ RulesFit(entries)
                       /\ untried' = preview.resolution.candidates
                       /\ given' = entries
                       /\ outcome' = outcome
  /\ UNCHANGED <<asked, shown>>

OnDisk(file) == {f \in asked.disk : PathKey(f.path) = PathKey(file)}

PathFits(path) ==
  IF OnWindows THEN Len(PathText(path)) < MaxUnits ELSE Len(PathText(path)) <= MaxPathUnits
ValidateRequest(file) ==
  \A path \in {file, asked.workingDirectory} : IsAbsolute(path) /\ PathFits(path)

(* The prefix with which Windows opens a file counts as well. *)
ExtendedImagePath(file) == Len(PathText(file)) + (IF file.root = "Unc" THEN 6 ELSE 4)

(* One candidate.  Windows opens the file before it builds the command     *)
(* line and the block, so one that is not there is passed over whatever    *)
(* its length; on macOS only posix_spawn looks for it.                     *)
TryCandidate ==
  /\ untried # <<>>
  /\ LET file == untried[1]
         argv == BuildInvocation.argv
         block == BuildEnvironmentBlock(given)
         found == OnDisk(file)
         valid == ValidateRequest(file) /\ (OnWindows => ExtendedImagePath(file) <= MaxUnits)
         built == WordsFit(file, argv) /\ block # {}
         refusal(why) == [state |-> "Refused", why |-> why, file |-> file]
     IN  \/ ~valid /\ outcome' = refusal("Path")
         \/ /\ valid /\ found = {} /\ (OnWindows \/ built)
            /\ outcome' = IF Len(untried) = 1 THEN Refused("NotFound") ELSE outcome
         \/ /\ valid /\ ~built /\ (found # {} \/ ~OnWindows)
            /\ outcome' = refusal(IF WordsFit(file, argv) THEN "Block" ELSE "Words")
         \/ /\ valid /\ built /\ found # {}
            /\ outcome' = IF \E f \in found : ~f.program THEN Refused("NotAProgram")
                          ELSE [state |-> "Running", file |-> file, words |-> Words(file, argv),
                                environment |-> CHOOSE b \in block : TRUE,
                                rules |-> ManagedLogRedactionRules(given)]
  /\ untried' = IF outcome' = NotYet THEN Tail(untried) ELSE <<>>
  /\ UNCHANGED <<asked, shown, given>>

InvocationsNext == Preview \/ PlanLaunch \/ TryCandidate

----------------------------------------------------------------------------
(* Properties *)

(* The layer that decides on a variable is the last one that names it *)
Deciding(key) ==
  LET naming == {l \in 1..Profile : \E e \in asked.layers[l] : EnvironmentKey(e.name) = key}
      last   == CHOOSE l \in naming : \A m \in naming : m <= l
  IN  CHOOSE e \in asked.layers[last] : EnvironmentKey(e.name) = key

Keys == {EnvironmentKey(e.name) : e \in UNION {asked.layers[l] : l \in 1..Profile}}
Known(value) == IF Reference(value) THEN asked.secrets[value.reference] ELSE value

EnvironmentIsAsAsked ==
  {<<EnvironmentKey(e.name), e.value>> : e \in outcome.environment}
    = {<<key, Known(Deciding(key).value)>> : key \in Keys}

(* cmd does not know the quoting of what it would have to take apart. *)
Unquotable(command) == \E i \in DOMAIN command : command[i] \in {"\"", "\\"}

ArgumentsAreAsAsked ==
  LET run == asked.execution
      last == outcome.words[Len(outcome.words)]
  IN  /\ outcome.words[1] = PathText(outcome.file)
      /\ IF run.mode = "Direct" THEN Tail(outcome.words) = run.argv
         ELSE last = run.command \/ (run.mode = "Cmd" /\ Unquotable(run.command))

(* Nothing that an earlier entry of PATH holds under the same name *)
FoundFirst(file, named) ==
  LET path == Deciding("PATH").value.path
      at(i) == {PathKey(JoinPath(Directory(path[i]), n)) : n \in named}
      held(i) == {f \in asked.disk : PathKey(f.path) \in at(i)}
  IN  \E i \in DOMAIN path : PathKey(file) \in at(i) /\ \A j \in 1..(i - 1) : held(j) = {}

ProgramIsAsAsked ==
  LET run == asked.execution
      file == outcome.file
  IN  /\ OnWindows /\ run.mode = "Direct" => Extension(file) \notin Scripts
      /\ run.mode = "Direct" =>
           IF Bare(run.file)
           THEN FoundFirst(file, {run.file} \cup (IF OnWindows /\ Extension(run.file) = ""
                                                  THEN {WithExtension(run.file, x) : x \in {".EXE", ".COM"}}
                                                  ELSE {}))
           ELSE file = run.file
      /\ ~OnWindows /\ run.mode = "PowerShell" => FoundFirst(file, {BuildInvocation.file})
      /\ OnWindows /\ run.mode # "Direct" =>
           \E e \in asked.layers[SupervisorBase] :
             Upper(e.name) = "SYSTEMROOT" /\ IsPrefix(e.value.path[1].path.parts, file.parts)

(* What a preview shows in clear is no secret and nothing inherited, and a *)
(* log shows no secret.                                                    *)
SecretsAreHidden ==
  /\ shown.state = "Preview" =>
       \A e \in shown.environment :
         "redacted" \notin DOMAIN e.value => e.value = Deciding(EnvironmentKey(e.name)).value
                                             /\ ~Reference(e.value) /\ e.source # SupervisorBase
  /\ outcome.state = "Running" =>
       \A key \in Keys : Reference(Deciding(key).value) => Known(Deciding(key).value) \in outcome.rules

(* The budgets of the preview leave nothing for those of the process to   *)
(* refuse, but for a candidate longer than what the profile says; and on   *)
(* Windows one whose words are too long stops a launch only if it is       *)
(* there.  (Secrets, and inherited values that logs have to redact, are    *)
(* measured by the launch alone.)                                          *)
BudgetsAgree ==
  outcome.state = "Refused" =>
    /\ outcome.why # "Block"
    /\ outcome.why = "Path" \/ (outcome.why = "Words" /\ OnWindows) =>
         Len(PathText(outcome.file)) > Len(PathText(BuildInvocation.file))
    /\ outcome.why = "Words" /\ OnWindows => OnDisk(outcome.file) # {}

(* A program that runs is the one the profile names, from the directory of *)
(* the search path that has it first; it finds the words and variables of  *)
(* the profile however they are quoted, spelled or layered, and what is    *)
(* secret shows neither in the preview nor in the log.  (preview.rs,       *)
(* build_command_line and build_environment_block of platform-windows,     *)
(* SpawnData of platform-macos)                                            *)
LaunchesAreAsAsked ==
  /\ SecretsAreHidden /\ BudgetsAgree
  /\ outcome.state = "Running" => EnvironmentIsAsAsked /\ ArgumentsAreAsAsked /\ ProgramIsAsAsked
=============================================================================
