------------------------ MODULE MCProfileCredentials ------------------------
(***************************************************************************)
(* Two profiles whose saves and deletions contend for three references     *)
(* (ProfileCredentials), and beside them what a launch makes of a profile  *)
(* (LaunchInvocation).  "part" says which moves.                           *)
(***************************************************************************)
EXTENDS ProfileCredentials, LaunchInvocation, TLC

VARIABLE part

credentialVars == <<profiles, queue, results, secrets, storedKey, key, pc, save, drain, slot,
                    commits, faults>>

InCredentials(A) == part = "Credentials" /\ A /\ UNCHANGED <<invocationVars, part>>
InInvocations(A) == part = "Invocations" /\ A /\ UNCHANGED <<credentialVars, part>>

AnyInvocation == CHOOSE i \in Invocations : TRUE

ProfilesInit ==
  /\ Init
  /\ \/ part = "Invocations" /\ InvocationsInit
     \/ /\ part = "Credentials"
        /\ asked = AnyInvocation
        /\ shown = NotYet /\ untried = <<>> /\ given = {} /\ outcome = NotYet
ProfilesNext == InCredentials(Next) \/ InInvocations(InvocationsNext)
ProfilesSpec == ProfilesInit /\ [][ProfilesNext]_<<credentialVars, invocationVars, part>>

----------------------------------------------------------------------------
(* Names in two cases, a directory with a space, an alias, extensions *)
Spellings ==
  "d e" :> <<"d", " ", "e">> @@ ".exe" :> <<".", "e">> @@ ".EXE" :> <<".", "E">>
  @@ ".bat" :> <<".", "b">> @@ ".com" :> <<".", "c">> @@ "" :> <<>>
Capitals ==
  "a" :> "A" @@ "p" :> "P" @@ "d" :> "D" @@ ".exe" :> ".EXE" @@ ".bat" :> ".BAT"
  @@ ".com" :> ".COM" @@ "Path" :> "PATH" @@ "SystemRoot" :> "SYSTEMROOT"
KnownSecrets == "s1" :> [text |-> <<"x", "y">>] @@ "s2" :> [text |-> <<"x", "y", "z", "z", "z">>]

Systems == {"Windows", "macOS"}
Root(os) == IF os = "Windows" THEN "Drive" ELSE "Slash"
At(root, stems) == [root |-> root, parts |-> [i \in DOMAIN stems |-> <<stems[i], "">>]]
File(path, stem, ext) == [path EXCEPT !.parts = Append(@, <<stem, ext>>)]

Plain(name, text) == [name |-> name, value |-> [text |-> text]]
Secret(name, ref, of) == [name |-> name, value |-> [reference |-> ref, slot |-> of]]
Entry(path) == [quote |-> "None", path |-> path]
PathOf(os, path) == [name |-> IF os = "Windows" THEN "Path" ELSE "PATH", value |-> [path |-> path]]
Extensions(extensions) == [name |-> "PATHEXT", value |-> [extensions |-> extensions]]
Programs(paths) == {[path |-> p, program |-> TRUE] : p \in paths}

Asked(os, layers, run, disk) ==
  [os |-> os, layers |-> layers, execution |-> run, interactive |-> FALSE, disk |-> disk,
   secrets |-> KnownSecrets, workingDirectory |-> At(Root(os), <<"w">>)]
Direct(file, argv) == [mode |-> "Direct", file |-> file, argv |-> argv]
Shell(mode, command) == [mode |-> mode, command |-> command]
NoLayers == <<{}, {}, {}, {}>>

(* All words of four units and pairs of words of two, for a program whose *)
(* path needs quoting, and commands for every shell                       *)
Texts(n) == UNION {[1..k -> {"a", " ", "\\", "\""}] : k \in 0..n}
WordLists == {<<t>> : t \in Texts(4)} \cup {<<s, t>> : s, t \in Texts(2)}
Spaced(os) == File(At(Root(os), <<"d e">>), "p", ".exe")
SystemRoot(path) == [name |-> "SystemRoot", value |-> [path |-> <<Entry(path)>>]]
Trusted == At("Drive", <<"d e">>)
ShellPrograms ==
  Programs({File(At("Drive", <<"d e", "System32">>), "cmd", ".exe"),
            File(At("Drive", <<"d e", "System32">>), "powershell", ".exe"),
            File(At("Slash", <<"bin">>), "zsh", "")})

(* A deep directory of PATH before a shallow one, with and without the     *)
(* program: too long with the words, for an image, for the preview         *)
DeepInvocations(os) ==
  LET deep(n) == At(Root(os), [i \in 1..n |-> "d e"])
      quotes(n) == [i \in 1..n |-> "\""]
  IN  {Asked(os, <<{PathOf(os, <<Entry(deep(d)), Entry(deep(1))>>)}, {}, {}, {}>>,
             Direct(At("Relative", <<"p">>), <<quotes(n)>>),
             Programs({File(deep(e), "p", "") : e \in {1} \cup held})) :
         d \in {4, 9, 11}, n \in {1, 10}, held \in {{}, {4, 9}}}

WordInvocations ==
  {Asked("Windows", NoLayers, Direct(Spaced("Windows"), l), Programs({Spaced("Windows")})) : l \in WordLists}
  \cup {Asked("macOS", NoLayers, Direct(Spaced("macOS"), <<t>>), Programs({Spaced("macOS")})) : t \in Texts(2)}
  \cup {Asked(os, <<base, {}, {}, {SystemRoot(At("Drive", <<"d">>))}>>, Shell(mode, t), ShellPrograms) :
          os \in Systems,
          base \in {{}, {SystemRoot(Trusted)}, {SystemRoot(At("Device", <<"d">>))}, {Secret("SystemRoot", "s1", "SystemRoot")}},
          mode \in {"Cmd", "PowerShell", "Zsh"},
          t \in {<<"a">>, <<"a", " ", "b">>, <<"\"", "\\", "\"">>}}
  \cup {Asked("Windows", <<{PathOf("Windows", <<Entry(Trusted)>>)}, {}, {}, {}>>,
              Direct(At("Relative", <<"p">>), <<[i \in 1..n |-> "\""]>>),
              Programs({File(Trusted, "p", "")})) : n \in {14, 15}}
  \cup UNION {DeepInvocations(os) : os \in Systems}

(* Layers that name the same variables, in the same case or another *)
LayerValues ==
  {{}, {Plain("A", <<"1">>)}, {Plain("a", <<"2">>), Plain("B", <<"1">>)},
   {Secret("A", "s1", "A")}, {Secret("a", "s2", "A")}, {Secret("a", "s3", "a")},
   {Plain("TOKEN", <<"t">>), Plain("A", <<>>)}, {Plain("A", <<"2">>), Plain("a", <<"3">>)},
   {Plain("TOKEN", <<"t", "t", "t", "t", "t", "t">>)}}
ContextValues(os) ==
  LayerValues \ {{Plain("TOKEN", <<"t">>), Plain("A", <<>>)},
                 IF os = "Windows" THEN {Plain("A", <<"2">>), Plain("a", <<"3">>)} ELSE {}}
LayerInvocations ==
  UNION {LET file == File(At(Root(os), <<"d">>), "p", "")
         IN  {Asked(os, <<l, m, {}, n>>, Direct(file, <<>>), Programs({file})) :
                l, m \in ContextValues(os), n \in LayerValues} : os \in Systems}

(* Two entries of PATH, the second of which may be odd, and disks on which *)
(* either or both hold something                                           *)
QuotedOn(os, how) == IF os = "Windows" THEN how ELSE "None"
Entries(os) ==
  {Entry(At(Root(os), <<"d">>)), Entry(At("Relative", <<"d">>)), Entry(At("Relative", <<>>)),
   [Entry(At(Root(os), <<"d e">>)) EXCEPT !.quote = QuotedOn(os, "Whole")]}
OddEntries(os) ==
  {Entry(At(Root(os), <<"d", "">>)), Entry(At("Relative", <<"..", "d">>)),
   [Entry(At(Root(os), <<"d">>)) EXCEPT !.quote = QuotedOn(os, "Inside")]}
SearchPaths(os) == {<<d, e>> : d \in Entries(os), e \in Entries(os) \cup OddEntries(os)}
Files ==
  {At("Relative", <<"p">>), At("Relative", <<"..">>), At("Relative", <<"d", "p">>), At("Relative", <<"p.">>),
   File(At("Relative", <<>>), "p", ".exe"), File(At("Relative", <<>>), "p", ".bat")}
PathExtensions ==
  {{}, {Extensions(<<"", ".exe", ".bat">>)}, {Extensions(<<".com", ".exe">>)}, {Extensions(<<"EXE">>)},
   {Secret("PATHEXT", "s1", "PATHEXT")}}
Disks(os) ==
  LET ext == IF os = "Windows" THEN ".exe" ELSE ""
      first  == File(At(Root(os), <<"d">>), "p", "")
      second == File(At(Root(os), <<"d e">>), IF os = "Windows" THEN "P" ELSE "p", ext)
      third  == File(At(Root(os), <<"w", "d">>), "p", ext)
  IN  {{}, Programs({first}), Programs({second, third}),
       {[path |-> third, program |-> FALSE]} \cup Programs({second})}
SearchInvocations ==
  UNION {{Asked(os, <<{PathOf(os, p)}, {}, {}, {}>>, Direct(f, <<>>), d) :
            p \in SearchPaths(os), f \in Files, d \in Disks(os)} : os \in Systems}
  \cup {Asked("Windows", <<{PathOf("Windows", p)}, {}, {}, x>>, Direct(At("Relative", <<"p">>), <<>>), d) :
          p \in SearchPaths("Windows"), d \in Disks("Windows"), x \in PathExtensions}
  \cup {Asked(os, <<base, {}, {}, {}>>, Direct(At("Relative", <<"p">>), <<>>), {}) :
          os \in Systems, base \in {{}, {Secret("PATH", "s1", "PATH")}}}
  \cup {Asked("macOS", <<{PathOf("macOS", p)}, {}, {}, {}>>, Shell("PowerShell", <<"a">>),
              Programs({File(At("Slash", <<"d">>), "pwsh", "")})) : p \in SearchPaths("macOS")}

AllInvocations == WordInvocations \cup LayerInvocations \cup SearchInvocations

Symmetry == Permutations(Operations) \cup Permutations(Names) \cup Permutations(Profiles)
=============================================================================
