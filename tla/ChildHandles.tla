---------------------------- MODULE ChildHandles ----------------------------
(***************************************************************************)
(* What a launch opens and who is left with it: pipes, terminals, jobs and *)
(* the child itself, from prepare_suspended_process_group of               *)
(* crates/platform-macos/src/managed.rs and prepare_suspended_into_job of  *)
(* crates/platform-windows/src/managed.rs to the capture workers that      *)
(* start_platform_run of crates/supervisor/src/managed_runs.rs hands the   *)
(* output to.                                                              *)
(*                                                                         *)
(* A launch is a sequence of steps, each of which may fail and unwind what *)
(* is held so far.  One launch runs at a time; the processes, the workers  *)
(* and whoever moves the executable go on beside it.                       *)
(***************************************************************************)
EXTENDS Naturals, Sequences, FiniteSets, Filters

CONSTANTS
  NoChild,
  Children,        \* runs, each of which is launched once
  Machines,        \* the platforms and kinds of standard streams to try
  MaxCandidates    \* bound: executables a command may stand for

ASSUME MachinesAreKnown ==
  Machines \subseteq [os : {"macOS", "Windows"}, stdio : {"Pipes", "Terminal"}]
ASSUME CandidatesExist == MaxCandidates \in Nat \ {0}
ASSUME ChildrenAreChildren == NoChild \notin Children

VARIABLES
  machine,
  handles,     \* all handles of the Supervisor: of whose run, held by what
  preparing,   \* the launch in progress: its child, step and candidate
  closing,     \* the handles that are being dropped, in order
  body,        \* child -> its processes
  image,       \* child -> the file that was asked for and the one loaded
  inJob,       \* the children that are in their job
  holding,     \* child -> what the Supervisor has of it
  target       \* the file that the path of the executable leads to

handleVars == <<machine, handles, preparing, closing, body, image, inJob,
                holding, target>>

Windows  == machine.os = "Windows"
Terminal == machine.stdio = "Terminal"

Idle == [child |-> NoChild, step |-> 0, candidate |-> 0]

(* HEADLESS: the root is gone, and descendants have its streams. *)
Running == {"ALIVE", "HEADLESS"}

Opened(c, by, ends) == {[of |-> c, by |-> by, end |-> e] : e \in ends}
HeldIn(all, c, by) == {h.end : h \in {g \in all : g.of = c /\ g.by = by}}
HeldBy(c, by) == HeldIn(handles, c, by)

HandlesInit ==
  /\ machine \in Machines
  /\ handles = {} /\ preparing = Idle /\ closing = <<>>
  /\ body = [c \in Children |-> "NONE"]
  /\ image = [c \in Children |-> [asked |-> "first", loaded |-> "first"]]
  /\ inJob = {}
  /\ holding = [c \in Children |-> "Nothing"]
  /\ target = "first"

----------------------------------------------------------------------------
(* The steps of a launch.  "Call" is the preparation, "Launch" the caller, *)
(* "Owner" the suspended or running process, "Worker" a capture worker and *)
(* "Host" the console host of Windows.                                     *)

Step(stage, opens, closes) == [stage |-> stage, opens |-> opens, closes |-> closes]
Ask(stage)  == Step(stage, {}, {})
Close(ends) == Step("drop", {}, ends)

(* What openpty returns is replaced by duplicates that no program inherits *)
OpenManagedTerminal ==
  <<Step("openpty", {"RawMaster", "RawSlave"}, {}),
    Step("fcntl(pty-master)", {"Master"}, {}), Step("fcntl(pty-slave)", {"Slave"}, {}),
    Close({"RawMaster", "RawSlave"}),
    Step("fcntl(pty-output)", {"OutputMaster"}, {})>>

(* A failed openpty may have opened either. *)
CloseOpenptyDescriptors(left) == left

SpawnAttributes ==
  <<Step("posix_spawnattr_init", {"Attributes"}, {}), Ask("posix_spawnattr_setflags")>>

DuplicatePipeWriters ==
  <<Step("fcntl(stdout)", {"OutSource"}, {}), Step("fcntl(stderr)", {"ErrSource"}, {})>>

(* The child is given its three streams and nothing else. *)
SpawnFileActions ==
  (IF Terminal THEN OpenManagedTerminal ELSE DuplicatePipeWriters)
  \o <<Step("posix_spawn_file_actions_init", {"FileActions"}, {}),
       Ask("posix_spawn_file_actions_add")>>

PrepareProcessGroup ==
  <<Ask("ValidateLaunchRequest"), Ask("QueryBootIdentifier")>>
  \o SpawnAttributes \o SpawnFileActions
  \o <<Ask("posix_spawn"), Close({"FileActions", "OutSource", "ErrSource", "Slave"}),
       Ask("proc_pidinfo"), Ask("getpgid"),
       Step("own", {}, {"Attributes"})>>

OpenImageFile ==
  <<Step("OpenRequestedExecutable", {"Image"}, {}), Ask("GetRequestedExecutableFileId")>>

CreateJob ==
  <<Step("CreateJobObjectW", {"Job"}, {}), Ask("SetInformationJobObject")>>

AttributeList ==
  <<Step("InitializeProcThreadAttributeList", {"AttributeList"}, {}),
    Ask("UpdateProcThreadAttribute")>>

InheritedStandardHandles ==
  <<Step("OpenStandardInputNull", {"Null"}, {}),
    Step("DuplicateStandardInput", {"NullDuplicate"}, {}),
    Step("DuplicateStandardOutput", {"OutDuplicate"}, {}),
    Step("DuplicateStandardError", {"ErrDuplicate"}, {})>>
  \o AttributeList \o <<Close({"Null"})>>

PreparedPseudoConsole ==
  <<Step("CreatePseudoConsoleInputPipe", {"InputReader", "InputWriter"}, {}),
    Step("CreatePseudoConsoleOutputPipe", {"OutputReader", "OutputWriter"}, {}),
    Step("CreatePseudoConsole", {"Console"}, {})>>
  \o AttributeList

(* The last step but the return compares the image with what was asked for *)
VerifyProcessImage ==
  <<Step("OpenCreatedProcessImage", {"ActualImage"}, {}), Ask("GetCreatedProcessImageFileId"),
    Close({"ActualImage"})>>

PrepareIntoJob ==
  <<Ask("ValidateLaunchRequest"), Ask("QueryBootIdentifier")>>
  \o OpenImageFile \o CreateJob
  \o (IF Terminal THEN PreparedPseudoConsole ELSE InheritedStandardHandles)
  \o <<Step("CreateProcessW", {"Process", "Thread"}, {}),
       Step("own", {}, {"AttributeList", "NullDuplicate", "OutDuplicate", "ErrDuplicate",
                        "InputReader", "OutputWriter"}),
       Ask("AssignProcessToJobObject"), Ask("GetProcessTimes")>>
  \o VerifyProcessImage \o <<Close({"Image"})>>

PrepareSteps == IF Windows THEN PrepareIntoJob ELSE PrepareProcessGroup
LaunchSteps  == PrepareSteps \o <<Ask("bind"), Ask("capture"), Ask("resume"), Ask("mark")>>

Infallible == {"drop", "own"}

(* executable_candidate_was_not_found *)
NotFoundStages == {"OpenRequestedExecutable", "CreateProcessW", "posix_spawn"}

(* What the preparation leaves to the owner of the child *)
OwnedEnds ==
  IF Windows THEN {"Job", "Process", "Thread", "Console", "InputWriter", "OutputReader"}
             ELSE {"Master", "OutputMaster"}

----------------------------------------------------------------------------
(* Dropping.  Fields and locals go in this order, whoever holds them. *)

FaultyPseudoConsoleFields == <<"InputWriter", "Console", "OutputReader">>
PseudoConsoleFields == <<"InputWriter", "OutputReader", "Console">>
ChildFields == <<"Job", "Process", "Thread", "Master", "OutputMaster">> \o PseudoConsoleFields
CallLocals ==
  <<"ActualImage", "FileActions", "OutSource", "ErrSource", "Slave", "RawMaster", "RawSlave",
    "AttributeList", "NullDuplicate", "OutDuplicate", "ErrDuplicate", "Null", "InputReader",
    "OutputWriter">> \o ChildFields
  \o <<"Attributes", "Image", "OutReader", "OutWriter", "ErrReader", "ErrWriter">>

Dropped(c, by, ends) ==
  LET order == Filtered(CallLocals, {i \in DOMAIN CallLocals : CallLocals[i] \in ends})
  IN  [i \in DOMAIN order |-> [of |-> c, by |-> by, end |-> order[i]]]

(* The owner of a child whose end is not confirmed keeps what controls it; *)
(* on macOS the terminal belongs to the process and not to the cleanup.    *)
DropCall(c, ends)  == Dropped(c, "Call", ends)
DropLaunch(all, c) == Dropped(c, "Launch", HeldIn(all, c, "Launch"))
DropOwner(all, c)  == Dropped(c, "Owner", HeldIn(all, c, "Owner"))
DropTerminal(all, c) == IF Windows THEN <<>> ELSE DropOwner(all, c)

(* CloseHandle kills the job.  ClosePseudoConsole takes the console host's *)
(* ends with it, and waits for a reader of the last frame unless there is  *)
(* none.                                                                   *)
CloseReturns(h) == h.end = "Console" => "OutputReader" \notin HeldBy(h.of, h.by)
CloseNext ==
  /\ closing # <<>> /\ CloseReturns(closing[1])
  /\ closing' = Tail(closing)
  /\ LET h == closing[1]
     IN /\ handles' = handles
             \ ({h} \cup (IF h.end = "Console" THEN {g \in handles : g.of = h.of /\ g.by = "Host"}
                                               ELSE {}))
        /\ body' = IF h.end = "Job" /\ h.of \in inJob THEN [body EXCEPT ![h.of] = "GONE"] ELSE body
  /\ UNCHANGED <<machine, preparing, image, inJob, holding, target>>

----------------------------------------------------------------------------
(* Launching *)

OpenPipes(c) ==
  /\ preparing = Idle /\ closing = <<>> /\ holding[c] = "Nothing"
  /\ preparing' = [child |-> c, step |-> 1, candidate |-> 1]
  /\ handles' = IF Terminal THEN handles
                ELSE handles \cup Opened(c, "Launch", {"OutReader", "OutWriter", "ErrReader", "ErrWriter"})
  /\ holding' = [holding EXCEPT ![c] = "Launching"]
  /\ UNCHANGED <<machine, closing, body, image, inJob, target>>

(* create_managed_log_pipe fails for either stream *)
PipesFail(c) ==
  /\ preparing = Idle /\ closing = <<>> /\ holding[c] = "Nothing" /\ ~Terminal
  /\ \E opened \in {{}, {"OutReader", "OutWriter"}} :
       /\ handles' = handles \cup Opened(c, "Launch", opened)
       /\ closing' = Dropped(c, "Launch", opened)
  /\ holding' = [holding EXCEPT ![c] = "Ended"]
  /\ UNCHANGED <<machine, preparing, body, image, inJob, target>>

(* start_managed_log_capture takes what can be read, and the workers that *)
(* were started keep theirs.                                              *)
Readers == {"OutReader", "ErrReader", "OutputMaster", "OutputReader"}
GiveReaders(c, given) ==
  LET taken == {h \in handles : h.of = c /\ h.by \in {"Launch", "Owner"} /\ h.end \in Readers}
  IN  (handles \ taken) \cup {[h EXCEPT !.by = "Worker"] : h \in {g \in taken : g.end \in given}}

(* CreatePseudoConsole lets the console host have its ends of both pipes; *)
(* resuming a thread of Windows gives its handle up.                      *)
HandlesAfter(c, step) ==
  CASE step.stage = "capture" ->
         GiveReaders(c, Readers) \ Opened(c, "Launch", {"OutWriter", "ErrWriter"})
    [] step.stage = "resume"  -> handles \ Opened(c, "Owner", {"Thread"})
    [] step.stage = "own"     ->
         (handles \ Opened(c, "Call", step.closes \cup OwnedEnds))
         \cup Opened(c, "Owner", OwnedEnds \cap HeldBy(c, "Call"))
    [] step.stage = "CreatePseudoConsole" ->
         handles \cup Opened(c, "Call", step.opens)
         \cup Opened(c, "Host", {"InputReader", "OutputWriter"})
    [] OTHER -> (handles \ Opened(c, "Call", step.closes)) \cup Opened(c, "Call", step.opens)

Creates == {"posix_spawn", "CreateProcessW"}

StepSucceeds ==
  /\ preparing # Idle /\ closing = <<>>
  /\ LET c == preparing.child
         step == LaunchSteps[preparing.step]
     IN /\ step.stage = "GetCreatedProcessImageFileId" => image[c].loaded = image[c].asked
        /\ step.stage = "resume" => body[c] = "SUSPENDED"
        /\ handles' = HandlesAfter(c, step)
        /\ preparing' = IF step.stage = "mark" THEN Idle ELSE [preparing EXCEPT !.step = @ + 1]
        /\ body' = CASE step.stage \in Creates  -> [body EXCEPT ![c] = "SUSPENDED"]
                     [] step.stage = "resume"   -> [body EXCEPT ![c] = "ALIVE"]
                     [] OTHER                   -> body
        /\ image' = CASE step.stage = "OpenRequestedExecutable" -> [image EXCEPT ![c].asked = target]
                      [] step.stage \in Creates                 -> [image EXCEPT ![c].loaded = target]
                      [] OTHER                                  -> image
        /\ inJob' = IF step.stage = "AssignProcessToJobObject" THEN inJob \cup {c} ELSE inJob
        /\ holding' = IF step.stage = "mark" THEN [holding EXCEPT ![c] = "Running"] ELSE holding
  /\ UNCHANGED <<machine, closing, target>>

(* What a step that fails leaves open beside what the call holds, and what *)
(* it closes of that itself: a failed openpty, and a capture of which one  *)
(* worker runs or none.                                                    *)
Remains(c, step) ==
  CASE step.stage = "openpty" ->
         {[opened |-> handles \cup Opened(c, "Call", left),
           closed |-> CloseOpenptyDescriptors(left)] : left \in SUBSET step.opens}
    [] step.stage = "capture" ->
         {[opened |-> GiveReaders(c, given) \ Opened(c, "Launch", {"OutWriter", "ErrWriter"}),
           closed |-> {}] : given \in {{}, {"OutReader", "OutputMaster", "OutputReader"}}}
    [] OTHER -> {[opened |-> handles, closed |-> {}]}

FailBeforeChild(c, step) ==
  /\ body[c] = "NONE"
  /\ \E r \in Remains(c, step) :
       LET dropped == DropCall(c, HeldBy(c, "Call") \cup r.closed)
       IN /\ handles' = r.opened
          /\ \/ /\ step.stage \in NotFoundStages /\ preparing.candidate < MaxCandidates
                /\ closing' = dropped
                /\ preparing' = [preparing EXCEPT !.step = 1, !.candidate = @ + 1]
                /\ holding' = holding
             \/ /\ closing' = dropped \o DropLaunch(r.opened, c)
                /\ preparing' = Idle
                /\ holding' = [holding EXCEPT ![c] = "Ended"]
  /\ body' = body

(* cleanup_after_failure, terminate_owned_child *)
FailWithChild(c, step) ==
  /\ body[c] # "NONE"
  /\ \E r \in Remains(c, step) :
       LET call == DropCall(c, HeldBy(c, "Call"))
           all  == r.opened
       IN /\ handles' = all
          /\ \/ /\ body' = [body EXCEPT ![c] = "GONE"]
                /\ closing' = call \o DropOwner(all, c) \o DropLaunch(all, c)
                /\ holding' = [holding EXCEPT ![c] = "Ended"]
             \/ /\ body' \in {body, [body EXCEPT ![c] = "GONE"]}
                /\ closing' = call \o DropTerminal(all, c) \o DropLaunch(all, c)
                /\ holding' = [holding EXCEPT ![c] = "Pending"]
  /\ preparing' = Idle

StepFails ==
  /\ preparing # Idle /\ closing = <<>>
  /\ LET step == LaunchSteps[preparing.step]
     IN /\ step.stage \notin Infallible
        /\ FailBeforeChild(preparing.child, step) \/ FailWithChild(preparing.child, step)
  /\ UNCHANGED <<machine, image, inJob, target>>

----------------------------------------------------------------------------
(* Afterwards *)

Dispose(c, after) ==
  /\ holding' = [holding EXCEPT ![c] = after]
  /\ closing' = DropOwner(handles, c)
  /\ UNCHANGED <<machine, handles, preparing, image, inJob, target>>

(* The exit is observed and its control removed *)
PollExit(c) ==
  /\ closing = <<>> /\ holding[c] = "Running" /\ body[c] = "GONE"
  /\ Dispose(c, "Ended") /\ body' = body

RetryChildCleanup(c) ==
  /\ closing = <<>> /\ holding[c] = "Pending"
  /\ body' = [body EXCEPT ![c] = "GONE"]
  /\ Dispose(c, "Ended")

(* The control is dropped as it stands.  A cleanup that fails is forgotten *)
(* with its handles; a running process of Windows has no cleanup of its    *)
(* own and relies on the order of its fields.                              *)
DropControl(c) ==
  /\ closing = <<>> /\ preparing = Idle
  /\ \/ /\ holding[c] = "Running" /\ Windows
        /\ Dispose(c, "Ended") /\ body' = body
     \/ /\ holding[c] = "Pending" \/ (holding[c] = "Running" /\ ~Windows)
        /\ body' = [body EXCEPT ![c] = "GONE"]
        /\ Dispose(c, "Ended")
     \/ /\ holding[c] = "Pending"
        /\ holding' = [holding EXCEPT ![c] = "Quarantined"]
        /\ UNCHANGED <<machine, handles, preparing, closing, body, image, inJob, target>>
     \/ /\ holding[c] = "Running" /\ ~Windows
        /\ holding' = [holding EXCEPT ![c] = "Quarantined"]
        /\ closing' = DropTerminal(handles, c)
        /\ UNCHANGED <<machine, handles, preparing, body, image, inJob, target>>

(* The program exits; descendants may outlive the root. *)
BodyMoves(c) ==
  /\ \/ body[c] = "ALIVE" /\ body' = [body EXCEPT ![c] = "HEADLESS"]
     \/ body[c] \in Running /\ body' = [body EXCEPT ![c] = "GONE"]
  /\ UNCHANGED <<machine, handles, preparing, closing, image, inJob, holding, target>>

(* Stopping a process of Windows.  Its handle pins the identity, so that a *)
(* revalidation which can read it confirms it.                             *)
Revalidated(c) == Windows /\ closing = <<>> /\ holding[c] = "Running"

(* CTRL_BREAK goes to a process group, which a terminal does not have, and *)
(* never to the number of a root that has exited.                          *)
SendGraceful(c) ==
  /\ Revalidated(c) /\ ~Terminal /\ body[c] = "ALIVE"
  /\ body' \in {[body EXCEPT ![c] = after] : after \in {"HEADLESS", "GONE"}}
  /\ UNCHANGED <<machine, handles, preparing, closing, image, inJob, holding, target>>

SendForce(c) ==
  /\ Revalidated(c) /\ body[c] # "GONE"
  /\ body' = [body EXCEPT ![c] = "GONE"]
  /\ UNCHANGED <<machine, handles, preparing, closing, image, inJob, holding, target>>

(* The path leads to another file now; the file itself cannot be replaced *)
(* while the handle of its image is open.                                 *)
Retarget ==
  /\ preparing # Idle /\ target = "first"
  /\ target' = "second"
  /\ UNCHANGED <<machine, handles, preparing, closing, body, image, inJob, holding>>

(* The handles that keep the output of c from ending, for who reads end *)
Writers(c, end) ==
  LET ends == CASE end = "OutReader"    -> {"OutWriter", "OutSource", "OutDuplicate"}
                [] end = "ErrReader"    -> {"ErrWriter", "ErrSource", "ErrDuplicate"}
                [] end = "OutputMaster" -> {"RawSlave", "Slave"}
                [] end = "OutputReader" -> {"OutputWriter"}
  IN  {h \in handles : h.of = c /\ h.end \in ends}

(* The streams of a child keep a pipe or a pty open; those of a console *)
(* are the console host's.                                              *)
AtEnd(c, end) ==
  Writers(c, end) = {} /\ (body[c] \in {"NONE", "GONE"} \/ end = "OutputReader")

EndOfFile(c, end) ==
  /\ [of |-> c, by |-> "Worker", end |-> end] \in handles
  /\ AtEnd(c, end)
  /\ handles' = handles \ Opened(c, "Worker", {end})
  /\ UNCHANGED <<machine, preparing, closing, body, image, inJob, holding, target>>

HandlesNext ==
  \/ \E c \in Children : OpenPipes(c) \/ PipesFail(c)
  \/ StepSucceeds \/ StepFails \/ CloseNext \/ Retarget
  \/ \E c \in Children :
       \/ SendGraceful(c) \/ SendForce(c) \/ PollExit(c)
       \/ RetryChildCleanup(c) \/ DropControl(c) \/ BodyMoves(c)
  \/ \E c \in Children, end \in Readers : EndOfFile(c, end)

HandlesSpec == HandlesInit /\ [][HandlesNext]_handleVars

----------------------------------------------------------------------------
(* Properties *)

(* What the owner of a child needs to control it, and no more *)
Needed(c) ==
  CASE holding[c] = "Running" /\ Windows ->
         {"Job", "Process"} \cup (IF Terminal THEN {"Console", "InputWriter"} ELSE {})
    [] holding[c] = "Running" /\ ~Windows -> IF Terminal THEN {"Master"} ELSE {}
    [] OTHER -> {}

(* Between two operations the Supervisor has the handles of its controls *)
(* and nothing that a launch opened on the way, whichever step failed.   *)
NothingLeaks ==
  preparing = Idle /\ closing = <<>> =>
    \A c \in Children :
      /\ HeldBy(c, "Call") = {} /\ HeldBy(c, "Launch") = {}
      /\ holding[c] \in {"Nothing", "Running", "Ended"} => HeldBy(c, "Owner") = Needed(c)
      /\ holding[c] \in {"Pending", "Quarantined"} /\ Windows => {"Job", "Process"} \subseteq HeldBy(c, "Owner")

(* When the Supervisor lets go of a run there is no process of it, and *)
(* whoever reads its output is told the end.                           *)
LetGoOfNothing ==
  closing = <<>> =>
    \A c \in {d \in Children : holding[d] = "Ended"} :
      /\ body[c] \in {"NONE", "GONE"}
      /\ \A end \in HeldBy(c, "Worker") : AtEnd(c, end)

(* A program runs in its job, from the file that was asked for, and with *)
(* somebody who drains its output.                                       *)
RunsAsAsked ==
  \A c \in Children :
    body[c] \in Running =>
      /\ Windows => c \in inJob /\ image[c].loaded = image[c].asked
      /\ \A by \in {"Call", "Launch", "Owner"} : HeldBy(c, by) \cap Readers = {}

(* Dropping never waits for a reader that the same thread would have to be *)
DropsReturn == closing # <<>> => CloseReturns(closing[1])

(* Whatever step of a launch fails, every handle is closed or kept by the *)
(* control of a child that may still be there; a program never runs       *)
(* outside its job; its output always comes to an end; and no drop hangs. *)
(* (managed.rs of both platforms, managed_runs.rs)                        *)
HandlesAreAccounted == NothingLeaks /\ LetGoOfNothing /\ RunsAsAsked /\ DropsReturn
=============================================================================
