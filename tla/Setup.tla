------------------------------- MODULE Setup -------------------------------
(***************************************************************************)
(* The installation pipeline of src/src/android/proot/setup.rs.            *)
(*                                                                         *)
(* `setup` runs five stages in order on the main thread.  The first stage  *)
(* that is not done yet answers with the JoinHandle of a worker thread;    *)
(* a pipeline thread then joins that worker and walks the remaining        *)
(* stages, while the main thread goes on to serve the progress page.       *)
(* If no stage answers with a handle the desktop is built instead.         *)
(*                                                                         *)
(* What the threads leave on disk survives the death of the process, and   *)
(* every start decides from the disk alone what is already done.  The      *)
(* process can be killed between any two steps.  Adverse outcomes (a       *)
(* failed download, a full disk, a panicking acceptor thread) are taken    *)
(* from a budget, MaxFaults, so that what needs them can be told apart     *)
(* from what only needs an unlucky kill.                                   *)
(***************************************************************************)
EXTENDS Integers, Sequences

CONSTANTS
    BodyChunks,     \* reads the response body takes
    LogLines,       \* lines one run of the install command prints
    MaxFaults,      \* bound: adverse outcomes in a behaviour
    MaxRestarts     \* bound: kills in a behaviour

ASSUME BodyChunksAssumption == BodyChunks \in Nat
ASSUME LogLinesAssumption == LogLines \in Nat
ASSUME MaxFaultsAssumption == MaxFaults \in Nat
ASSUME MaxRestartsAssumption == MaxRestarts \in Nat

VARIABLES
    \* ---- the disk
    archive,        \* archlinux-fs.tar.xz in the data directory
    extracted,      \* the directory the archive is unpacked to
    fsRoot,         \* ARCH_FS_ROOT; "absent" is missing or empty
    procFiles,      \* files of the simulated /proc that exist
    deps,           \* what the configured `check` command finds
    dbLock,         \* /var/lib/pacman/db.lck exists
    firefox,        \* both Firefox configuration files are written
    xkb,            \* the symlink usr/share/X11/xkb
    \* ---- processes and threads
    pacman,         \* the external process of the install command
    mainPc,         \* the main thread
    pipePc,         \* the pipeline thread
    cursor,         \* index of the stage being called (main, then pipeline)
    xkbStep,        \* inside fix_xkb_symlink: before or after the removal
    worker,         \* the thread of the current stage
    count,          \* the worker's loop counter
    \* ---- shared with the progress page
    progress,       \* Arc<Mutex<u16>>
    sent,           \* every message put into the channel, in order
    receiver,       \* the receiving end of the channel is alive
    \* ---- bounds
    faults, restarts

disk    == <<archive, extracted, fsRoot, procFiles, firefox>>
system  == <<deps, dbLock, xkb, pacman>>
caller  == <<mainPc, pipePc, cursor, xkbStep>>
channel == <<sent, receiver>>
bounds  == <<faults, restarts>>
vars    == <<disk, system, caller, worker, count, progress, channel, bounds>>

-----------------------------------------------------------------------------
(* The vocabulary of the code.                                             *)

StageCount == 5
Stage      == 1 .. StageCount
Callers    == {"main", "pipe"}

\* Mutant of Percent: the last stage would start at 100.
Percent_LastIsFull(s) == ((s - 1) * 100) \div (StageCount - 1)

\* (i as u16) * 100 / stages.len(), for the stage with index i = s - 1.
Percent(s) == ((s - 1) * 100) \div StageCount

\* proc_files in the order in which they are written; the path of the fourth
\* is the one that tells whether the stage is done.
ProcFiles ==
    <<"loadavg", "stat", "uptime", "version", "vmstat", "cap_last_cap",
      "inotify_max_user_watches">>
ProcFileNames == {"loadavg", "stat", "uptime", "version", "vmstat",
                  "cap_last_cap", "inotify_max_user_watches"}
\* Mutant of Marker: the stage would look for the first file.
Marker_First == "loadavg"

Marker == "version"
UpToMarker == {"loadavg", "stat", "uptime", "version"}

\* SetupMessage: progress notes and errors.
Notes   == {"downloading", "percent", "extracting", "simulating", "log",
            "finished"}
Errors  == {"retryError", "xkbError", "stageError"}
Message == Notes \cup Errors

\* Where the worker of a stage starts, and where a pb_expect, an unwrap or a
\* panic! of it can fire for reasons outside the program.
Entry       == <<"look", "sysdata", "unlock">>
RootPcs     == {"look", "fetch", "body", "extract", "open", "unpack", "move",
                "discard"}
SysDataPcs  == {"sysdata", "writing"}
InstallPcs  == {"unlock", "spawn", "run", "verify"}
MayPanic    == {"fetch", "body", "open", "move", "discard", "writing",
                "unlock", "spawn", "run", "verify"}
WorkerPcs   == RootPcs \cup SysDataPcs \cup InstallPcs
                  \cup {"idle", "ok", "panicked"}

-----------------------------------------------------------------------------
Init ==
    /\ archive = "absent" /\ extracted = "absent" /\ fsRoot = "absent"
    /\ procFiles = {} /\ firefox = FALSE
    /\ deps = "missing" /\ dbLock = FALSE /\ xkb = "missing"
    /\ pacman = "off"
    /\ mainPc = "off" /\ pipePc = "none" /\ cursor = 1 /\ xkbStep = "check"
    /\ worker = "idle" /\ count = 0
    /\ progress = 0 /\ sent = <<>> /\ receiver = TRUE
    /\ faults = 0 /\ restarts = 0

\* An adverse outcome is charged to the budget.
Fault == faults < MaxFaults /\ faults' = faults + 1 /\ restarts' = restarts

\* The process is gone: its threads, its children, the channel and the
\* counter with it.  The disk stays as it is.
ProcessGone ==
    /\ mainPc' = "off" /\ pipePc' = "none" /\ cursor' = 1 /\ xkbStep' = "check"
    /\ worker' = "idle" /\ count' = 0 /\ pacman' = "off"
    /\ progress' = 0 /\ sent' = <<>> /\ receiver' = TRUE
    /\ UNCHANGED <<disk, deps, dbLock, xkb>>

\* mpsc::Sender::send.  Its result is ignored by `.unwrap_or(())` and turned
\* into a panic of the calling thread by `.pb_expect`.
Push(m) == IF receiver THEN Append(sent, m) ELSE sent

\* send(..).pb_expect(..) in a worker that then goes on at pc.
MustSend(m, pc) ==
    /\ sent' = Push(m)
    /\ worker' = IF receiver THEN pc ELSE "panicked"
    /\ UNCHANGED receiver

-----------------------------------------------------------------------------
(* The stages as seen by the thread that calls them.                       *)

\* What the first three stage functions take for "done previously".

\* Mutant of RootPresent: the stage would also want its archive cleaned up.
RootPresent_Tidy == fsRoot # "absent" /\ archive = "absent"

RootPresent   == fsRoot # "absent"
SysDataMarked == Marker \in procFiles
Installed     == deps = "installed"

Finished(s) ==
    CASE s = 1 -> RootPresent
      [] s = 2 -> SysDataMarked
      [] s = 3 -> Installed
      [] OTHER -> FALSE

Calls(c) ==
    \/ c = "main" /\ mainPc = "scanning"
    \/ c = "pipe" /\ pipePc = "calling"

\* A stage returned None: the caller's loop goes to the next one.  At the head
\* of its loop the pipeline thread also sets the counter for that next stage.
Return(c) ==
    /\ cursor' = cursor + 1
    /\ xkbStep' = "check"
    /\ progress' = IF c = "pipe" /\ cursor < StageCount
                   THEN Percent(cursor + 1) ELSE progress
    /\ UNCHANGED <<mainPc, pipePc>>

\* Stages 1 to 3, done previously.
SkipStage(c) ==
    /\ Calls(c) /\ cursor \in 1 .. 3 /\ Finished(cursor)
    /\ Return(c)
    /\ UNCHANGED <<disk, system, worker, count, channel, bounds>>

\* Stages 1 to 3, not done: a worker is started.  On the main thread a
\* pipeline thread is started as well and the loop over the stages is left.
SpawnStage(c) ==
    /\ Calls(c) /\ cursor \in 1 .. 3 /\ ~Finished(cursor)
    /\ worker' = Entry[cursor]
    /\ IF c = "main" THEN mainPc' = "building" /\ pipePc' = "starting"
                     ELSE pipePc' = "joining" /\ UNCHANGED mainPc
    /\ UNCHANGED <<disk, system, cursor, xkbStep, count, progress, channel,
                   bounds>>

\* setup_firefox_config: written again by every caller, always None.
WriteFirefoxConfig(c) ==
    /\ Calls(c) /\ cursor = 4
    /\ firefox' = TRUE
    /\ Return(c)
    /\ UNCHANGED <<archive, extracted, fsRoot, procFiles, system, worker,
                   count, channel, bounds>>

\* fix_xkb_symlink on anything but a symlink with an absolute target.
XkbNothingToDo(c) ==
    /\ Calls(c) /\ cursor = 5 /\ xkbStep = "check" /\ xkb # "absolute"
    /\ Return(c)
    /\ UNCHANGED <<disk, system, worker, count, channel, bounds>>

\* Its fs::remove_file, whose failure is ignored.
XkbRemove(c) ==
    /\ Calls(c) /\ cursor = 5 /\ xkbStep = "check" /\ xkb = "absolute"
    /\ xkbStep' = "link"
    /\ \/ xkb' = "missing" /\ UNCHANGED bounds
       \/ xkb' = xkb /\ Fault
    /\ UNCHANGED <<disk, deps, dbLock, pacman, mainPc, pipePc, cursor, worker,
                   count, progress, channel>>

\* Its symlink: fails if the old link is still there, or for its own reasons;
\* a failure is only reported.
XkbLink(c) ==
    /\ Calls(c) /\ cursor = 5 /\ xkbStep = "link"
    /\ \/ xkb = "missing" /\ xkb' = "relative" /\ UNCHANGED <<sent, bounds>>
       \/ xkb = "missing" /\ xkb' = xkb /\ sent' = Push("xkbError") /\ Fault
       \/ /\ xkb = "absolute" /\ xkb' = xkb
          /\ sent' = Push("xkbError") /\ UNCHANGED bounds
    /\ Return(c)
    /\ UNCHANGED <<disk, deps, dbLock, pacman, worker, count, receiver>>

\* The caller itself panics: `check` cannot be run (stage 3) or a Firefox
\* file cannot be written (stage 4).  On the main thread that ends the
\* process; the pipeline thread dies without a word to the page.
CallerPanics(c) ==
    /\ Calls(c) /\ cursor \in {3, 4} /\ Fault
    /\ IF c = "main"
       THEN ProcessGone
       ELSE /\ pipePc' = "panicked"
            /\ UNCHANGED <<disk, system, mainPc, cursor, xkbStep, worker,
                           count, progress, channel>>

-----------------------------------------------------------------------------
(* Stage 1, setup_arch_fs.                                                 *)

SkipDownload ==
    /\ worker = "look" /\ archive # "absent"
    /\ worker' = "extract"
    /\ UNCHANGED <<disk, system, caller, count, progress, channel, bounds>>

BeginDownload ==
    /\ worker = "look" /\ archive = "absent"
    /\ MustSend("downloading", "fetch")
    /\ UNCHANGED <<disk, system, caller, count, progress, bounds>>

\* The response's headers are in and the file is created, still empty.
Fetch ==
    /\ worker = "fetch"
    /\ archive' = "bad" /\ count' = 0 /\ worker' = "body"
    /\ UNCHANGED <<extracted, fsRoot, procFiles, firefox, system, caller,
                   progress, channel, bounds>>

\* One read and one write; a message if the total is known and the rounded
\* percentage changed.
BodyChunk ==
    /\ worker = "body" /\ count < BodyChunks
    /\ count' = count + 1
    /\ sent' \in {sent, Push("percent")}
    /\ UNCHANGED <<disk, system, caller, worker, progress, receiver, bounds>>

\* read returns 0.  Neither the status nor the length is checked: an error
\* page or a connection closed early ends the loop in the same way.
BodyEnd ==
    /\ worker = "body"
    /\ \/ count = BodyChunks /\ archive' = "whole" /\ UNCHANGED bounds
       \/ UNCHANGED archive /\ Fault
    /\ worker' = "extract"
    /\ UNCHANGED <<extracted, fsRoot, procFiles, firefox, system, caller,
                   count, progress, channel>>

BeginExtract ==
    /\ worker = "extract"
    /\ MustSend("extracting", "open")
    /\ UNCHANGED <<disk, system, caller, count, progress, bounds>>

\* remove_dir_all of what an earlier attempt left, then File::open.
OpenArchive ==
    /\ worker = "open"
    /\ extracted' = "absent"
    /\ worker' = IF archive # "absent" THEN "unpack" ELSE "panicked"
    /\ UNCHANGED <<archive, fsRoot, procFiles, firefox, system, caller, count,
                   progress, channel, bounds>>

UnpackSome ==
    /\ worker = "unpack" /\ extracted = "absent"
    /\ extracted' = "partial"
    /\ UNCHANGED <<archive, fsRoot, procFiles, firefox, system, caller, worker,
                   count, progress, channel, bounds>>

UnpackDone ==
    /\ worker = "unpack" /\ extracted = "partial" /\ archive = "whole"
    /\ extracted' = "whole" /\ worker' = "move"
    /\ UNCHANGED <<archive, fsRoot, procFiles, firefox, system, caller, count,
                   progress, channel, bounds>>

\* Mutant of UnpackFails: the error would be ignored.
UnpackFails_Ignored ==
    /\ worker = "unpack" /\ archive = "bad"
    /\ worker' = "move"
    /\ UNCHANGED <<disk, system, caller, count, progress, channel, bounds>>

\* unpack returned Err: both are removed, the page is told, and the loop
\* starts again with a download.
UnpackFails ==
    /\ worker = "unpack"
    /\ \/ archive = "bad" /\ UNCHANGED bounds
       \/ archive = "whole" /\ Fault
    /\ extracted' = "absent" /\ archive' = "absent"
    /\ sent' = Push("retryError")
    /\ worker' = "look"
    /\ UNCHANGED <<fsRoot, procFiles, firefox, system, caller, count, progress,
                   receiver>>

\* fs::rename fails without a source or onto a directory that is not empty.
MoveRoot ==
    /\ worker = "move"
    /\ IF extracted # "absent" /\ fsRoot = "absent"
       THEN fsRoot' = extracted /\ extracted' = "absent" /\ worker' = "discard"
       ELSE worker' = "panicked" /\ UNCHANGED <<fsRoot, extracted>>
    /\ UNCHANGED <<archive, procFiles, firefox, system, caller, count,
                   progress, channel, bounds>>

DiscardArchive ==
    /\ worker = "discard"
    /\ archive' = "absent"
    /\ worker' = IF archive # "absent" THEN "ok" ELSE "panicked"
    /\ UNCHANGED <<extracted, fsRoot, procFiles, firefox, system, caller,
                   count, progress, channel, bounds>>

-----------------------------------------------------------------------------
(* Stage 2, simulate_linux_sysdata_stage.                                  *)

BeginSysData ==
    /\ worker = "sysdata"
    /\ MustSend("simulating", "writing") /\ count' = 0
    /\ UNCHANGED <<disk, system, caller, progress, bounds>>

WriteProcFile ==
    /\ worker = "writing" /\ count < Len(ProcFiles)
    /\ procFiles' = procFiles \cup {ProcFiles[count + 1]}
    /\ count' = count + 1
    /\ worker' = IF count + 1 = Len(ProcFiles) THEN "ok" ELSE "writing"
    /\ UNCHANGED <<archive, extracted, fsRoot, firefox, system, caller,
                   progress, channel, bounds>>

-----------------------------------------------------------------------------
(* Stage 3, install_dependencies.                                          *)

\* exec_with_panic_on_error("rm -f db.lck") reads the command's stderr to its
\* end, so the command is over; any error but PRoot's own is ignored.
RemoveLock ==
    /\ worker = "unlock"
    /\ \/ dbLock' = FALSE /\ UNCHANGED bounds
       \/ UNCHANGED dbLock /\ Fault
    /\ worker' = "spawn"
    /\ UNCHANGED <<disk, deps, xkb, pacman, caller, count, progress, channel>>

\* exec(install): pacman takes the database lock, or gives up if it exists.
SpawnInstall ==
    /\ worker = "spawn"
    /\ pacman' = IF dbLock THEN pacman ELSE "running"
    /\ dbLock' = TRUE
    /\ worker' = "run" /\ count' = 0
    /\ UNCHANGED <<disk, deps, xkb, caller, progress, channel, bounds>>

InstallLog ==
    /\ worker = "run" /\ pacman = "running" /\ count < LogLines
    /\ MustSend("log", "run")
    /\ count' = count + 1
    /\ UNCHANGED <<disk, system, caller, progress, bounds>>

\* Mutants of InstallEof: nobody would wait for the command, or the wait would
\* be for its success.
InstallEof_NoWait ==
    /\ worker = "run"
    /\ worker' = "verify"
    /\ UNCHANGED <<disk, system, caller, count, progress, channel, bounds>>

InstallEof_OnSuccess ==
    /\ worker = "run" /\ pacman = "off" /\ Installed
    /\ worker' = "verify"
    /\ UNCHANGED <<disk, system, caller, count, progress, channel, bounds>>

\* with_log returns when the pipe is at its end: the writer has exited.
InstallEof ==
    /\ worker = "run" /\ pacman = "off"
    /\ worker' = "verify"
    /\ UNCHANGED <<disk, system, caller, count, progress, channel, bounds>>

Verify ==
    /\ worker = "verify"
    /\ worker' = IF Installed THEN "ok" ELSE "unlock"
    /\ UNCHANGED <<disk, system, caller, count, progress, channel, bounds>>

\* External: the command unpacks its packages, records them and releases the
\* lock; or it stops half way, with or without releasing it.
PacmanUnpacks ==
    /\ pacman = "running" /\ xkb = "missing"
    /\ xkb' \in {"absolute", "relative"}
    /\ UNCHANGED <<disk, deps, dbLock, pacman, caller, worker, count, progress,
                   channel, bounds>>

PacmanCommits ==
    /\ pacman = "running" /\ xkb # "missing"
    /\ deps' = "installed" /\ dbLock' = FALSE /\ pacman' = "off"
    /\ UNCHANGED <<disk, xkb, caller, worker, count, progress, channel, bounds>>

PacmanAborts ==
    /\ pacman = "running" /\ Fault
    /\ pacman' = "off" /\ dbLock' \in BOOLEAN
    /\ UNCHANGED <<disk, deps, xkb, caller, worker, count, progress, channel>>

\* A pb_expect, unwrap or panic! of the worker fires.
WorkerPanics ==
    /\ worker \in MayPanic /\ Fault
    /\ worker' = "panicked"
    /\ UNCHANGED <<disk, system, caller, count, progress, channel>>

-----------------------------------------------------------------------------
(* The pipeline thread.                                                    *)

\* Mutant of PipeStart: the counter would be set for the next stage.
PipeStart_Ahead ==
    /\ pipePc = "starting"
    /\ progress' = Percent(cursor + 1) /\ pipePc' = "joining"
    /\ UNCHANGED <<disk, system, mainPc, cursor, xkbStep, worker, count,
                   channel, bounds>>

PipeStart ==
    /\ pipePc = "starting"
    /\ progress' = Percent(cursor) /\ pipePc' = "joining"
    /\ UNCHANGED <<disk, system, mainPc, cursor, xkbStep, worker, count,
                   channel, bounds>>

\* join() is Ok: the counter moves on, and with it the loop.
PipeJoin ==
    /\ pipePc = "joining" /\ worker = "ok"
    /\ worker' = "idle" /\ pipePc' = "calling"
    /\ cursor' = cursor + 1 /\ progress' = Percent(cursor + 1)
    /\ UNCHANGED <<disk, system, mainPc, xkbStep, count, channel, bounds>>

\* join() is Err: handle_stage_error, and the thread ends.
PipeJoinFails ==
    /\ pipePc = "joining" /\ worker = "panicked"
    /\ worker' = "idle" /\ pipePc' = "failed"
    /\ sent' = Push("stageError")
    /\ UNCHANGED <<disk, system, mainPc, cursor, xkbStep, count, progress,
                   receiver, bounds>>

PipeComplete ==
    /\ pipePc = "calling" /\ cursor = StageCount + 1
    /\ progress' = 100 /\ pipePc' = "finishing"
    /\ UNCHANGED <<disk, system, mainPc, cursor, xkbStep, worker, count,
                   channel, bounds>>

\* Mutant of PipeAnnounce: it would switch this session to the desktop.
PipeAnnounce_Switch ==
    /\ pipePc = "finishing"
    /\ sent' = Push("finished") /\ pipePc' = "finished"
    /\ mainPc' = "wayland"
    /\ UNCHANGED <<disk, system, cursor, xkbStep, worker, count, progress,
                   receiver, bounds>>

PipeAnnounce ==
    /\ pipePc = "finishing"
    /\ sent' = Push("finished")
    /\ pipePc' = IF receiver THEN "finished" ELSE "panicked"
    /\ UNCHANGED <<disk, system, mainPc, cursor, xkbStep, worker, count,
                   progress, receiver, bounds>>

-----------------------------------------------------------------------------
(* The main thread and the process.                                        *)

StartApp ==
    /\ mainPc = "off" /\ mainPc' = "scanning"
    /\ UNCHANGED <<disk, system, pipePc, cursor, xkbStep, worker, count,
                   progress, channel, bounds>>

\* fully_installed is false: WebviewBackend::build.
BuildWebview ==
    /\ mainPc = "building" /\ mainPc' = "webview"
    /\ UNCHANGED <<disk, system, pipePc, cursor, xkbStep, worker, count,
                   progress, channel, bounds>>

\* Its socket cannot be bound.
BindFails == mainPc = "building" /\ Fault /\ ProcessGone

\* fully_installed is true: Compositor::build, whose keyboard needs the xkb
\* data behind the symlink, as it is resolved outside the Linux root.
BuildCompositor ==
    /\ mainPc = "scanning" /\ cursor = StageCount + 1
    /\ IF xkb = "relative"
       THEN /\ mainPc' = "wayland"
            /\ UNCHANGED <<disk, system, pipePc, cursor, xkbStep, worker,
                           count, progress, channel>>
       ELSE ProcessGone
    /\ UNCHANGED bounds

\* The threads that own the receiver are gone (backend/webview.rs).
ReceiverDropped ==
    /\ mainPc = "webview" /\ receiver /\ Fault
    /\ receiver' = FALSE
    /\ UNCHANGED <<disk, system, caller, worker, count, progress, sent>>

\* The user or Android ends the process.
Kill ==
    /\ mainPc # "off" /\ restarts < MaxRestarts
    /\ ProcessGone
    /\ restarts' = restarts + 1 /\ UNCHANGED faults

-----------------------------------------------------------------------------
CallerStep(c) ==
    \/ SkipStage(c) \/ SpawnStage(c) \/ WriteFirefoxConfig(c)
    \/ XkbNothingToDo(c) \/ XkbRemove(c) \/ XkbLink(c)

MainStep == CallerStep("main") \/ BuildWebview \/ BuildCompositor

PipeStep ==
    \/ CallerStep("pipe")
    \/ PipeStart \/ PipeJoin \/ PipeJoinFails \/ PipeComplete \/ PipeAnnounce

WorkerStep ==
    \/ SkipDownload \/ BeginDownload \/ Fetch \/ BodyChunk \/ BodyEnd
    \/ BeginExtract \/ OpenArchive \/ UnpackSome \/ UnpackDone \/ UnpackFails
    \/ MoveRoot \/ DiscardArchive
    \/ BeginSysData \/ WriteProcFile
    \/ RemoveLock \/ SpawnInstall \/ InstallLog \/ InstallEof \/ Verify

PacmanStep == PacmanUnpacks \/ PacmanCommits

\* What nobody has to do.
Adversity ==
    \/ \E c \in Callers : CallerPanics(c)
    \/ PacmanAborts \/ WorkerPanics \/ BindFails \/ Kill

\* Everything but the loss of the receiver, which is not this file's doing.
SetupStep ==
    StartApp \/ MainStep \/ PipeStep \/ WorkerStep \/ PacmanStep \/ Adversity

Next == SetupStep \/ ReceiverDropped

\* The operating system schedules every thread and process; a read of the
\* network ends, if only by the client's timeout.  Nobody has to start the
\* app, and nothing has to go wrong.
Fairness ==
    /\ WF_vars(MainStep) /\ WF_vars(PipeStep)
    /\ WF_vars(WorkerStep) /\ WF_vars(PacmanStep)

Spec == Init /\ [][Next]_vars /\ Fairness

-----------------------------------------------------------------------------
(* Properties.                                                             *)

\* Every variable ranges over the states the code can put it in; in
\* particular the counter is one of the values the pipeline computes.
TypeOK ==
    /\ archive \in {"absent", "bad", "whole"}
    /\ extracted \in {"absent", "partial", "whole"}
    /\ fsRoot \in {"absent", "partial", "whole"}
    /\ procFiles \in SUBSET ProcFileNames
    /\ deps \in {"missing", "installed"}
    /\ dbLock \in BOOLEAN /\ firefox \in BOOLEAN
    /\ xkb \in {"missing", "absolute", "relative"}
    /\ pacman \in {"off", "running"}
    /\ mainPc \in {"off", "scanning", "building", "webview", "wayland"}
    /\ pipePc \in {"none", "starting", "joining", "calling", "finishing",
                   "finished", "failed", "panicked"}
    /\ cursor \in 1 .. StageCount + 1
    /\ xkbStep \in {"check", "link"}
    /\ worker \in WorkerPcs
    /\ count \in Nat
    /\ progress \in {0, 20, 40, 60, 80, 100}
    /\ sent \in Seq(Message) /\ receiver \in BOOLEAN
    /\ faults \in 0 .. MaxFaults /\ restarts \in 0 .. MaxRestarts

\* What a stage is for.  Of the second one only what is written up to the
\* marker, for a kill after it leaves the others unwritten for good; of the
\* fifth nothing (XkbReady says why).
Post(s) ==
    CASE s = 1 -> fsRoot = "whole"
      [] s = 2 -> UpToMarker \subseteq procFiles
      [] s = 3 -> deps = "installed"
      [] s = 4 -> firefox
      [] OTHER -> TRUE

\* The Linux root is never a half unpacked one, whatever downloads fail and
\* whenever the process is killed: setup_arch_fs unpacks next to it and moves
\* the result in one rename, which matters because any non-empty root counts
\* as done at the next start.
RootNeverPartial == fsRoot # "partial"

\* A stage is only called, by main or by the pipeline, when the effects of all
\* the stages before it are on the disk, however they got there.
PredecessorsDone == \A s \in 1 .. 4 : cursor > s => Post(s)

\* The counter never runs ahead of the disk: past a stage's share, the
\* stage's effect is there (setup.rs:359-387).
ProgressHonest == \A s \in 1 .. 4 : progress > Percent(s) => Post(s)

\* `rm -f /var/lib/pacman/db.lck` never runs beside a pacman that holds it,
\* also when the install command is retried (setup.rs:238-248).
NeverUnlockLive == worker \in {"unlock", "spawn"} => pacman = "off"

\* Whatever a kill leaves behind, the next run of the stages copes with it: as
\* long as nothing else has gone wrong no pb_expect fires, no stage fails.
CleanRecovery ==
    faults = 0 => /\ worker # "panicked"
                  /\ pipePc \notin {"failed", "panicked"}

\* During a session the counter only grows.
ProgressMonotone == [][mainPc' # "off" => progress' >= progress]_vars

\* An installing session comes to an end: the pipeline finishes, or it stops
\* at a failed stage, unless the process is gone before.  Retries of the
\* download and of the install command go on only while something fails.
SetupSettles ==
    (mainPc = "webview") ~>
        (pipePc \in {"finished", "failed", "panicked"} \/ mainPc = "off")

\* The pipeline implements the abstract installation.  Its durable stages are
\* the first three; the others are repeated in every session.
Done == IF fsRoot = "absent" THEN 0
        ELSE IF Marker \notin procFiles THEN 1
        ELSE IF deps # "installed" THEN 2 ELSE 3
Session == IF mainPc = "off" THEN "off"
           ELSE IF mainPc = "scanning" THEN "checking"
           ELSE IF mainPc = "wayland" THEN "desktop" ELSE "installing"

Install == INSTANCE StagedInstall
               WITH Stages <- 3, done <- Done, session <- Session

InstallSpec == Install!Spec

\* setup.rs:49-50, "Each stage should indicate whether the associated task is
\* done previously or not. Thus, it should return a finished status if the
\* task is done": once the fifth stage, "Fix xkb symlink (last)" (setup.rs:338),
\* is passed, the link is the relative one.
XkbReady == cursor > 5 => xkb = "relative"

-----------------------------------------------------------------------------
(* The inductive invariant behind the safety properties above.             *)

\* Who runs when: no pipeline without the progress page's session, no worker
\* without a pipeline thread to join it, and every worker in its own stage.
ThreadsInv ==
    /\ mainPc \in {"building", "webview"} <=> pipePc # "none"
    /\ mainPc = "off" => cursor = 1
    /\ mainPc = "wayland" => cursor = StageCount + 1
    /\ mainPc = "off" \/ pipePc = "none" => progress = 0
    /\ pipePc \in {"starting", "joining"} <=> worker # "idle"
    /\ worker # "idle" => cursor \in 1 .. 3
    /\ worker \in RootPcs => cursor = 1
    /\ worker \in SysDataPcs => cursor = 2
    /\ worker \in InstallPcs => cursor = 3
    /\ pipePc \in {"finishing", "finished"} => cursor = StageCount + 1
    /\ pacman = "running" => /\ cursor = 3
                             /\ worker \in {"run", "panicked"} \/ pipePc = "failed"
    /\ progress <= Percent(cursor)

\* What the worker of stage 1 relies on between its steps.
RootInv ==
    /\ fsRoot # "partial"
    /\ worker \in RootPcs \ {"discard"} => fsRoot = "absent"
    /\ worker = "discard" => fsRoot = "whole"
    /\ worker = "move" => extracted = "whole"
    /\ worker \in {"body", "extract", "open", "unpack", "move", "discard"}
           => archive # "absent"

\* The simulated files are written in order, so the marker stands for those
\* before it; a worker that is through has done its stage's work.
StagesInv ==
    /\ Marker \in procFiles => UpToMarker \subseteq procFiles
    /\ procFiles # {} => fsRoot = "whole"
    /\ deps = "installed" => Marker \in procFiles
    /\ worker = "writing" =>
          /\ count < Len(ProcFiles)
          /\ \A k \in 1 .. Len(ProcFiles) : k <= count => ProcFiles[k] \in procFiles
    /\ worker = "ok" => Post(cursor)
    /\ PredecessorsDone

\* Without a fault the receiver is there and nobody has panicked.
RecoveryInv == CleanRecovery /\ (faults = 0 => receiver)

SetupInv == TypeOK /\ ThreadsInv /\ RootInv /\ StagesInv /\ RecoveryInv
=============================================================================
