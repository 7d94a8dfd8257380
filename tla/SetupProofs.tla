---------------------------- MODULE SetupProofs ----------------------------
(***************************************************************************)
(* Machine-checked proofs about modules Setup and Installer, for all       *)
(* values of their constants: the pipeline's invariants, the monotone      *)
(* progress counter, that it implements StagedInstall, and what the page   *)
(* that runs beside it shows.                                              *)
(*                                                                         *)
(* Everything rests on SetupInv.  Its four parts after TypeOK each build   *)
(* on the ones before: who runs when (ThreadsInv), what the worker of      *)
(* stage 1 relies on (RootInv), what a stage leaves behind (StagesInv) and *)
(* that only faults end in a panic (RecoveryInv).  One lemma per part      *)
(* shows that each step preserves it.                                      *)
(*                                                                         *)
(* All of it stays true when the page's threads run beside the pipeline,   *)
(* and InstallerInv adds what ties them together: a thread that can take   *)
(* messages is the active client's (OneClient); what was stamped or shown  *)
(* was once the counter's value (StampsOld); and what an open page shows   *)
(* last is the message taken last, or the one before while one is in hand  *)
(* (PagesCurrent).                                                         *)
(***************************************************************************)
EXTENDS Installer, TLAPS

USE DEF disk, system, caller, channel, bounds,
        RootPresent, SysDataMarked, Installed

-----------------------------------------------------------------------------
(* Facts about the constants of the code.                                  *)

LEMMA PercentValue == \A s \in 1 .. 6 : Percent(s) = (s - 1) * 20
  BY DEF Percent, StageCount

LEMMA ProcFilesFacts ==
    /\ Len(ProcFiles) = 7
    /\ \A k \in 1 .. 7 : ProcFiles[k] \in ProcFileNames
    /\ \A k \in 1 .. 7 : ProcFiles[k] = Marker => k = 4
    /\ UpToMarker = {ProcFiles[1], ProcFiles[2], ProcFiles[3], ProcFiles[4]}
  BY DEF ProcFiles, ProcFileNames, Marker, UpToMarker

\* Putting a message into the channel, or failing to.
LEMMA PushType ==
    ASSUME sent \in Seq(Message), NEW m \in Message
    PROVE  Push(m) \in Seq(Message)
  BY DEF Push

-----------------------------------------------------------------------------
(* Types.                                                                  *)

\* The end of the process keeps every variable in its type.
LEMMA GoneTypes ==
    ASSUME TypeOK, ProcessGone,
           faults' \in 0 .. MaxFaults, restarts' \in 0 .. MaxRestarts
    PROVE  TypeOK'
<1>1. /\ dbLock' \in BOOLEAN /\ firefox' \in BOOLEAN /\ receiver' \in BOOLEAN
      /\ sent' \in Seq(Message)
  BY DEF ProcessGone, TypeOK
<1>2. /\ archive' \in {"absent", "bad", "whole"}
      /\ extracted' \in {"absent", "partial", "whole"}
      /\ fsRoot' \in {"absent", "partial", "whole"}
      /\ procFiles' \in SUBSET ProcFileNames
      /\ deps' \in {"missing", "installed"}
      /\ xkb' \in {"missing", "absolute", "relative"}
  BY DEF ProcessGone, TypeOK
<1> QED
  BY <1>1, <1>2 DEF ProcessGone, TypeOK, StageCount, WorkerPcs

\* So does a step of the thread that calls the stages.
LEMMA CallerTypes ==
    ASSUME TypeOK, NEW c \in Callers, CallerStep(c)
    PROVE  TypeOK'
<1> USE PercentValue DEF TypeOK, Calls, StageCount
<1>1. CASE SkipStage(c)
  BY <1>1 DEF SkipStage, Return
<1>2. CASE SpawnStage(c)
  BY <1>2 DEF SpawnStage, Entry, WorkerPcs, RootPcs, SysDataPcs, InstallPcs
<1>3. CASE WriteFirefoxConfig(c)
  BY <1>3 DEF WriteFirefoxConfig, Return
<1>4. CASE XkbNothingToDo(c)
  BY <1>4 DEF XkbNothingToDo, Return
<1>5. CASE XkbRemove(c)
  BY <1>5, MaxFaultsAssumption DEF XkbRemove, Fault
<1>6. CASE XkbLink(c)
  <2>1. sent' \in Seq(Message)
    <3>1. sent' \in {sent, Push("xkbError")}
      BY <1>6 DEF XkbLink
    <3>2. "xkbError" \in Message
      BY DEF Message, Errors
    <3> QED
      BY <3>1, <3>2, PushType
  <2>2. dbLock' \in BOOLEAN /\ firefox' \in BOOLEAN /\ receiver' \in BOOLEAN
    BY <1>6 DEF XkbLink
  <2>3. /\ cursor' \in 1 .. 6 /\ progress' \in {0, 20, 40, 60, 80, 100}
        /\ xkbStep' = "check" /\ mainPc' = mainPc /\ pipePc' = pipePc
    BY <1>6 DEF XkbLink, Return
  <2>4. /\ xkb' \in {"missing", "absolute", "relative"}
        /\ faults' \in 0 .. MaxFaults /\ restarts' \in 0 .. MaxRestarts
    BY <1>6, MaxFaultsAssumption DEF XkbLink, Fault
  <2> QED
    BY <1>6, <2>1, <2>2, <2>3, <2>4 DEF XkbLink
<1> QED
  BY <1>1, <1>2, <1>3, <1>4, <1>5, <1>6 DEF CallerStep

LEMMA TypeStep ==
    ASSUME TypeOK, ThreadsInv, Next
    PROVE  TypeOK'
<1> DEFINE Booleans == /\ dbLock \in BOOLEAN /\ firefox \in BOOLEAN
                       /\ receiver \in BOOLEAN
<1> USE DEF TypeOK, WorkerPcs, RootPcs, SysDataPcs, InstallPcs
<1>1. ASSUME NEW c \in Callers, CallerStep(c) PROVE TypeOK'
  BY <1>1, CallerTypes
<1>2. CASE SkipDownload \/ UnpackSome \/ UnpackDone \/ MoveRoot \/ DiscardArchive
  BY <1>2 DEF SkipDownload, UnpackSome, UnpackDone, MoveRoot, DiscardArchive
<1>3. CASE BeginDownload
  BY <1>3 DEF BeginDownload, MustSend, Push, Message, Notes
<1>4. CASE Fetch \/ OpenArchive
  BY <1>4 DEF Fetch, OpenArchive
<1>5. CASE BodyChunk
  <2>1. Booleans'
    BY <1>5 DEF BodyChunk
  <2>2. sent' \in Seq(Message)
    BY <1>5 DEF BodyChunk, Push, Message, Notes
  <2> QED
    BY <1>5, <2>1, <2>2 DEF BodyChunk
<1>6. CASE BodyEnd
  BY <1>6, MaxFaultsAssumption DEF BodyEnd, Fault
<1>7. CASE UnpackFails
  <2>1. Booleans'
    BY <1>7 DEF UnpackFails
  <2>2. sent' \in Seq(Message)
    BY <1>7 DEF UnpackFails, Push, Message, Errors
  <2> QED
    BY <1>7, <2>1, <2>2, MaxFaultsAssumption DEF UnpackFails, Fault
<1>8. CASE BeginSysData
  BY <1>8 DEF BeginSysData, MustSend, Push, Message, Notes
<1>9. CASE WriteProcFile
  BY <1>9, ProcFilesFacts DEF WriteProcFile
<1>10. CASE RemoveLock
  <2>1. Booleans'
    BY <1>10 DEF RemoveLock
  <2> QED
    BY <1>10, <2>1, MaxFaultsAssumption DEF RemoveLock, Fault
<1>11. CASE SpawnInstall
  BY <1>11 DEF SpawnInstall
<1>12. CASE InstallLog
  BY <1>12 DEF InstallLog, MustSend, Push, Message, Notes
<1>13. CASE InstallEof \/ Verify \/ PacmanUnpacks
  BY <1>13 DEF InstallEof, Verify, PacmanUnpacks
<1>14. CASE PacmanCommits
  <2>1. Booleans'
    BY <1>14 DEF PacmanCommits
  <2> QED
    BY <1>14, <2>1 DEF PacmanCommits
<1>15. CASE PacmanAborts
  BY <1>15, MaxFaultsAssumption DEF PacmanAborts, Fault
<1>16. CASE WorkerPanics
  BY <1>16, MaxFaultsAssumption DEF WorkerPanics, Fault
<1>17. CASE PipeStart \/ PipeComplete
  BY <1>17, PercentValue DEF PipeStart, PipeComplete, StageCount
<1>18. CASE PipeJoin
  BY <1>18, PercentValue DEF PipeJoin, ThreadsInv, StageCount
<1>19. CASE PipeJoinFails
  BY <1>19 DEF PipeJoinFails, Push, Message, Errors
<1>20. CASE PipeAnnounce
  BY <1>20 DEF PipeAnnounce, Push, Message, Notes
<1>21. CASE StartApp \/ BuildWebview
  BY <1>21 DEF StartApp, BuildWebview
<1>22. CASE BindFails
  BY <1>22, GoneTypes, MaxFaultsAssumption DEF BindFails, Fault
<1>23. CASE Kill
  BY <1>23, GoneTypes, MaxRestartsAssumption DEF Kill
<1>24. CASE BuildCompositor
  <2>1. CASE xkb = "relative"
    BY <1>24, <2>1 DEF BuildCompositor, StageCount
  <2>2. CASE xkb # "relative"
    BY <1>24, <2>2, GoneTypes DEF BuildCompositor
  <2> QED BY <2>1, <2>2
<1>25. CASE ReceiverDropped
  <2>1. Booleans'
    BY <1>25 DEF ReceiverDropped
  <2> QED
    BY <1>25, <2>1, MaxFaultsAssumption DEF ReceiverDropped, Fault
<1>26. ASSUME NEW c \in Callers, CallerPanics(c) PROVE TypeOK'
  <2>1. CASE c = "main"
    BY <1>26, <2>1, GoneTypes, MaxFaultsAssumption DEF CallerPanics, Fault
  <2>2. CASE c # "main"
    BY <1>26, <2>2, MaxFaultsAssumption DEF CallerPanics, Fault
  <2> QED BY <2>1, <2>2
<1>27. CASE BeginExtract
  BY <1>27 DEF BeginExtract, MustSend, Push, Message, Notes
<1> QED
  BY <1>1, <1>2, <1>3, <1>4, <1>5, <1>6, <1>7, <1>8, <1>9, <1>10, <1>11,
     <1>12, <1>13, <1>14, <1>15, <1>16, <1>17, <1>18, <1>19, <1>20, <1>21,
     <1>22, <1>23, <1>24, <1>25, <1>26, <1>27
  DEF Next, SetupStep, MainStep, PipeStep, WorkerStep, PacmanStep, Adversity,
      Callers

-----------------------------------------------------------------------------
(* Who runs when.                                                          *)

LEMMA ThreadsStep ==
    ASSUME TypeOK, ThreadsInv, Next
    PROVE  ThreadsInv'
<1> USE PercentValue
    DEF ThreadsInv, TypeOK, RootPcs, SysDataPcs, InstallPcs, WorkerPcs, StageCount
<1>1. ASSUME NEW c \in Callers, CallerStep(c) PROVE ThreadsInv'
  <2> USE DEF Callers, Calls
  <2>1. CASE SkipStage(c)
    BY <2>1 DEF SkipStage, Return
  <2>2. CASE SpawnStage(c)
    BY <2>2 DEF SpawnStage, Entry
  <2>3. CASE WriteFirefoxConfig(c)
    BY <2>3 DEF WriteFirefoxConfig, Return
  <2>4. CASE XkbNothingToDo(c)
    BY <2>4 DEF XkbNothingToDo, Return
  <2>5. CASE XkbRemove(c)
    BY <2>5 DEF XkbRemove
  <2>6. CASE XkbLink(c)
    BY <2>6 DEF XkbLink, Return
  <2> QED
    BY <1>1, <2>1, <2>2, <2>3, <2>4, <2>5, <2>6 DEF CallerStep
<1>2. CASE SkipDownload \/ BeginDownload \/ Fetch \/ BodyChunk \/ BodyEnd
  BY <1>2 DEF SkipDownload, BeginDownload, Fetch, BodyChunk, BodyEnd, MustSend
<1>3. CASE BeginExtract \/ OpenArchive \/ UnpackSome \/ UnpackDone \/ UnpackFails
  BY <1>3 DEF BeginExtract, OpenArchive, UnpackSome, UnpackDone, UnpackFails,
              MustSend
<1>4. CASE MoveRoot \/ DiscardArchive
  BY <1>4 DEF MoveRoot, DiscardArchive
<1>5. CASE BeginSysData \/ WriteProcFile
  BY <1>5 DEF BeginSysData, WriteProcFile, MustSend
<1>6. CASE RemoveLock \/ SpawnInstall \/ InstallLog
  BY <1>6 DEF RemoveLock, SpawnInstall, InstallLog, MustSend
<1>7. CASE InstallEof \/ Verify
  BY <1>7 DEF InstallEof, Verify
<1>8. CASE PacmanUnpacks \/ PacmanCommits \/ PacmanAborts
  BY <1>8 DEF PacmanUnpacks, PacmanCommits, PacmanAborts
<1>9. CASE WorkerPanics
  BY <1>9 DEF WorkerPanics, MayPanic
<1>10. CASE PipeStart
  BY <1>10 DEF PipeStart
<1>11. CASE PipeJoin
  BY <1>11 DEF PipeJoin
<1>12. CASE PipeJoinFails
  BY <1>12 DEF PipeJoinFails
<1>13. CASE PipeComplete
  BY <1>13 DEF PipeComplete
<1>14. CASE PipeAnnounce
  BY <1>14 DEF PipeAnnounce
<1>15. CASE StartApp
  BY <1>15 DEF StartApp
<1>16. CASE BuildWebview
  BY <1>16 DEF BuildWebview
<1>17. CASE BindFails \/ Kill
  BY <1>17 DEF BindFails, Kill, ProcessGone
<1>18. CASE BuildCompositor
  BY <1>18 DEF BuildCompositor, ProcessGone
<1>19. CASE ReceiverDropped
  BY <1>19 DEF ReceiverDropped
<1>20. ASSUME NEW c \in Callers, CallerPanics(c) PROVE ThreadsInv'
  BY <1>20 DEF CallerPanics, Calls, ProcessGone, Callers
<1> QED
  BY <1>1, <1>2, <1>3, <1>4, <1>5, <1>6, <1>7, <1>8, <1>9, <1>10, <1>11,
     <1>12, <1>13, <1>14, <1>15, <1>16, <1>17, <1>18, <1>19, <1>20
  DEF Next, SetupStep, MainStep, PipeStep, WorkerStep, PacmanStep, Adversity,
      Callers

-----------------------------------------------------------------------------
(* The Linux root.                                                         *)

LEMMA RootStep ==
    ASSUME TypeOK, ThreadsInv, RootInv, Next
    PROVE  RootInv'
<1> USE DEF RootInv, RootPcs, SysDataPcs, InstallPcs, WorkerPcs
\* A worker of stage 1 is only started on a missing root.
<1>1. ASSUME NEW c \in Callers, CallerStep(c) PROVE RootInv'
  BY <1>1 DEF CallerStep, SkipStage, SpawnStage, WriteFirefoxConfig,
              XkbNothingToDo, XkbRemove, XkbLink, Entry, Finished, TypeOK
<1>2. CASE SkipDownload \/ BeginDownload \/ Fetch \/ BodyChunk \/ BodyEnd
  BY <1>2 DEF SkipDownload, BeginDownload, Fetch, BodyChunk, BodyEnd, MustSend
<1>3. CASE BeginExtract \/ OpenArchive \/ UnpackSome \/ UnpackDone \/ UnpackFails
  BY <1>3 DEF BeginExtract, OpenArchive, UnpackSome, UnpackDone, UnpackFails,
              MustSend
<1>4. CASE MoveRoot \/ DiscardArchive
  BY <1>4 DEF MoveRoot, DiscardArchive
<1>5. CASE BeginSysData \/ WriteProcFile
  BY <1>5 DEF BeginSysData, WriteProcFile, MustSend
<1>6. CASE RemoveLock \/ SpawnInstall \/ InstallLog \/ InstallEof \/ Verify
  BY <1>6 DEF RemoveLock, SpawnInstall, InstallLog, InstallEof, Verify, MustSend
<1>7. CASE PacmanUnpacks \/ PacmanCommits \/ PacmanAborts \/ WorkerPanics
  BY <1>7 DEF PacmanUnpacks, PacmanCommits, PacmanAborts, WorkerPanics
<1>8. CASE PipeStart \/ PipeJoin \/ PipeJoinFails \/ PipeComplete \/ PipeAnnounce
  BY <1>8 DEF PipeStart, PipeJoin, PipeJoinFails, PipeComplete, PipeAnnounce
<1>9. CASE \/ StartApp \/ BuildWebview \/ BuildCompositor
           \/ BindFails \/ Kill \/ ReceiverDropped
  BY <1>9 DEF StartApp, BuildWebview, BuildCompositor, BindFails, Kill,
              ReceiverDropped, ProcessGone
<1>10. ASSUME NEW c \in Callers, CallerPanics(c) PROVE RootInv'
  BY <1>10 DEF CallerPanics, ProcessGone
<1> QED
  BY <1>1, <1>2, <1>3, <1>4, <1>5, <1>6, <1>7, <1>8, <1>9, <1>10
  DEF Next, SetupStep, MainStep, PipeStep, WorkerStep, PacmanStep, Adversity,
      Callers

-----------------------------------------------------------------------------
(* What the stages leave behind.                                           *)

LEMMA StagesStep ==
    ASSUME TypeOK, ThreadsInv, RootInv, StagesInv, Next
    PROVE  StagesInv'
<1> USE DEF TypeOK, ThreadsInv, RootInv, StagesInv, PredecessorsDone, Post,
            RootPcs, SysDataPcs, InstallPcs, WorkerPcs
<1>1. ASSUME NEW c \in Callers, CallerStep(c) PROVE StagesInv'
  \* A stage is passed over when its own check holds, which entails its effect.
  <2>1. CASE SkipStage(c)
    <3>1. Post(cursor)
      <4>1. CASE cursor = 1
        BY <2>1, <4>1 DEF SkipStage, Finished
      <4>2. CASE cursor = 2
        BY <2>1, <4>2 DEF SkipStage, Finished
      <4>3. CASE cursor = 3
        BY <2>1, <4>3 DEF SkipStage, Finished
      <4> QED
        BY <2>1, <4>1, <4>2, <4>3 DEF SkipStage
    <3>2. /\ UNCHANGED <<disk, system, worker, count>>
          /\ cursor' = cursor + 1
      BY <2>1 DEF SkipStage, Return
    <3>3. PredecessorsDone'
      BY <3>1, <3>2
    <3> QED
      BY <2>1, <3>2, <3>3 DEF SkipStage, Calls
  <2>2. CASE SpawnStage(c)
    BY <2>2 DEF SpawnStage, Entry
  <2>3. CASE WriteFirefoxConfig(c)
    BY <2>3 DEF WriteFirefoxConfig, Return, Calls
  <2>4. CASE XkbNothingToDo(c)
    BY <2>4 DEF XkbNothingToDo, Return
  <2>5. CASE XkbRemove(c)
    BY <2>5 DEF XkbRemove
  <2>6. CASE XkbLink(c)
    BY <2>6 DEF XkbLink, Return
  <2> QED
    BY <1>1, <2>1, <2>2, <2>3, <2>4, <2>5, <2>6 DEF CallerStep
<1>2. CASE SkipDownload \/ BeginDownload \/ Fetch \/ BodyChunk \/ BodyEnd
  BY <1>2 DEF SkipDownload, BeginDownload, Fetch, BodyChunk, BodyEnd, MustSend
<1>3. CASE BeginExtract \/ OpenArchive \/ UnpackSome \/ UnpackDone \/ UnpackFails
  BY <1>3 DEF BeginExtract, OpenArchive, UnpackSome, UnpackDone, UnpackFails,
              MustSend
<1>4. CASE MoveRoot \/ DiscardArchive
  BY <1>4 DEF MoveRoot, DiscardArchive
<1>5. CASE BeginSysData
  BY <1>5, ProcFilesFacts DEF BeginSysData, MustSend
\* The fourth file is the marker: the three before it are there already.
<1>6. CASE WriteProcFile
  BY <1>6, ProcFilesFacts DEF WriteProcFile
<1>7. CASE RemoveLock \/ SpawnInstall \/ InstallLog \/ InstallEof \/ Verify
  BY <1>7 DEF RemoveLock, SpawnInstall, InstallLog, InstallEof, Verify,
              MustSend, Finished
<1>8. CASE PacmanUnpacks \/ PacmanCommits \/ PacmanAborts \/ WorkerPanics
  BY <1>8 DEF PacmanUnpacks, PacmanCommits, PacmanAborts, WorkerPanics,
              Marker, UpToMarker
<1>9. CASE PipeStart \/ PipeJoin \/ PipeJoinFails \/ PipeComplete \/ PipeAnnounce
  BY <1>9 DEF PipeStart, PipeJoin, PipeJoinFails, PipeComplete, PipeAnnounce
<1>10. CASE \/ StartApp \/ BuildWebview \/ BuildCompositor
            \/ BindFails \/ Kill \/ ReceiverDropped
  BY <1>10 DEF StartApp, BuildWebview, BuildCompositor, BindFails, Kill,
               ReceiverDropped, ProcessGone
<1>11. ASSUME NEW c \in Callers, CallerPanics(c) PROVE StagesInv'
  BY <1>11 DEF CallerPanics, ProcessGone
<1> QED
  BY <1>1, <1>2, <1>3, <1>4, <1>5, <1>6, <1>7, <1>8, <1>9, <1>10, <1>11
  DEF Next, SetupStep, MainStep, PipeStep, WorkerStep, PacmanStep, Adversity,
      Callers

-----------------------------------------------------------------------------
(* Without a fault nothing fails.                                          *)

LEMMA RecoveryStep ==
    ASSUME TypeOK, ThreadsInv, RootInv, RecoveryInv, Next
    PROVE  RecoveryInv'
<1> USE DEF TypeOK, ThreadsInv, RootInv, RecoveryInv, CleanRecovery, Fault,
            RootPcs, SysDataPcs, InstallPcs, WorkerPcs
<1>1. ASSUME NEW c \in Callers, CallerStep(c) PROVE RecoveryInv'
  BY <1>1 DEF CallerStep, SkipStage, SpawnStage, WriteFirefoxConfig,
              XkbNothingToDo, XkbRemove, XkbLink, Entry, Return, Callers
<1>2. CASE SkipDownload \/ BeginDownload \/ Fetch \/ BodyChunk \/ BodyEnd
  BY <1>2 DEF SkipDownload, BeginDownload, Fetch, BodyChunk, BodyEnd, MustSend
\* The archive is there to be opened, and the target of the rename is free.
<1>3. CASE BeginExtract \/ OpenArchive \/ UnpackSome \/ UnpackDone \/ UnpackFails
  BY <1>3 DEF BeginExtract, OpenArchive, UnpackSome, UnpackDone, UnpackFails,
              MustSend
<1>4. CASE MoveRoot \/ DiscardArchive
  BY <1>4 DEF MoveRoot, DiscardArchive
<1>5. CASE BeginSysData \/ WriteProcFile
  BY <1>5 DEF BeginSysData, WriteProcFile, MustSend
<1>6. CASE RemoveLock \/ SpawnInstall \/ InstallLog \/ InstallEof \/ Verify
  BY <1>6 DEF RemoveLock, SpawnInstall, InstallLog, InstallEof, Verify, MustSend
<1>7. CASE PacmanUnpacks \/ PacmanCommits \/ PacmanAborts \/ WorkerPanics
  BY <1>7 DEF PacmanUnpacks, PacmanCommits, PacmanAborts, WorkerPanics
<1>8. CASE PipeStart \/ PipeJoin \/ PipeJoinFails \/ PipeComplete \/ PipeAnnounce
  BY <1>8 DEF PipeStart, PipeJoin, PipeJoinFails, PipeComplete, PipeAnnounce
<1>9. CASE \/ StartApp \/ BuildWebview \/ BuildCompositor
           \/ BindFails \/ Kill \/ ReceiverDropped
  BY <1>9 DEF StartApp, BuildWebview, BuildCompositor, BindFails, Kill,
              ReceiverDropped, ProcessGone
<1>10. ASSUME NEW c \in Callers, CallerPanics(c) PROVE RecoveryInv'
  BY <1>10 DEF CallerPanics, ProcessGone, Callers
<1> QED
  BY <1>1, <1>2, <1>3, <1>4, <1>5, <1>6, <1>7, <1>8, <1>9, <1>10
  DEF Next, SetupStep, MainStep, PipeStep, WorkerStep, PacmanStep, Adversity,
      Callers

-----------------------------------------------------------------------------
(* The invariant, and the properties it entails.                           *)

LEMMA InitInv == Init => SetupInv
<1> SUFFICES ASSUME Init PROVE SetupInv
  OBVIOUS
<1> USE DEF Init, WorkerPcs, RootPcs, SysDataPcs, InstallPcs, StageCount
<1>1. TypeOK
  <2>1. dbLock \in BOOLEAN /\ firefox \in BOOLEAN /\ receiver \in BOOLEAN
    OBVIOUS
  <2>2. procFiles \in SUBSET ProcFileNames /\ sent \in Seq(Message)
    OBVIOUS
  <2>3. faults \in 0 .. MaxFaults /\ restarts \in 0 .. MaxRestarts
    BY MaxFaultsAssumption, MaxRestartsAssumption
  <2> QED
    BY <2>1, <2>2, <2>3 DEF TypeOK
<1>2. ThreadsInv
  BY PercentValue DEF ThreadsInv
<1>3. RootInv /\ StagesInv /\ RecoveryInv
  BY DEF RootInv, StagesInv, PredecessorsDone, RecoveryInv, CleanRecovery, Marker
<1> QED
  BY <1>1, <1>2, <1>3 DEF SetupInv

LEMMA SetupInvStep == SetupInv /\ Next => SetupInv'
  BY TypeStep, ThreadsStep, RootStep, StagesStep, RecoveryStep DEF SetupInv

LEMMA StutterInv == SetupInv /\ UNCHANGED vars => SetupInv'
<1> SUFFICES ASSUME SetupInv, UNCHANGED vars PROVE SetupInv'
  OBVIOUS
<1>1. TypeOK'
  BY DEF SetupInv, TypeOK, vars
<1>2. ThreadsInv' /\ RootInv'
  BY DEF SetupInv, ThreadsInv, RootInv, vars
<1>3. StagesInv'
  BY DEF SetupInv, StagesInv, PredecessorsDone, Post, vars
<1>4. RecoveryInv'
  BY DEF SetupInv, RecoveryInv, CleanRecovery, vars
<1> QED
  BY <1>1, <1>2, <1>3, <1>4 DEF SetupInv

\* SetupInv holds in every reachable state: it holds initially and every step
\* of the threads, of the installed command and of fate preserves it.
THEOREM Invariance == Spec => []SetupInv
<1>1. SetupInv /\ [Next]_vars => SetupInv'
  BY SetupInvStep, StutterInv
<1> QED
  BY InitInv, <1>1, PTL DEF Spec

\* Type correctness; in particular the counter only takes the values that the
\* stage indices give.
THEOREM TypeCorrect == Spec => []TypeOK
<1>1. SetupInv => TypeOK
  BY DEF SetupInv
<1> QED
  BY Invariance, <1>1, PTL

\* A half unpacked Linux root is never in the place where its mere presence
\* would count as an installation.
THEOREM RootSafe == Spec => []RootNeverPartial
<1>1. SetupInv => RootNeverPartial
  BY DEF SetupInv, RootInv, RootNeverPartial
<1> QED
  BY Invariance, <1>1, PTL

\* No stage is called before the effects of its predecessors are on the disk.
THEOREM StagesOrdered == Spec => []PredecessorsDone
<1>1. SetupInv => PredecessorsDone
  BY DEF SetupInv, StagesInv
<1> QED
  BY Invariance, <1>1, PTL

LEMMA HonestState == SetupInv => ProgressHonest
<1> SUFFICES ASSUME SetupInv, NEW s \in 1 .. 4, progress > Percent(s)
             PROVE  Post(s)
  BY DEF ProgressHonest
<1>1. cursor \in 1 .. 6 /\ progress \in Int /\ progress <= Percent(cursor)
  BY DEF SetupInv, TypeOK, ThreadsInv, StageCount
<1>2. cursor > s
  BY <1>1, PercentValue
<1> QED
  BY <1>2 DEF SetupInv, StagesInv, PredecessorsDone

\* The counter does not exceed the share of the stage the pipeline is at, and
\* what lies before that stage is done.
THEOREM CounterHonest == Spec => []ProgressHonest
  BY Invariance, HonestState, PTL

\* The lock of the package database is never removed under a live pacman.
THEOREM LockSafe == Spec => []NeverUnlockLive
<1>1. SetupInv => NeverUnlockLive
  BY DEF SetupInv, TypeOK, ThreadsInv, NeverUnlockLive
<1> QED
  BY Invariance, <1>1, PTL

\* Kills alone never make a stage fail.
THEOREM KillsRecoverable == Spec => []CleanRecovery
<1>1. SetupInv => CleanRecovery
  BY DEF SetupInv, RecoveryInv
<1> QED
  BY Invariance, <1>1, PTL
-----------------------------------------------------------------------------
(* The counter's steps, and the abstract installation.                     *)

LEMMA CounterStep ==
    ASSUME SetupInv, Next, mainPc' # "off"
    PROVE  progress' >= progress
<1> USE PercentValue DEF SetupInv, TypeOK, ThreadsInv, StageCount
<1>1. ASSUME NEW c \in Callers, CallerStep(c) PROVE progress' >= progress
  BY <1>1 DEF CallerStep, SkipStage, SpawnStage, WriteFirefoxConfig,
              XkbNothingToDo, XkbRemove, XkbLink, Return
<1>2. CASE PipeStart \/ PipeJoin
  BY <1>2 DEF PipeStart, PipeJoin
<1>3. CASE PipeJoinFails \/ PipeComplete \/ PipeAnnounce
  BY <1>3 DEF PipeJoinFails, PipeComplete, PipeAnnounce
<1>4. CASE WorkerStep \/ PacmanStep \/ ReceiverDropped
  BY <1>4 DEF WorkerStep, SkipDownload, BeginDownload, Fetch, BodyChunk,
     BodyEnd, BeginExtract, OpenArchive, UnpackSome, UnpackDone, UnpackFails,
     MoveRoot, DiscardArchive, BeginSysData, WriteProcFile, RemoveLock,
     SpawnInstall, InstallLog, InstallEof, Verify, PacmanStep,
     PacmanUnpacks, PacmanCommits, ReceiverDropped
<1>5. CASE StartApp \/ BuildWebview \/ BuildCompositor
  BY <1>5 DEF StartApp, BuildWebview, BuildCompositor, ProcessGone
<1>6. CASE Adversity
  BY <1>6 DEF Adversity, CallerPanics, PacmanAborts, WorkerPanics, BindFails,
              Kill, ProcessGone
<1> QED
  BY <1>1, <1>2, <1>3, <1>4, <1>5, <1>6
  DEF Next, SetupStep, MainStep, PipeStep, Callers

\* Within a session no step makes the counter smaller: it is only ever set to
\* the share of the stage that comes next.
THEOREM CounterMonotone == Spec => ProgressMonotone
<1>1. SetupInv /\ [Next]_vars
          => [mainPc' # "off" => progress' >= progress]_vars
  BY CounterStep
<1> QED
  BY Invariance, <1>1, PTL DEF Spec, ProgressMonotone

\* Three actions complete a stage, the session changes with the main thread, and
\* everything else is below the abstraction.
LEMMA RefinementStep ==
    ASSUME SetupInv, Next
    PROVE  Install!Next \/ UNCHANGED <<Done, Session>>
<1> USE DEF SetupInv, TypeOK, ThreadsInv, RootInv, StagesInv,
          Done, Session
\* Only the moved root, the marker and the committed packages complete a
\* stage.
<1>1. CASE MoveRoot
  BY <1>1 DEF MoveRoot, Install!Next, Install!CompleteStage, Marker, RootPcs
<1>2. CASE WriteProcFile
  <2>1. fsRoot = "whole" /\ mainPc \in {"building", "webview"}
    BY <1>2 DEF WriteProcFile, PredecessorsDone, Post, SysDataPcs
  <2>2. UNCHANGED <<fsRoot, deps, mainPc>>
    BY <1>2 DEF WriteProcFile
  <2>3. Marker \in procFiles => Marker \in procFiles'
    BY <1>2 DEF WriteProcFile
  <2> QED
    BY <2>1, <2>2, <2>3 DEF Install!Next, Install!CompleteStage
<1>3. CASE PacmanCommits
  BY <1>3 DEF PacmanCommits, Install!Next, Install!CompleteStage,
     PredecessorsDone, Post, Marker, UpToMarker
\* A session begins, chooses between installing and the desktop, and ends.
<1>4. CASE StartApp
  BY <1>4 DEF StartApp, Install!Next, Install!Open
<1>5. ASSUME NEW c \in Callers, SpawnStage(c)
      PROVE  Install!Next \/ UNCHANGED <<Done, Session>>
  <2>1. CASE c = "main"
    BY <1>5, <2>1 DEF SpawnStage, Calls, Finished, Install!Next,
       Install!StartInstall, PredecessorsDone, Post, Marker, UpToMarker
  <2>2. CASE c = "pipe"
    BY <1>5, <2>2 DEF SpawnStage
  <2> QED
    BY <2>1, <2>2 DEF Callers
<1>6. CASE BuildCompositor
  <2>1. Done = 3
    BY <1>6 DEF BuildCompositor, PredecessorsDone, Post, Marker, UpToMarker,
       StageCount
  <2>2. UNCHANGED Done
    BY <1>6 DEF BuildCompositor, ProcessGone
  <2>3. Session = "checking" /\ Session' \in {"desktop", "off"}
    BY <1>6 DEF BuildCompositor, ProcessGone
  <2> QED
    BY <2>1, <2>2, <2>3
    DEF Install!Next, Install!EnterDesktop, Install!Close
<1>7. CASE BindFails \/ Kill
  BY <1>7 DEF BindFails, Kill, ProcessGone, Install!Next, Install!Close
<1>8. ASSUME NEW c \in Callers, CallerPanics(c)
      PROVE  Install!Next \/ UNCHANGED <<Done, Session>>
  BY <1>8 DEF CallerPanics, Calls, ProcessGone, Callers, Install!Next,
     Install!Close
\* Everything else is below the abstraction.
<1>9. ASSUME NEW c \in Callers,
             SkipStage(c) \/ WriteFirefoxConfig(c) \/ XkbNothingToDo(c)
                \/ XkbRemove(c) \/ XkbLink(c)
      PROVE  UNCHANGED <<Done, Session>>
  BY <1>9 DEF SkipStage, WriteFirefoxConfig, XkbNothingToDo, XkbRemove,
     XkbLink, Return
<1>10. CASE SkipDownload \/ BeginDownload \/ Fetch \/ BodyChunk \/ BodyEnd
            \/ BeginExtract \/ OpenArchive \/ UnpackSome \/ UnpackDone
            \/ UnpackFails \/ DiscardArchive \/ BeginSysData
  BY <1>10 DEF SkipDownload, BeginDownload, Fetch, BodyChunk, BodyEnd,
     BeginExtract, OpenArchive, UnpackSome, UnpackDone, UnpackFails,
     DiscardArchive, BeginSysData
<1>11. CASE RemoveLock \/ SpawnInstall \/ InstallLog \/ InstallEof \/ Verify
            \/ PacmanUnpacks \/ PacmanAborts \/ WorkerPanics
  BY <1>11 DEF RemoveLock, SpawnInstall, InstallLog, InstallEof, Verify,
     PacmanUnpacks, PacmanAborts, WorkerPanics
<1>12. CASE PipeStart \/ PipeJoin \/ PipeJoinFails \/ PipeComplete
            \/ PipeAnnounce \/ BuildWebview \/ ReceiverDropped
  BY <1>12 DEF PipeStart, PipeJoin, PipeJoinFails, PipeComplete,
     PipeAnnounce, BuildWebview, ReceiverDropped
<1> QED
  BY <1>1, <1>2, <1>3, <1>4, <1>5, <1>6, <1>7, <1>8, <1>9, <1>10, <1>11,
     <1>12
  DEF Next, SetupStep, MainStep, PipeStep, CallerStep, WorkerStep,
      PacmanStep, Adversity, Callers

\* Setup implements StagedInstall: the durable stages are completed one by
\* one, only in a session that installs, and never undone; and the desktop is
\* opened only by a session that found all of them done.
THEOREM Refinement == Spec => InstallSpec
<1>1. Init => Install!Init
  BY DEF Init, Install!Init, Done, Session
<1>2. UNCHANGED vars => UNCHANGED <<Done, Session>>
  BY DEF vars, disk, system, caller, channel, Done, Session
<1>3. SetupInv /\ [Next]_vars => [Install!Next]_(Install!vars)
  BY RefinementStep, <1>2 DEF Install!vars
<1> QED
  BY Invariance, <1>1, <1>3, PTL DEF Spec, InstallSpec, Install!Spec

-----------------------------------------------------------------------------
(* The page and its threads: module Installer.                             *)

\* The thread of a page forwards messages only while the page is the active
\* client, for the acceptor admits nobody else; and only a fault kills it.
OneClient ==
    /\ \A p \in Page : client[p] \in Live => active = p
    /\ acceptor = "dead" => faults > 0

\* A stamp is an earlier value of the counter, and a page shows no later one
\* than the message that is on its way to it.
StampsOld ==
    /\ stamp <= progress
    /\ \A p \in Page :
          /\ page[p].progress <= progress
          /\ client[p] = "sending" => page[p].progress <= stamp

\* A page whose script has just opened its socket shows nothing and has no
\* thread; later it shows the messages as they were taken.
PagesCurrent ==
    \A p \in Page :
        /\ conn[p] \in {"none", "requested"} => client[p] = "none"
        /\ client[p] \in {"none", "waiting"} => page[p] = Blank
        /\ conn[p] = "open" /\ page[p].number # 0 =>
              /\ client[p] = "taking" => taken = page[p].number
              /\ client[p] \in {"reading", "sending"} => taken = page[p].number + 1

InstallerInv ==
    SetupInv /\ InstallerTypeOK /\ OneClient /\ StampsOld /\ PagesCurrent

-----------------------------------------------------------------------------
(* The pipeline's part.                                                    *)

\* The budget of faults is only spent.
LEMMA FaultsGrow ==
    ASSUME TypeOK, Next
    PROVE  faults' >= faults
<1> USE DEF TypeOK, Fault
<1>1. CASE \E c \in Callers : CallerStep(c)
  BY <1>1 DEF CallerStep, SkipStage, SpawnStage, WriteFirefoxConfig,
              XkbNothingToDo, XkbRemove, XkbLink
<1>2. CASE StartApp \/ BuildWebview \/ BuildCompositor
  BY <1>2 DEF StartApp, BuildWebview, BuildCompositor
<1>3. CASE PipeStart \/ PipeJoin \/ PipeJoinFails \/ PipeComplete \/ PipeAnnounce
  BY <1>3 DEF PipeStart, PipeJoin, PipeJoinFails, PipeComplete, PipeAnnounce
<1>4. CASE WorkerStep
  BY <1>4 DEF WorkerStep, SkipDownload, BeginDownload, Fetch, BodyChunk,
     BodyEnd, BeginExtract, OpenArchive, UnpackSome, UnpackDone, UnpackFails,
     MoveRoot, DiscardArchive, BeginSysData, WriteProcFile, RemoveLock,
     SpawnInstall, InstallLog, InstallEof, Verify
<1>5. CASE PacmanStep \/ ReceiverDropped
  BY <1>5 DEF PacmanStep, PacmanUnpacks, PacmanCommits, ReceiverDropped
<1>6. CASE Adversity
  BY <1>6 DEF Adversity, CallerPanics, PacmanAborts, WorkerPanics, BindFails, Kill
<1> QED
  BY <1>1, <1>2, <1>3, <1>4, <1>5, <1>6
  DEF Next, SetupStep, MainStep, PipeStep, Callers

\* Within a session nothing that was put into the channel leaves the record.
LEMMA SentGrows ==
    ASSUME TypeOK, Next, mainPc' # "off"
    PROVE  Len(sent') \in Nat /\ Len(sent') >= Len(sent)
<1>1. \A m \in Message : Push(m) \in Seq(Message) /\ Len(Push(m)) >= Len(sent)
  BY PushType DEF Push, TypeOK
<1>2. /\ {"downloading", "percent", "extracting", "simulating", "log",
          "finished", "retryError", "xkbError", "stageError"} \subseteq Message
      /\ sent \in Seq(Message) /\ Len(sent) \in Nat
  BY DEF Message, Notes, Errors, TypeOK
<1> SUFFICES sent' = sent \/ \E m \in Message : sent' = Push(m)
  BY <1>1, <1>2
<1>3. CASE \E c \in Callers : CallerStep(c)
  BY <1>2, <1>3 DEF CallerStep, SkipStage, SpawnStage, WriteFirefoxConfig,
                    XkbNothingToDo, XkbRemove, XkbLink
<1>4. CASE StartApp \/ BuildWebview \/ BuildCompositor
  BY <1>4 DEF StartApp, BuildWebview, BuildCompositor, ProcessGone
<1>5. CASE PipeStart \/ PipeJoin \/ PipeJoinFails \/ PipeComplete \/ PipeAnnounce
  BY <1>2, <1>5 DEF PipeStart, PipeJoin, PipeJoinFails, PipeComplete, PipeAnnounce
<1>6. CASE WorkerStep
  BY <1>2, <1>6 DEF WorkerStep, SkipDownload, BeginDownload, Fetch, BodyChunk,
     BodyEnd, BeginExtract, OpenArchive, UnpackSome, UnpackDone, UnpackFails,
     MoveRoot, DiscardArchive, BeginSysData, WriteProcFile, RemoveLock,
     SpawnInstall, InstallLog, InstallEof, Verify, MustSend
<1>7. CASE PacmanStep \/ ReceiverDropped
  BY <1>7 DEF PacmanStep, PacmanUnpacks, PacmanCommits, ReceiverDropped
<1>8. CASE Adversity
  BY <1>8 DEF Adversity, CallerPanics, PacmanAborts, WorkerPanics, BindFails,
              Kill, ProcessGone
<1> QED
  BY <1>3, <1>4, <1>5, <1>6, <1>7, <1>8
  DEF Next, SetupStep, MainStep, PipeStep, Callers

\* The pipeline does not notice the page's threads, whose steps only ever take
\* its receiver away, and that only after a fault.
LEMMA SetupKept ==
    ASSUME SetupInv, UNCHANGED setupVars, UNCHANGED restarts,
           faults' \in 0 .. MaxFaults, faults' >= faults,
           receiver' \in BOOLEAN, faults' = 0 => receiver' = receiver
    PROVE  SetupInv'
<1>1. TypeOK'
  BY DEF SetupInv, TypeOK, setupVars
<1>2. ThreadsInv' /\ RootInv'
  BY DEF SetupInv, ThreadsInv, RootInv, setupVars
<1>3. StagesInv'
  BY DEF SetupInv, StagesInv, PredecessorsDone, Post, setupVars
<1>4. RecoveryInv'
  BY DEF SetupInv, TypeOK, RecoveryInv, CleanRecovery, setupVars
<1> QED
  BY <1>1, <1>2, <1>3, <1>4 DEF SetupInv

\* Nothing is open, taken or shown when the app is installed.
LEMMA InitInstaller == InstallerInit => InstallerInv
<1> SUFFICES ASSUME InstallerInit PROVE InstallerInv
  OBVIOUS
<1>1. SetupInv
  BY InitInv DEF InstallerInit
<1>2. sent = <<>> /\ progress = 0
  BY DEF InstallerInit, Init
<1>3. InstallerTypeOK
  BY <1>2, MaxPagesAssumption DEF InstallerInit, InstallerTypeOK, Blank
<1>4. OneClient /\ StampsOld /\ PagesCurrent
  BY <1>2 DEF InstallerInit, OneClient, StampsOld, PagesCurrent, Live, Blank
<1> QED
  BY <1>1, <1>3, <1>4 DEF InstallerInv

\* The end of the process leaves nothing of the page's side, and in every other
\* step of the pipeline that side stands still.
LEMMA InstallStepInv ==
    ASSUME InstallerInv, InstallStep
    PROVE  InstallerInv'
<1>1. Next
  BY DEF InstallStep, Next
<1>2. SetupInv'
  BY <1>1, SetupInvStep DEF InstallerInv
<1>3. CASE mainPc' = "off"
  <2>1. WebGone
    BY <1>3 DEF InstallStep, WebFrame
  <2>2. progress' = 0 /\ Len(sent') \in Nat
    BY <1>2, <1>3 DEF SetupInv, ThreadsInv, TypeOK
  <2>3. InstallerTypeOK'
    BY <2>1, <2>2, MaxPagesAssumption DEF WebGone, InstallerTypeOK, Blank
  <2>4. OneClient' /\ StampsOld' /\ PagesCurrent'
    BY <2>1, <2>2 DEF WebGone, OneClient, StampsOld, PagesCurrent, Live, Blank
  <2> QED
    BY <1>2, <2>3, <2>4 DEF InstallerInv
<1>4. CASE mainPc' # "off"
  <2>1. /\ acceptor' \in {acceptor, "listening"}
        /\ UNCHANGED <<active, conn, client, taken, stamp, page>>
    BY <1>4 DEF InstallStep, WebFrame
  <2>2. /\ Len(sent') \in Nat /\ Len(sent') >= Len(sent) /\ Len(sent) \in Nat
        /\ faults' >= faults /\ faults \in Nat /\ faults' \in Nat
    BY <1>1, <1>2, <1>4, SentGrows, FaultsGrow DEF InstallerInv, SetupInv, TypeOK
  <2>3. /\ progress' >= progress /\ progress \in Nat /\ progress' \in Nat
        /\ stamp \in Nat /\ \A p \in Page : page[p].progress \in Nat
    <3>1. SetupInv /\ InstallerTypeOK
      BY DEF InstallerInv
    <3>2. progress' >= progress
      BY <1>1, <1>4, <3>1, CounterStep
    <3>3. progress \in Nat /\ progress' \in Nat
      BY <1>2, <3>1 DEF SetupInv, TypeOK
    <3>4. stamp \in Nat /\ \A p \in Page : page[p].progress \in Nat
      <4>1. ASSUME NEW p \in Page PROVE page[p].progress \in Nat
        BY <3>1 DEF InstallerTypeOK
      <4> QED
        BY <3>1, <4>1 DEF InstallerTypeOK
    <3> QED
      BY <3>2, <3>3, <3>4
  <2>4. InstallerTypeOK'
    <3>1. 0 .. Len(sent) \subseteq 0 .. Len(sent')
      BY <2>2
    <3>2. page' \in [Page -> [number : 0 .. Len(sent'),
                              progress : {0, 20, 40, 60, 80, 100}]]
      BY <2>1, <3>1 DEF InstallerInv, InstallerTypeOK
    <3> QED
      BY <2>1, <3>1, <3>2 DEF InstallerInv, InstallerTypeOK
  <2>5. OneClient'
    BY <2>1, <2>2 DEF InstallerInv, OneClient
  <2>6. StampsOld'
    BY <2>1, <2>3 DEF InstallerInv, StampsOld
  <2>7. PagesCurrent'
    BY <2>1 DEF InstallerInv, PagesCurrent
  <2> QED
    BY <1>2, <2>4, <2>5, <2>6, <2>7 DEF InstallerInv
<1> QED
  BY <1>3, <1>4

-----------------------------------------------------------------------------
(* The page's part.                                                        *)

\* The steps of the page and of its threads keep the pipeline's invariant.
LEMMA WebStepSetup ==
    ASSUME InstallerInv, NEW p \in Page,
           \/ Accept(p) \/ Reject(p) \/ PageOpens(p) \/ PageCloses(p)
           \/ AcceptorPanics(p) \/ ClientStep(p)
    PROVE  SetupInv' /\ UNCHANGED setupVars /\ faults' >= faults
<1>1. faults \in 0 .. MaxFaults /\ receiver \in BOOLEAN /\ MaxFaults \in Nat
  BY MaxFaultsAssumption DEF InstallerInv, SetupInv, TypeOK
<1>2. CASE UNCHANGED vars
  BY <1>1, <1>2, StutterInv DEF InstallerInv, vars, setupVars
<1>3. CASE AcceptorPanics(p)
  <2>1. /\ UNCHANGED setupVars /\ UNCHANGED restarts /\ faults' = faults + 1
        /\ faults < MaxFaults /\ receiver' \in BOOLEAN
    BY <1>1, <1>3 DEF AcceptorPanics, Fault, ReceiverKept
  <2> QED
    BY <1>1, <2>1, SetupKept DEF InstallerInv
<1>4. CASE ClientPanics(p)
  <2>1. /\ UNCHANGED setupVars /\ UNCHANGED bounds /\ acceptor = "dead"
        /\ receiver' \in BOOLEAN
    BY <1>1, <1>4 DEF ClientPanics, ReceiverKept
  <2>2. faults' > 0
    BY <2>1 DEF InstallerInv, OneClient
  <2> QED
    BY <1>1, <2>1, <2>2, SetupKept DEF InstallerInv
<1>5. CASE ClientEnds(p)
  <2>1. /\ UNCHANGED setupVars /\ UNCHANGED bounds /\ acceptor' = acceptor
        /\ receiver' \in BOOLEAN
        /\ acceptor # "dead" => receiver' = receiver
    BY <1>1, <1>5 DEF ClientEnds, ReceiverKept
  <2>2. faults = 0 => acceptor # "dead"
    BY DEF InstallerInv, OneClient
  <2> QED
    BY <1>1, <2>1, <2>2, SetupKept DEF InstallerInv
<1> QED
  BY <1>2, <1>3, <1>4, <1>5
  DEF Accept, Reject, PageOpens, PageCloses, ClientStep, ClientLock,
      ClientTake, ClientRead, ClientSend, ClientSendLost

\* What each of them does to the page's side.
LEMMA WebStepInv ==
    ASSUME InstallerInv, NEW p \in Page,
           \/ Accept(p) \/ Reject(p) \/ PageOpens(p) \/ PageCloses(p)
           \/ AcceptorPanics(p) \/ ClientStep(p)
    PROVE  InstallerInv'
<1> USE DEF InstallerInv, OneClient, StampsOld, PagesCurrent, Live
<1>s. SetupInv' /\ UNCHANGED <<sent, progress, mainPc>> /\ faults' >= faults
  BY WebStepSetup DEF setupVars
<1>t. /\ acceptor \in {"off", "listening", "dead"} /\ active \in 0 .. MaxPages
      /\ conn \in [Page -> {"none", "requested", "open", "rejected", "closed"}]
      /\ client \in [Page -> Live \cup {"none", "done"}]
      /\ taken \in 0 .. Len(sent) /\ Len(sent) \in Nat
      /\ stamp \in {0, 20, 40, 60, 80, 100}
      /\ progress \in {0, 20, 40, 60, 80, 100}
      /\ page \in [Page -> [number : 0 .. Len(sent),
                            progress : {0, 20, 40, 60, 80, 100}]]
      /\ faults \in Nat /\ faults' \in Nat
      /\ Page = 1 .. MaxPages /\ MaxPages \in Nat
  BY <1>s, MaxPagesAssumption DEF InstallerTypeOK, SetupInv, TypeOK, Page
<1>1. CASE PageOpens(p) \/ PageCloses(p) \/ Reject(p)
  <2>1. /\ UNCHANGED <<acceptor, active, client, taken, stamp, page>>
        /\ \/ conn' = [conn EXCEPT ![p] = "requested"] /\ conn[p] = "none"
           \/ conn' = [conn EXCEPT ![p] = "closed"]
           \/ conn' = [conn EXCEPT ![p] = "rejected"]
    BY <1>1 DEF PageOpens, PageCloses, Reject
  <2>2. InstallerTypeOK'
    BY <1>s, <1>t, <2>1 DEF InstallerTypeOK
  <2>3. PagesCurrent'
    BY <1>t, <2>1
  <2> QED
    BY <1>s, <1>t, <2>1, <2>2, <2>3
<1>2. CASE Accept(p)
  <2>1. /\ UNCHANGED <<acceptor, taken, stamp, page>> /\ active' = p
        /\ active = 0 /\ conn[p] = "requested"
        /\ conn' = [conn EXCEPT ![p] = "open"]
        /\ client' = [client EXCEPT ![p] = "waiting"]
    BY <1>2 DEF Accept
  <2>2. InstallerTypeOK'
    BY <1>s, <1>t, <2>1 DEF InstallerTypeOK
  <2>3. \A q \in Page : client[q] \notin Live /\ q # 0
    BY <1>t, <2>1
  <2>4. OneClient'
    BY <1>s, <1>t, <2>1, <2>3
  <2>5. PagesCurrent'
    BY <1>t, <2>1, <2>3 DEF Blank
  <2>6. StampsOld'
    BY <1>s, <1>t, <2>1
  <2> QED
    BY <1>s, <2>2, <2>4, <2>5, <2>6
<1>3. CASE AcceptorPanics(p)
  <2>1. /\ UNCHANGED <<active, client, taken, stamp, page>>
        /\ acceptor' = "dead" /\ faults' = faults + 1
        /\ conn' = [conn EXCEPT ![p] = "closed"]
    BY <1>3 DEF AcceptorPanics, Fault
  <2>2. InstallerTypeOK'
    BY <1>s, <1>t, <2>1 DEF InstallerTypeOK
  <2>3. PagesCurrent'
    BY <1>t, <2>1
  <2> QED
    BY <1>s, <1>t, <2>1, <2>2, <2>3
<1>4. CASE ClientStep(p)
  <2>1. UNCHANGED <<acceptor, conn>> /\ client[p] \in Live
    BY <1>4 DEF ClientStep, ClientLock, ClientTake, ClientRead, ClientSend,
                ClientSendLost, ClientPanics, ClientEnds
  <2>2. active = p /\ \A q \in Page \ {p} : client[q] \notin Live
    BY <2>1
  <2>3. CASE ClientLock(p) \/ ClientTake(p) \/ ClientRead(p)
    <3>1. /\ UNCHANGED <<active, page>>
          /\ \/ /\ client[p] = "waiting" /\ UNCHANGED <<taken, stamp>>
                /\ client' = [client EXCEPT ![p] = "taking"]
             \/ /\ client[p] = "taking" /\ taken < Len(sent)
                /\ taken' = taken + 1 /\ stamp' = stamp
                /\ client' = [client EXCEPT ![p] = "reading"]
             \/ /\ client[p] = "reading" /\ taken' = taken /\ stamp' = progress
                /\ client' = [client EXCEPT ![p] = "sending"]
      BY <2>3 DEF ClientLock, ClientTake, ClientRead
    <3>2. InstallerTypeOK'
      <4>1. client' \in [Page -> Live \cup {"none", "done"}]
        BY <1>t, <3>1
      <4>2. taken' = taken \/ (taken < Len(sent) /\ taken' = taken + 1)
        BY <3>1
      <4>3. taken' \in 0 .. Len(sent)
        BY <1>t, <4>2
      <4>4. stamp' \in {stamp, progress}
        BY <3>1
      <4> QED
        BY <1>s, <1>t, <2>1, <3>1, <4>1, <4>3, <4>4 DEF InstallerTypeOK
    <3>3. OneClient'
      BY <1>s, <1>t, <2>1, <2>2, <3>1
    <3>4. StampsOld'
      BY <1>s, <1>t, <2>1, <2>2, <3>1
    <3>5. PagesCurrent'
      BY <1>t, <2>1, <2>2, <3>1 DEF Blank
    <3> QED
      BY <1>s, <3>2, <3>3, <3>4, <3>5
  <2>4. CASE ClientSend(p)
    <3>1. /\ UNCHANGED <<active, taken, stamp>>
          /\ client[p] = "sending" /\ client' = [client EXCEPT ![p] = "taking"]
          /\ page' = [page EXCEPT ![p] = [number |-> taken, progress |-> stamp]]
      BY <2>2, <2>4 DEF ClientSend
    <3>2. InstallerTypeOK'
      BY <1>s, <1>t, <2>1, <3>1 DEF InstallerTypeOK
    <3>3. OneClient'
      BY <1>s, <1>t, <2>1, <2>2, <3>1
    <3>4. StampsOld'
      BY <1>s, <1>t, <2>1, <2>2, <3>1
    <3>5. PagesCurrent'
      BY <1>t, <2>1, <2>2, <3>1
    <3> QED
      BY <1>s, <3>2, <3>3, <3>4, <3>5
  <2>5. CASE ClientSendLost(p) \/ ClientPanics(p) \/ ClientEnds(p)
    <3>1. /\ UNCHANGED <<taken, stamp, page>>
          /\ \/ active' \in {0, active} /\ client' = [client EXCEPT ![p] = "done"]
             \/ /\ client' = [client EXCEPT ![p] = "taking"] /\ active' = active
                /\ conn[p] # "open"
      BY <2>2, <2>5 DEF ClientSendLost, ClientPanics, ClientEnds
    <3>2. InstallerTypeOK'
      <4>1. client' \in [Page -> Live \cup {"none", "done"}]
        BY <1>t, <3>1
      <4>2. active' \in 0 .. MaxPages
        BY <1>t, <3>1
      <4> QED
        BY <1>s, <1>t, <2>1, <3>1, <4>1, <4>2 DEF InstallerTypeOK
    <3>3. OneClient'
      <4>1. \A q \in Page \ {p} : client'[q] = client[q]
        BY <1>t, <3>1
      <4>2. client'[p] \in Live => active' = p
        BY <1>t, <2>2, <3>1
      <4> QED
        BY <1>s, <1>t, <2>1, <2>2, <4>1, <4>2
    <3>4. StampsOld'
      BY <1>s, <1>t, <2>1, <2>2, <3>1
    <3>5. PagesCurrent'
      BY <1>t, <2>1, <2>2, <3>1
    <3> QED
      BY <1>s, <3>2, <3>3, <3>4, <3>5
  <2> QED
    BY <1>4, <2>3, <2>4, <2>5 DEF ClientStep
<1> QED
  BY <1>1, <1>2, <1>3, <1>4

\* The pipeline's steps and the page's, taken together.
LEMMA InstallerStepInv == InstallerInv /\ [InstallerNext]_all => InstallerInv'
<1>1. InstallerInv /\ UNCHANGED all => InstallerInv'
  <2> SUFFICES ASSUME InstallerInv, UNCHANGED all PROVE InstallerInv'
    OBVIOUS
  <2>1. SetupInv'
    BY StutterInv DEF all, InstallerInv
  <2>2. UNCHANGED <<sent, progress, faults>>
    BY DEF all, vars
  <2> QED
    BY <2>1, <2>2 DEF all, web, InstallerInv, InstallerTypeOK, OneClient, StampsOld,
                      PagesCurrent
<1> QED
  BY <1>1, InstallStepInv, WebStepInv DEF InstallerNext, AcceptorStep

-----------------------------------------------------------------------------
(* The theorems.                                                           *)

\* With its invariant preserved by every thread, the installation with its page
\* satisfies it, and with it everything SetupInv says of the pipeline.
THEOREM InstallerInvariance == InstallerSpec => []InstallerInv
  BY InitInstaller, InstallerStepInv, PTL DEF InstallerSpec

\* The properties proved of the pipeline alone hold beside any number of pages
\* as well: no half unpacked root, stages in order, the lock left alone, clean
\* recovery, an honest counter.
THEOREM PipelineSafe ==
    InstallerSpec => [](/\ TypeOK /\ RootNeverPartial /\ PredecessorsDone
                        /\ NeverUnlockLive /\ CleanRecovery /\ ProgressHonest)
<1>1. InstallerInv => /\ TypeOK /\ RootNeverPartial /\ PredecessorsDone
                      /\ NeverUnlockLive /\ CleanRecovery /\ ProgressHonest
  BY HonestState
  DEF InstallerInv, SetupInv, TypeOK, RootInv, RootNeverPartial, StagesInv,
      ThreadsInv, NeverUnlockLive, RecoveryInv
<1> QED
  BY InstallerInvariance, <1>1, PTL

\* What the threads of the page do is no step of the abstract installation, and
\* leaves the counter alone.
LEMMA WebStepStutters ==
    ASSUME [InstallerNext]_all, ~ InstallStep
    PROVE  UNCHANGED <<Done, Session>> /\ progress' = progress /\ mainPc' = mainPc
<1>1. UNCHANGED setupVars
  <2>1. UNCHANGED vars => UNCHANGED setupVars
    BY DEF vars, setupVars, channel
  <2>2. CASE UNCHANGED all
    BY <2>1, <2>2 DEF all
  <2>3. CASE AcceptorStep
    BY <2>1, <2>3 DEF AcceptorStep, Accept, Reject
  <2>4. ASSUME NEW p \in Page,
               PageOpens(p) \/ PageCloses(p) \/ AcceptorPanics(p)
        PROVE  UNCHANGED setupVars
    BY <2>1, <2>4 DEF PageOpens, PageCloses, AcceptorPanics
  <2>5. ASSUME NEW p \in Page, ClientStep(p)
        PROVE  UNCHANGED setupVars
    BY <2>1, <2>5
    DEF ClientStep, ClientLock, ClientTake, ClientRead, ClientSend,
        ClientSendLost, ClientPanics, ClientEnds
  <2> QED
    BY <2>2, <2>3, <2>4, <2>5 DEF InstallerNext
<1> QED
  BY <1>1 DEF setupVars, disk, system, caller, Done, Session

\* The installation with its page implements StagedInstall, as the one without:
\* no thread of the page completes, undoes or reorders a stage.
THEOREM PipelineRefines == InstallerSpec => InstallSpec
<1>1. InstallerInit => Install!Init
  BY DEF InstallerInit, Init, Install!Init, Done, Session
<1>2. InstallerInv /\ [InstallerNext]_all => [Install!Next]_(Install!vars)
  <2> SUFFICES ASSUME InstallerInv, [InstallerNext]_all
               PROVE  Install!Next \/ UNCHANGED <<Done, Session>>
    BY DEF Install!vars
  <2>1. CASE InstallStep
    BY <2>1, RefinementStep DEF InstallerInv, InstallStep, Next
  <2>2. CASE ~ InstallStep
    BY <2>2, WebStepStutters
  <2> QED
    BY <2>1, <2>2
<1> QED
  BY InstallerInvariance, <1>1, <1>2, PTL DEF InstallerSpec, InstallSpec, Install!Spec

\* Nor does one move the counter: within a session it never goes back.
THEOREM PipelineMonotone == InstallerSpec => ProgressMonotone
<1>1. InstallerInv /\ [InstallerNext]_all
          => [mainPc' # "off" => progress' >= progress]_vars
  <2> SUFFICES ASSUME InstallerInv, [InstallerNext]_all, mainPc' # "off"
               PROVE  progress' >= progress
    OBVIOUS
  <2>1. CASE InstallStep
    BY <2>1, CounterStep DEF InstallerInv, InstallStep, Next
  <2>2. CASE ~ InstallStep
    <3>1. progress \in Int
      BY DEF InstallerInv, SetupInv, TypeOK
    <3> QED
      BY <2>2, <3>1, WebStepStutters
  <2> QED
    BY <2>1, <2>2
<1> QED
  BY InstallerInvariance, <1>1, PTL DEF InstallerSpec, ProgressMonotone

\* What a page shows is true: the counter was as high when the message was
\* stamped, and it never runs ahead of the disk.
THEOREM PagesHonest == InstallerSpec => []PageHonest
<1>1. InstallerInv => PageHonest
  <2> SUFFICES ASSUME InstallerInv, NEW p \in Page, NEW s \in 1 .. 4,
                      page[p].progress > Percent(s)
               PROVE  Post(s)
    BY DEF PageHonest
  <2>1. page[p].progress <= progress /\ page[p].progress \in Int /\ progress \in Int
    BY DEF InstallerInv, StampsOld, InstallerTypeOK, SetupInv, TypeOK
  <2>2. progress > Percent(s)
    BY <2>1, PercentValue
  <2> QED
    BY <2>2, HonestState DEF InstallerInv, ProgressHonest
<1> QED
  BY InstallerInvariance, <1>1, PTL

\* One thread at a time takes messages, the active client's.
THEOREM ReaderUnique == InstallerSpec => []OneReader
<1>1. InstallerInv => OneReader
  BY DEF InstallerInv, OneClient, OneReader, Holding, Live
<1> QED
  BY InstallerInvariance, <1>1, PTL

\* A page shows the messages in the order of the channel, none left out, and
\* its bar never goes back.
THEOREM PagesInOrder == InstallerSpec => PageInOrder
<1>1. InstallerInv /\ [InstallerNext]_all =>
        [\A p \in Page : page'[p] # page[p] /\ mainPc' # "off" =>
            /\ page[p].number # 0 => page'[p].number = page[p].number + 1
            /\ page'[p].progress >= page[p].progress]_all
  <2> SUFFICES ASSUME InstallerInv, InstallerNext, NEW p \in Page,
                      page'[p] # page[p], mainPc' # "off"
               PROVE  /\ page[p].number # 0 => page'[p].number = page[p].number + 1
                      /\ page'[p].progress >= page[p].progress
    BY DEF all, web
  \* Only a message forwarded changes what a page shows.
  <2>1. PICK q \in Page : ClientSend(q)
    BY DEF InstallerNext, InstallStep, WebFrame, AcceptorStep, Accept, Reject,
           PageOpens, PageCloses, AcceptorPanics, ClientStep, ClientLock, ClientTake,
           ClientRead, ClientSendLost, ClientPanics, ClientEnds
  <2>2. active = q /\ conn[q] = "open" /\ client[q] = "sending"
    BY <2>1 DEF ClientSend, InstallerInv, OneClient, Live
  <2>3. page' = [page EXCEPT ![q] = [number |-> taken, progress |-> stamp]]
    BY <2>1, <2>2 DEF ClientSend
  <2>4. p = q /\ page'[p] = [number |-> taken, progress |-> stamp]
    BY <2>3 DEF InstallerInv, InstallerTypeOK
  <2> QED
    BY <2>2, <2>4 DEF InstallerInv, InstallerTypeOK, PagesCurrent, StampsOld
<1> QED
  BY InstallerInvariance, <1>1, PTL DEF InstallerSpec, PageInOrder
=============================================================================
