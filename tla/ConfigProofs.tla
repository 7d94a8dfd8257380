---------------------------- MODULE ConfigProofs ----------------------------
(***************************************************************************)
(* Machine-checked proofs about module ConfigFile, for every set of files  *)
(* the user may write and all bounds.                                      *)
(*                                                                         *)
(* Those about the disk rest on ConfigInv: a start that rewrites has       *)
(* a file, one that saves has a Linux root, and, as long as no operation   *)
(* has failed, what has been written so far is the text that was read.     *)
(* The one about the settings rests on what process_config_file makes of   *)
(* the lines of a text, which is followed line by line (Follows).          *)
(***************************************************************************)
EXTENDS ConfigFile, DataLemmas

USE DEF disk, bounds

-----------------------------------------------------------------------------
(* Facts about lines.                                                      *)

LEMMA EmptyText == <<>> \in Seq(Line) /\ Len(<<>>) = 0
  OBVIOUS

\* What is written for one line is a line, and never a try_ line.
LEMMA CommentOutLine ==
    ASSUME NEW l \in Line
    PROVE  CommentOut(l) \in Line /\ CommentOut(l).kind # "try"
<1>1. CASE l.kind = "try"
  <2>1. l \in [kind : Kinds \ {"group"}, key : Setting,
               val : Values \cup {"default", "bad"}]
    BY <1>1 DEF Line
  <2> QED
    BY <1>1, <2>1 DEF CommentOut, Line, Kinds
<1>2. CASE l.kind # "try"
  BY <1>2 DEF CommentOut
<1> QED
  BY <1>1, <1>2

\* write_back_lines has a line for each line, and no try_ line.
LEMMA WriteBackLines ==
    ASSUME NEW t \in Seq(Line)
    PROVE  /\ WriteBack(t) \in Seq(Line)
           /\ Len(WriteBack(t)) = Len(t)
           /\ \A i \in 1 .. Len(t) : WriteBack(t)[i] = CommentOut(t[i])
           /\ ~HasTry(WriteBack(t))
<1>1. DOMAIN t = 1 .. Len(t) /\ Len(t) \in Nat
  OBVIOUS
<1>2. \A i \in 1 .. Len(t) : /\ CommentOut(t[i]) \in Line
                             /\ CommentOut(t[i]).kind # "try"
  BY CommentOutLine
<1>3. WriteBack(t) = [i \in 1 .. Len(t) |-> CommentOut(t[i])]
  BY <1>1 DEF WriteBack
<1>4. WriteBack(t) \in Seq(Line) /\ Len(WriteBack(t)) = Len(t)
  BY <1>1, <1>2, <1>3
<1> QED
  BY <1>1, <1>2, <1>3, <1>4 DEF HasTry

\* So has the file of the defaults.
LEMMA DefaultFileLines ==
    DefaultFile \in Seq(Line) /\ ~HasTry(DefaultFile)
<1>1. \A i \in 1 .. 6 : DefaultFile[i] \in Line /\ DefaultFile[i].kind # "try"
  BY DEF DefaultFile, Header, Set, Line, Kinds, Groups, Setting
<1>2. DefaultFile \in Seq(Line) /\ DOMAIN DefaultFile = 1 .. 6
  <2>1. /\ Header("user") \in Line /\ Header("command") \in Line
        /\ \A k \in Setting : Set(k, "default") \in Line
    BY DEF Header, Set, Line, Kinds, Groups, Setting
  <2> QED
    BY <2>1 DEF DefaultFile, Setting
<1> QED
  BY <1>1, <1>2 DEF HasTry

-----------------------------------------------------------------------------
(* The invariant, part by part.                                            *)

LEMMA InitConfigInv ==
    ASSUME Init
    PROVE  ConfigInv
<1>1. rooted \in BOOLEAN
  BY DEF Init
<1>2. text \in Seq(Line) /\ Len(text) = 0
  BY EmptyText DEF Init
<1>3. DiskTypeOK
  BY <1>1, <1>2, BoundsAssumption DEF Init, DiskTypeOK, Pcs
<1>4. StartInv /\ TextInv /\ TrialInv
  BY DEF Init, StartInv, RootOnlyBySetup, TextInv, TrialInv
<1> QED
  BY <1>3, <1>4 DEF ConfigInv

\* Every step keeps the shape of the state.
LEMMA NextDiskType ==
    ASSUME DiskTypeOK, StartInv, [Next]_vars
    PROVE  DiskTypeOK'
<1>0. rooted \in BOOLEAN /\ rooted' \in BOOLEAN
  <2>1. rooted \in BOOLEAN
    BY DEF DiskTypeOK
  <2>2. rooted' = rooted \/ rooted' = TRUE
    BY DEF Next, vars, StartApp, ReadFile, ReadNothing, Truncate, RewriteLine,
           RewriteDone, ParseOk, ParseErr, SaveRefused, SaveBackup, SaveCreate,
           SaveFill, SavePanics, InstallRoot, Edit, Close, Kill, ProcessGone
  <2> QED
    BY <2>1, <2>2
<1>1. CASE StartApp \/ ReadFile \/ ReadNothing \/ Truncate
  <2>1. /\ file' \in Seq(Line) \cup {NoFile} /\ bak' \in Seq(Line) \cup {NoFile}
        /\ text' \in Seq(Line)
    BY <1>1, EmptyText DEF DiskTypeOK, StartApp, ReadFile, ReadNothing, Truncate, Fault
  <2>2. pc' \in Pcs /\ written' \in 0 .. Len(text')
    BY <1>1, EmptyText DEF DiskTypeOK, StartInv, Pcs, StartApp, ReadFile, ReadNothing, Truncate, Fault
  <2>3. /\ trials' \in Nat /\ edits' \in 0 .. MaxEdits
        /\ kills' \in 0 .. MaxKills /\ faults' \in 0 .. MaxFaults
    BY <1>1, BoundsAssumption DEF DiskTypeOK, StartApp, ReadFile, ReadNothing, Truncate, Fault
  <2> QED
    BY <1>0, <2>1, <2>2, <2>3 DEF DiskTypeOK
<1>2. CASE RewriteLine
  <2>1. written + 1 \in 1 .. Len(text) /\ WriteBack(text)[written + 1] \in Line
    BY <1>2, WriteBackLines DEF RewriteLine, DiskTypeOK
  <2>2. file \in Seq(Line)
    BY <1>2 DEF RewriteLine, StartInv, DiskTypeOK
  <2>3. file' \in Seq(Line) /\ written' \in 0 .. Len(text)
    <3>1. /\ Append(file, WriteBack(text)[written + 1]) \in Seq(Line)
          /\ written + 1 \in 0 .. Len(text) /\ written \in 0 .. Len(text)
      BY <2>1, <2>2 DEF DiskTypeOK
    <3> QED
      BY <1>2, <2>2, <3>1 DEF RewriteLine
  <2>4. pc' \in Pcs /\ faults' \in 0 .. MaxFaults
    BY <1>2, BoundsAssumption DEF RewriteLine, Fault, DiskTypeOK, Pcs
  <2>5. UNCHANGED <<bak, text, trials, edits, kills>>
    BY <1>2 DEF RewriteLine, Fault
  <2> QED
    BY <1>0, <2>3, <2>4, <2>5 DEF DiskTypeOK
<1>3. CASE RewriteDone \/ ParseOk \/ ParseErr
  <2>1. /\ file' \in Seq(Line) \cup {NoFile} /\ bak' \in Seq(Line) \cup {NoFile}
        /\ text' \in Seq(Line)
    BY <1>3, EmptyText DEF DiskTypeOK, RewriteDone, ParseOk, ParseErr
  <2>2. pc' \in Pcs /\ written' \in 0 .. Len(text')
    BY <1>3, EmptyText DEF DiskTypeOK, Pcs, RewriteDone, ParseOk, ParseErr
  <2>3. /\ trials' \in Nat /\ edits' \in 0 .. MaxEdits
        /\ kills' \in 0 .. MaxKills /\ faults' \in 0 .. MaxFaults
    BY <1>3, BoundsAssumption DEF DiskTypeOK, RewriteDone, ParseOk, ParseErr
  <2> QED
    BY <1>0, <2>1, <2>2, <2>3 DEF DiskTypeOK
<1>4. CASE SaveRefused \/ SaveBackup \/ SaveCreate \/ SaveFill
  <2>1. /\ file' \in Seq(Line) \cup {NoFile} /\ bak' \in Seq(Line) \cup {NoFile}
        /\ text' \in Seq(Line)
    BY <1>4, EmptyText, DefaultFileLines DEF DiskTypeOK, SaveRefused, SaveBackup, SaveCreate, SaveFill, Fault
  <2>2. pc' \in Pcs /\ written' \in 0 .. Len(text')
    BY <1>4, EmptyText DEF DiskTypeOK, Pcs, SaveRefused, SaveBackup, SaveCreate, SaveFill, Fault
  <2>3. /\ trials' \in Nat /\ edits' \in 0 .. MaxEdits
        /\ kills' \in 0 .. MaxKills /\ faults' \in 0 .. MaxFaults
    BY <1>4, BoundsAssumption DEF DiskTypeOK, SaveRefused, SaveBackup, SaveCreate, SaveFill, Fault
  <2> QED
    BY <1>0, <2>1, <2>2, <2>3 DEF DiskTypeOK
<1>5. CASE SavePanics \/ Close \/ Kill
  <2>1. /\ file' \in Seq(Line) \cup {NoFile} /\ bak' \in Seq(Line) \cup {NoFile}
        /\ text' \in Seq(Line)
    BY <1>5, EmptyText DEF DiskTypeOK, SavePanics, Close, Kill, ProcessGone, Fault
  <2>2. pc' \in Pcs /\ written' \in 0 .. Len(text')
    BY <1>5, EmptyText DEF DiskTypeOK, Pcs, SavePanics, Close, Kill, ProcessGone, Fault
  <2>3. /\ trials' \in Nat /\ edits' \in 0 .. MaxEdits
        /\ kills' \in 0 .. MaxKills /\ faults' \in 0 .. MaxFaults
    BY <1>5, BoundsAssumption DEF DiskTypeOK, SavePanics, Close, Kill, ProcessGone, Fault
  <2> QED
    BY <1>0, <2>1, <2>2, <2>3 DEF DiskTypeOK
<1>6. CASE InstallRoot \/ Edit
  <2>1. /\ file' \in Seq(Line) \cup {NoFile} /\ bak' \in Seq(Line) \cup {NoFile}
        /\ text' \in Seq(Line)
    BY <1>6, EmptyText, UserFilesAssumption DEF DiskTypeOK, InstallRoot, Edit
  <2>2. pc' \in Pcs /\ written' \in 0 .. Len(text')
    BY <1>6, EmptyText DEF DiskTypeOK, Pcs, InstallRoot, Edit
  <2>3. /\ trials' \in Nat /\ edits' \in 0 .. MaxEdits
        /\ kills' \in 0 .. MaxKills /\ faults' \in 0 .. MaxFaults
    BY <1>6, BoundsAssumption DEF DiskTypeOK, InstallRoot, Edit
  <2> QED
    BY <1>0, <2>1, <2>2, <2>3 DEF DiskTypeOK
<1>7. CASE UNCHANGED vars
  BY <1>7 DEF vars, DiskTypeOK
<1> QED
  BY <1>1, <1>2, <1>3, <1>4, <1>5, <1>6, <1>7 DEF Next

\* A start keeps to its files.
LEMMA NextStart ==
    ASSUME DiskTypeOK, StartInv, [Next]_vars
    PROVE  StartInv'
<1> USE DEF StartInv, RootOnlyBySetup
<1>1. CASE StartApp \/ ReadFile \/ ReadNothing
  BY <1>1 DEF StartApp, ReadFile, ReadNothing, Fault
<1>2. CASE Truncate \/ RewriteLine
  <2>1. file # NoFile /\ rooted
    BY <1>2 DEF Truncate, RewriteLine
  <2>2. file' # NoFile
    <3>1. file \in Seq(Line)
      BY <2>1 DEF DiskTypeOK
    <3>2. CASE Truncate
      BY <2>1, <3>2, EmptyText, NoFileAssumption DEF Truncate
    <3>3. CASE RewriteLine
      <4>1. WriteBack(text)[written + 1] \in Line
        BY <3>3, WriteBackLines DEF RewriteLine, DiskTypeOK
      <4>2. Append(file, WriteBack(text)[written + 1]) \in Seq(Line)
        BY <3>1, <4>1
      <4> QED
        BY <2>1, <3>3, <4>2, NoFileAssumption DEF RewriteLine
    <3> QED
      BY <1>2, <3>2, <3>3
  <2>3. pc' \in {"rewrite", "parse"} /\ rooted' = rooted
    BY <1>2 DEF Truncate, RewriteLine
  <2> QED
    BY <2>1, <2>2, <2>3
<1>3. CASE RewriteDone \/ ParseOk \/ ParseErr \/ SaveRefused
  BY <1>3 DEF RewriteDone, ParseOk, ParseErr, SaveRefused
<1>4. CASE SaveBackup \/ SaveCreate \/ SaveFill
  BY <1>4 DEF SaveBackup, SaveCreate, SaveFill
<1>5. CASE SavePanics \/ Close \/ Kill
  BY <1>5 DEF SavePanics, Close, Kill, ProcessGone
<1>6. CASE InstallRoot \/ Edit
  BY <1>6 DEF InstallRoot, Edit
<1>7. CASE UNCHANGED vars
  BY <1>7 DEF vars
<1> QED
  BY <1>1, <1>2, <1>3, <1>4, <1>5, <1>6, <1>7 DEF Next

\* Two texts with the same lines are the same text.
LEMMA SameLines ==
    ASSUME NEW s \in Seq(Line), NEW t \in Seq(Line), Len(s) = Len(t),
           \A i \in 1 .. Len(s) : s[i] = t[i]
    PROVE  s = t
  OBVIOUS

\* What has been written is a part of what is to be written.
LEMMA NextText ==
    ASSUME DiskTypeOK, StartInv, TextInv, [Next]_vars, faults' = 0, faults = 0
    PROVE  TextInv'
<1> USE DEF TextInv
<1>1. CASE StartApp \/ ReadFile \/ ReadNothing
  BY <1>1 DEF StartApp, ReadFile, ReadNothing, StartInv
<1>2. CASE Truncate
  BY <1>2, EmptyText DEF Truncate, Fault
<1>3. CASE RewriteLine
  <2>1. /\ file' = Append(file, WriteBack(text)[written + 1])
        /\ written' = written + 1 /\ pc' = "rewrite" /\ text' = text
    BY <1>3 DEF RewriteLine, Fault
  <2>2. /\ file \in Seq(Line) /\ Len(file) = written
        /\ \A i \in 1 .. written : file[i] = WriteBack(text)[i]
        /\ written \in Nat
    BY <1>3 DEF RewriteLine, DiskTypeOK, StartInv
  <2>3. Len(file') = written' /\ \A i \in 1 .. written' : file'[i] = WriteBack(text)[i]
    BY <2>1, <2>2
  <2> QED
    BY <2>1, <2>3 DEF WriteBack
<1>4. CASE RewriteDone
  <2>1. /\ file \in Seq(Line) /\ Len(file) = Len(text)
        /\ \A i \in 1 .. Len(text) : file[i] = WriteBack(text)[i]
    BY <1>4 DEF RewriteDone, DiskTypeOK, StartInv
  <2>2. file = WriteBack(text)
    BY <2>1, WriteBackLines, SameLines DEF DiskTypeOK
  <2> QED
    BY <1>4, <2>2 DEF RewriteDone, WriteBack
<1>5. CASE ParseOk \/ ParseErr
  BY <1>5 DEF ParseOk, ParseErr, WriteBack
<1>6. CASE SaveRefused \/ SaveBackup \/ SaveCreate \/ SaveFill
  <2>1. CASE text = <<>>
    BY <1>6, <2>1 DEF SaveRefused, SaveBackup, SaveCreate, SaveFill
  <2>2. CASE text # <<>>
    <3>1. CASE SaveBackup
      <4>1. file = WriteBack(text) /\ file # NoFile
        BY <2>2, <3>1, WriteBackLines, NoFileAssumption DEF SaveBackup, DiskTypeOK
      <4>2. bak' = WriteBack(text) /\ pc' = "create" /\ text' = text
        BY <3>1, <4>1 DEF SaveBackup, Fault
      <4> QED
        BY <2>2, <3>1, <4>2 DEF SaveBackup, WriteBack
    <3>2. CASE SaveRefused \/ SaveCreate \/ SaveFill
      BY <2>2, <3>2 DEF SaveRefused, SaveCreate, SaveFill, WriteBack
    <3> QED
      BY <1>6, <3>1, <3>2
  <2> QED
    BY <2>1, <2>2
<1>7. CASE SavePanics \/ Close \/ Kill
  BY <1>7 DEF SavePanics, Close, Kill, ProcessGone
<1>8. CASE InstallRoot \/ Edit
  BY <1>8 DEF InstallRoot, Edit
<1>9. CASE UNCHANGED vars
  BY <1>9 DEF vars, WriteBack
<1> QED
  BY <1>1, <1>2, <1>3, <1>4, <1>5, <1>6, <1>7, <1>8, <1>9 DEF Next

\* A rewritten text cannot start a second trial.
LEMMA NextTrial ==
    ASSUME DiskTypeOK, StartInv, TextInv, TrialInv, [Next]_vars,
           faults' = 0, faults = 0
    PROVE  TrialInv'
<1> USE DEF TrialInv
<1>1. CASE StartApp \/ ReadNothing \/ RewriteDone \/ ParseErr \/ SaveRefused
  BY <1>1 DEF StartApp, ReadNothing, RewriteDone, ParseErr, SaveRefused, HasTry
<1>2. CASE ReadFile
  BY <1>2 DEF ReadFile, HasTry
<1>3. CASE Truncate
  <2>1. ~HasTry(<<>>)
    BY DEF HasTry
  <2> QED
    BY <1>3, <2>1 DEF Truncate, HasTry, Fault
<1>4. CASE RewriteLine
  <2>1. /\ file' = Append(file, WriteBack(text)[written + 1])
        /\ UNCHANGED <<pc, text, trials>> /\ pc = "rewrite"
    BY <1>4 DEF RewriteLine, Fault
  <2>2. /\ file \in Seq(Line) /\ written \in Nat /\ Len(file) = written
        /\ written + 1 \in 1 .. Len(text) /\ text \in Seq(Line)
        /\ \A i \in 1 .. written : file[i] = WriteBack(text)[i]
    BY <1>4 DEF RewriteLine, DiskTypeOK, StartInv, TextInv
  <2>3. /\ DOMAIN file' = 1 .. written + 1
        /\ \A i \in 1 .. written + 1 : file'[i] = WriteBack(text)[i]
    BY <2>1, <2>2
  <2>4. \A i \in 1 .. written + 1 : WriteBack(text)[i].kind # "try"
    <3>1. ~HasTry(WriteBack(text)) /\ DOMAIN WriteBack(text) = 1 .. Len(text)
      BY <2>2, WriteBackLines
    <3> QED
      BY <2>2, <3>1 DEF HasTry
  <2>5. ~HasTry(file')
    BY <2>3, <2>4 DEF HasTry
  <2>6. trials = 1 => ~HasTry(text)
    BY <2>1
  <2> QED
    BY <2>1, <2>5, <2>6 DEF HasTry
<1>5. CASE ParseOk
  <2>1. file = WriteBack(text) /\ ~HasTry(file)
    BY <1>5, WriteBackLines DEF ParseOk, TextInv, DiskTypeOK
  <2>2. HasTry(text) => trials = 0
    BY <1>5 DEF ParseOk, DiskTypeOK
  <2> QED
    BY <1>5, <2>1, <2>2 DEF ParseOk, HasTry
<1>6. CASE SaveBackup \/ SaveCreate
  <2>1. ~HasTry(<<>>)
    BY DEF HasTry
  <2> QED
    BY <1>6, <2>1 DEF SaveBackup, SaveCreate, HasTry, Fault
<1>7. CASE SaveFill
  BY <1>7, DefaultFileLines DEF SaveFill, HasTry
<1>8. CASE SavePanics \/ Close \/ Kill
  BY <1>8 DEF SavePanics, Close, Kill, ProcessGone, HasTry
<1>9. CASE InstallRoot \/ Edit
  BY <1>9 DEF InstallRoot, Edit, HasTry
<1>10. CASE UNCHANGED vars
  BY <1>10 DEF vars, HasTry
<1> QED
  BY <1>1, <1>2, <1>3, <1>4, <1>5, <1>6, <1>7, <1>8, <1>9, <1>10 DEF Next

-----------------------------------------------------------------------------
(* The theorems.                                                           *)

\* Failures are only ever added to.
LEMMA FaultsGrow ==
    ASSUME DiskTypeOK, [Next]_vars, faults' = 0
    PROVE  faults = 0
<1>1. faults' = faults \/ faults' = faults + 1
  BY DEF Next, vars, StartApp, ReadFile, ReadNothing, Truncate, RewriteLine,
         RewriteDone, ParseOk, ParseErr, SaveRefused, SaveBackup, SaveCreate,
         SaveFill, SavePanics, InstallRoot, Edit, Close, Kill, Fault
<1> QED
  BY <1>1 DEF DiskTypeOK

\* The inductive invariant of config.rs, process_config_file and save_config.
THEOREM ConfigInvariance == Spec => []ConfigInv
<1>1. Init => ConfigInv
  BY InitConfigInv
<1>2. ConfigInv /\ [Next]_vars => ConfigInv'
  BY NextDiskType, NextStart, NextText, NextTrial, FaultsGrow DEF ConfigInv
<1> QED
  BY <1>1, <1>2, PTL DEF Spec

\* What the user asks to try is in effect for one session at most, unless the
\* rewrite failed (the try_ lines process_config_file comments out).
THEOREM TrialsOnce == Spec => []TrialOnce
<1>1. ConfigInv => TrialOnce
  BY DEF ConfigInv, TrialInv, TrialOnce
<1> QED
  BY <1>1, ConfigInvariance, PTL

\* The configuration never creates the Linux root (save_config's first test).
THEOREM RootLeftAlone == Spec => []RootOnlyBySetup
<1>1. ConfigInv => RootOnlyBySetup
  BY DEF ConfigInv, StartInv
<1> QED
  BY <1>1, ConfigInvariance, PTL

\* A start that gets through keeps every line: in the file, or in the backup
\* if they could not be parsed (parse_config as a whole).
THEOREM TextKept == Spec => StartKeepsText
<1> DEFINE Kept ==
      (pc \notin {"off", "session"} /\ pc' = "session" /\ faults = 0
          /\ text # <<>>)
      => WriteBack(text) = IF Malformed(Effective(text)) THEN bak' ELSE file'
<1>1. ConfigInv /\ [Next]_vars => [Kept]_vars
  <2> SUFFICES ASSUME ConfigInv, [Next]_vars,
                      pc \notin {"off", "session"}, pc' = "session",
                      faults = 0, text # <<>>
               PROVE  WriteBack(text) =
                        IF Malformed(Effective(text)) THEN bak' ELSE file'
    OBVIOUS
  <2>1. DiskTypeOK /\ StartInv /\ TextInv
    BY DEF ConfigInv
  <2>2. CASE ParseOk
    BY <2>1, <2>2 DEF ParseOk, TextInv
  <2>3. CASE SaveRefused
    <3>1. file = WriteBack(text) /\ file # NoFile
      BY <2>1, <2>3, WriteBackLines, NoFileAssumption
      DEF SaveRefused, TextInv, DiskTypeOK
    <3> QED
      BY <2>1, <2>3, <3>1 DEF SaveRefused, StartInv, RootOnlyBySetup
  <2>4. CASE SaveFill
    BY <2>1, <2>4 DEF SaveFill, TextInv
  <2>5. ParseOk \/ SaveRefused \/ SaveFill
    BY DEF Next, vars, StartApp, ReadFile, ReadNothing, Truncate, RewriteLine,
           RewriteDone, ParseErr, SaveBackup, SaveCreate, SavePanics,
           InstallRoot, Edit, Close, Kill, ProcessGone
  <2> QED
    BY <2>2, <2>3, <2>4, <2>5
<1> QED
  BY <1>1, ConfigInvariance, PTL DEF Spec, StartKeepsText

-----------------------------------------------------------------------------
(* Which settings a text puts into effect: an induction over its lines, after
   n of which every line in effect stands for the one of the text that opened
   it, in the same order. *)

(* The recursion behind the fold of Effective, on the first n lines. *)
Runs(lines, g, n) ==
  g = [s \in SUBSET (1 .. n) |->
         IF s = {} THEN <<>> ELSE Absorb(g[s \ {Max(s)}], lines[Max(s)])]

(* The recursion of the fold has a solution. *)
LEMMA RunsExists ==
  ASSUME NEW lines
  PROVE  \A n \in Nat : \E g : Runs(lines, g, n)
<1> DEFINE T == {n \in Nat : \E g : Runs(lines, g, n)}
<1>1. 0 \in T
  <2> DEFINE g0 == [s \in SUBSET (1 .. 0) |-> <<>>]
  <2>1. \A s \in SUBSET (1 .. 0) : s = {}
    OBVIOUS
  <2>2. Runs(lines, g0, 0)
    BY <2>1 DEF Runs
  <2> QED
    BY <2>2
<1>2. ASSUME NEW n \in Nat, n \in T PROVE n + 1 \in T
  <2> PICK g : Runs(lines, g, n)
    BY <1>2
  <2> DEFINE h == [s \in SUBSET (1 .. n + 1) |->
                     IF n + 1 \in s THEN Absorb(g[s \ {n + 1}], lines[n + 1]) ELSE g[s]]
  <2>1. ASSUME NEW s \in SUBSET (1 .. n + 1), n + 1 \in s
        PROVE  h[s] = Absorb(h[s \ {Max(s)}], lines[Max(s)])
    <3>1. Max(s) = n + 1
      <4>1. s \in SUBSET Int /\ \A y \in s : y <= n + 1
        OBVIOUS
      <4> QED
        BY <2>1, <4>1, MaxIs
    <3>2. s \ {n + 1} \in SUBSET (1 .. n + 1) /\ n + 1 \notin s \ {n + 1}
      OBVIOUS
    <3>3. h[s \ {n + 1}] = g[s \ {n + 1}]
      BY <3>2
    <3> QED
      BY <2>1, <3>1, <3>3
  <2>2. ASSUME NEW s \in SUBSET (1 .. n + 1), n + 1 \notin s, s # {}
        PROVE  h[s] = Absorb(h[s \ {Max(s)}], lines[Max(s)])
    <3>1. s \in SUBSET (1 .. n) /\ s \ {Max(s)} \in SUBSET (1 .. n)
      <4>1. \A x \in s : x \in 1 .. n + 1 /\ x # n + 1
        BY <2>2
      <4>2. \A x \in 1 .. n + 1 : x # n + 1 => x \in 1 .. n
        OBVIOUS
      <4> QED
        BY <4>1, <4>2
    <3>2. g[s] = Absorb(g[s \ {Max(s)}], lines[Max(s)])
      BY <2>2, <3>1 DEF Runs
    <3>3. h[s] = g[s] /\ h[s \ {Max(s)}] = g[s \ {Max(s)}]
      BY <2>2, <3>1
    <3> QED
      BY <3>2, <3>3
  <2>3. h[{}] = <<>>
    BY DEF Runs
  <2>4. \A s \in SUBSET (1 .. n + 1) :
          h[s] = IF s = {} THEN <<>> ELSE Absorb(h[s \ {Max(s)}], lines[Max(s)])
    <3> HIDE DEF h
    <3> QED
      BY <2>1, <2>2, <2>3
  <2>5. h = [s \in SUBSET (1 .. n + 1) |-> h[s]]
    OBVIOUS
  <2>6. Runs(lines, h, n + 1)
    <3> HIDE DEF h
    <3> QED
      BY <2>4, <2>5 DEF Runs
  <2> QED
    BY <2>6
<1>3. \A n \in Nat : n \in T
  <2> HIDE DEF T
  <2> QED
    BY <1>1, <1>2, SetInduction
<1> QED
  BY <1>3

(* The lines in effect come about line by line. *)
LEMMA EffectiveRun ==
  ASSUME NEW lines \in Seq(Line)
  PROVE  \E run : /\ run[0] = <<>>
                  /\ \A n \in 0 .. Len(lines) - 1 : run[n + 1] = Absorb(run[n], lines[n + 1])
                  /\ Effective(lines) = run[Len(lines)]
<1> DEFINE N == Len(lines)
           iter == CHOOSE g : Runs(lines, g, N)
<1>1. N \in Nat /\ DOMAIN lines = 1 .. N
  OBVIOUS
<1>2. Runs(lines, iter, N)
  BY <1>1, RunsExists
<1>3. Effective(lines) = iter[1 .. N]
  BY <1>1 DEF Effective, FoldLeft, MapThenFoldSet, Runs
<1>4. iter[{}] = <<>>
  BY <1>2 DEF Runs
<1>5. ASSUME NEW n \in 0 .. N - 1
      PROVE  iter[1 .. n + 1] = Absorb(iter[1 .. n], lines[n + 1])
  <2>1. 1 .. n + 1 \in SUBSET (1 .. N) /\ 1 .. n + 1 # {}
    <3>1. N \in Nat /\ n \in Nat /\ n + 1 <= N /\ n + 1 \in 1 .. n + 1
      BY <1>1
    <3>2. \A x \in 1 .. n + 1 : x \in 1 .. N
      BY <3>1
    <3> QED
      BY <3>1, <3>2
  <2>2. Max(1 .. n + 1) = n + 1
    <3>1. 1 .. n + 1 \in SUBSET Int /\ n + 1 \in 1 .. n + 1 /\ \A y \in 1 .. n + 1 : y <= n + 1
      BY <1>1
    <3> QED
      BY <3>1, MaxIs
  <2>3. (1 .. n + 1) \ {n + 1} = 1 .. n
    BY <1>1
  <2> HIDE DEF iter, N
  <2>4. iter[1 .. n + 1] = Absorb(iter[(1 .. n + 1) \ {Max(1 .. n + 1)}], lines[Max(1 .. n + 1)])
    BY <1>2, <2>1 DEF Runs
  <2> QED
    BY <2>2, <2>3, <2>4
<1> DEFINE run == [n \in 0 .. N |-> iter[1 .. n]]
<1>6. 1 .. 0 = {}
  OBVIOUS
<1> HIDE DEF iter
<1>7. run[0] = <<>> /\ run[N] = iter[1 .. N]
  BY <1>1, <1>4, <1>6
<1>8. \A n \in 0 .. N - 1 : run[n + 1] = Absorb(run[n], lines[n + 1])
  BY <1>1, <1>5
<1> HIDE DEF run
<1> QED
  BY <1>3, <1>7, <1>8

(* What a line does to effective_config. *)
PlainKind(l) == IF l.kind = "try" THEN "set" ELSE l.kind
Same(e, l) == e.kind = PlainKind(l) /\ e.key = l.key

(* A line is added, takes the place of another or is dropped. *)
LEMMA AbsorbCases ==
  ASSUME NEW eff \in Seq(Line), NEW l \in Line
  PROVE  \/ /\ l.kind = "group" \/ \A j \in 1 .. Len(eff) : ~ Same(eff[j], l)
            /\ Absorb(eff, l) = Append(eff, [l EXCEPT !.kind = PlainKind(l)])
         \/ /\ l.kind = "try"
            /\ \E j \in 1 .. Len(eff) : /\ Same(eff[j], l)
                                        /\ Absorb(eff, l) = [eff EXCEPT ![j].val = l.val]
         \/ /\ l.kind \in {"set", "note"}
            /\ \E j \in 1 .. Len(eff) : Same(eff[j], l)
            /\ Absorb(eff, l) = eff
<1> DEFINE I == {i \in 1 .. Len(eff) : Same(eff[i], l)}
           at == IF I # {} THEN Min(I) ELSE 0
<1>1. Absorb(eff, l) = IF l.kind = "group" \/ at = 0
                       THEN Append(eff, [l EXCEPT !.kind = PlainKind(l)])
                       ELSE IF l.kind = "try" THEN [eff EXCEPT ![at].val = l.val] ELSE eff
  BY DEF Absorb, SelectInSeq, PlainKind, Same
<1>2. I # {} => Min(I) \in I
  <2>1. SUFFICES ASSUME I # {} PROVE Min(I) \in I
    OBVIOUS
  <2>2. Len(eff) \in Nat /\ I \in SUBSET (1 .. Len(eff))
    OBVIOUS
  <2>3. PICK m \in I : \A y \in I : m <= y
    <3> HIDE DEF I
    <3> QED
      BY <2>1, <2>2, BoundedHasMin
  <2>4. I \in SUBSET Int
    OBVIOUS
  <2> HIDE DEF I
  <2> QED
    BY <2>3, <2>4, MinIs
<1>3. l.kind \in {"group", "set", "try", "note"}
  BY DEF Line, Kinds
<1>4. CASE I = {}
  BY <1>1, <1>4
<1>5. CASE I # {}
  <2>1. at \in I /\ at # 0
    BY <1>2, <1>5
  <2>2. at \in 1 .. Len(eff) /\ Same(eff[at], l)
    BY <2>1
  <2> HIDE DEF at, I
  <2> QED
    BY <1>1, <1>3, <2>1, <2>2
<1> QED
  BY <1>4, <1>5

IsTry(l, k) == l.kind = "try" /\ l.key = k

(* Line i has the last word on k after n lines, `first` being the first that
   mentions it. *)
Decides(t, n, i, k, first) ==
  IF \E m \in 1 .. n : IsTry(t[m], k)
  THEN IsTry(t[i], k) /\ \A m \in 1 .. n : IsTry(t[m], k) => m <= i
  ELSE i = first

(* What the first n lines of t have become: line pos[j] of t opened line j. *)
Ordered(eff, pos) == \A i, j \in 1 .. Len(eff) : i < j => pos[i] < pos[j]
Opens(t, eff, pos) == \A j \in 1 .. Len(eff) : Same(eff[j], t[pos[j]])
Unique(eff) ==
  \A i, j \in 1 .. Len(eff) :
    eff[i].kind # "group" /\ eff[i].kind = eff[j].kind /\ eff[i].key = eff[j].key => i = j
Covers(t, n, eff, pos) ==
  \A i \in 1 .. n : \E j \in 1 .. Len(eff) : /\ Same(eff[j], t[i]) /\ pos[j] <= i
                                             /\ t[i].kind = "group" => pos[j] = i
Decided(t, n, eff, pos) ==
  \A j \in 1 .. Len(eff) :
    eff[j].kind = "set" =>
      \E i \in 1 .. n : /\ Decides(t, n, i, eff[j].key, pos[j])
                        /\ eff[j].val = t[i].val

Follows(t, n, eff, pos) ==
  /\ eff \in Seq(Line) /\ pos \in [1 .. Len(eff) -> 1 .. n]
  /\ Ordered(eff, pos) /\ Opens(t, eff, pos) /\ Unique(eff)
  /\ Covers(t, n, eff, pos) /\ Decided(t, n, eff, pos)

(* A new line behind the others. *)
LEMMA FollowsAppend ==
  ASSUME NEW t \in Seq(Line), NEW n \in Nat, n + 1 \in 1 .. Len(t), NEW eff, NEW pos,
         Follows(t, n, eff, pos),
         t[n + 1].kind = "group" \/ \A j \in 1 .. Len(eff) : ~ Same(eff[j], t[n + 1])
  PROVE  \E pos2 : Follows(t, n + 1, Append(eff, [t[n + 1] EXCEPT !.kind = PlainKind(t[n + 1])]),
                           pos2)
<1> DEFINE l == t[n + 1]
           e == [l EXCEPT !.kind = PlainKind(l)]
           eff2 == Append(eff, e)
           c == Len(eff)
           pos2 == [j \in 1 .. c + 1 |-> IF j = c + 1 THEN n + 1 ELSE pos[j]]
<1>1. eff \in Seq(Line) /\ c \in Nat /\ pos \in [1 .. c -> 1 .. n]
  BY DEF Follows
<1>2. l \in Line /\ e \in Line /\ e.kind = PlainKind(l) /\ e.key = l.key /\ e.val = l.val
  <2>1. l \in Line
    BY ElementOfSeq
  <2> HIDE DEF l
  <2> QED
    BY <2>1 DEF Line, Kinds, PlainKind
<1> HIDE DEF e
<1>3. eff2 \in Seq(Line) /\ Len(eff2) = c + 1
  BY <1>1, <1>2
<1>4. (\A j \in 1 .. c : eff2[j] = eff[j]) /\ eff2[c + 1] = e
  BY <1>1, <1>2
<1>5. (\A j \in 1 .. c : pos2[j] = pos[j]) /\ pos2[c + 1] = n + 1
  BY <1>1
<1>6. \A j \in 1 .. c : pos2[j] \in 1 .. n /\ pos2[j] <= n
  BY <1>1, <1>5
<1>7. pos2 \in [1 .. c + 1 -> 1 .. n + 1]
  BY <1>1
<1>8. \A j \in 1 .. c + 1 : j \in 1 .. c \/ j = c + 1
  BY <1>1
<1>9. \A i \in 1 .. n + 1 : i \in 1 .. n \/ i = n + 1
  OBVIOUS
<1>fresh. l.kind = "group" \/ \A j \in 1 .. c : ~ Same(eff[j], l)
  OBVIOUS
<1> HIDE DEF eff2, pos2, l, c
<1>10. Ordered(eff2, pos2)
  <2> SUFFICES ASSUME NEW i \in 1 .. c + 1, NEW j \in 1 .. c + 1, i < j
               PROVE  pos2[i] < pos2[j]
    BY <1>3 DEF Ordered
  <2>1. i \in 1 .. c
    BY <1>1
  <2>2. CASE j \in 1 .. c
    BY <1>5, <2>1, <2>2 DEF Follows, Ordered, c
  <2>3. CASE j = c + 1
    <3>1. pos2[i] <= n /\ pos2[i] \in 1 .. n /\ pos2[j] = n + 1
      BY <1>5, <1>6, <2>1, <2>3
    <3> QED
      BY <3>1
  <2> QED
    BY <1>8, <2>2, <2>3
<1>11. Opens(t, eff2, pos2)
  <2>1. \A j \in 1 .. c : Same(eff2[j], t[pos2[j]])
    BY <1>4, <1>5 DEF Follows, Opens, c
  <2>2. Same(eff2[c + 1], t[pos2[c + 1]])
    BY <1>2, <1>4, <1>5 DEF Same, l
  <2> QED
    BY <1>3, <1>8, <2>1, <2>2 DEF Opens
<1>12. Unique(eff2)
  <2>1. \A i, j \in 1 .. c : eff2[i].kind # "group" /\ eff2[i].kind = eff2[j].kind
                               /\ eff2[i].key = eff2[j].key => i = j
    BY <1>4 DEF Follows, Unique, c
  <2>2. \A i \in 1 .. c : ~ (/\ eff2[i].kind # "group" /\ eff2[i].kind = e.kind
                             /\ eff2[i].key = e.key)
    BY <1>2, <1>4, <1>fresh DEF Same, PlainKind
  <2> QED
    BY <1>3, <1>4, <1>8, <2>1, <2>2 DEF Unique
<1>13. Covers(t, n + 1, eff2, pos2)
  <2> SUFFICES ASSUME NEW i \in 1 .. n + 1
               PROVE  \E j \in 1 .. c + 1 : /\ Same(eff2[j], t[i]) /\ pos2[j] <= i
                                            /\ t[i].kind = "group" => pos2[j] = i
    BY <1>3 DEF Covers
  <2>1. CASE i \in 1 .. n
    <3>1. PICK j \in 1 .. c : /\ Same(eff[j], t[i]) /\ pos[j] <= i
                              /\ t[i].kind = "group" => pos[j] = i
      BY <2>1 DEF Follows, Covers, c
    <3>2. j \in 1 .. c + 1
      BY <1>1
    <3> QED
      BY <1>4, <1>5, <3>1, <3>2
  <2>2. CASE i = n + 1
    <3>1. c + 1 \in 1 .. c + 1
      BY <1>1
    <3>2. Same(eff2[c + 1], t[i]) /\ pos2[c + 1] = i
      BY <1>2, <1>4, <1>5, <2>2 DEF Same, l
    <3> QED
      BY <3>1, <3>2
  <2> QED
    BY <1>9, <2>1, <2>2
<1>14. Decided(t, n + 1, eff2, pos2)
  <2> SUFFICES ASSUME NEW j \in 1 .. c + 1, eff2[j].kind = "set"
               PROVE  \E i \in 1 .. n + 1 : /\ Decides(t, n + 1, i, eff2[j].key, pos2[j])
                                            /\ eff2[j].val = t[i].val
    BY <1>3 DEF Decided
  <2>1. CASE j \in 1 .. c
    <3>1. PICK i \in 1 .. n : Decides(t, n, i, eff[j].key, pos[j]) /\ eff[j].val = t[i].val
      BY <1>4, <2>1 DEF Follows, Decided, c
    <3>2. ~ IsTry(t[n + 1], eff[j].key)
      BY <1>4, <1>fresh, <2>1 DEF IsTry, Same, PlainKind, l
    <3>3. Decides(t, n + 1, i, eff[j].key, pos[j])
      BY <1>9, <3>1, <3>2 DEF Decides
    <3>4. i \in 1 .. n + 1
      OBVIOUS
    <3> QED
      BY <1>4, <1>5, <2>1, <3>1, <3>3, <3>4
  <2>2. CASE j = c + 1
    <3>1. eff2[j] = e /\ pos2[j] = n + 1 /\ e.val = t[n + 1].val /\ e.key = l.key
      BY <1>2, <1>4, <1>5, <2>2 DEF l
    <3>2. l.kind \in {"set", "try"} /\ PlainKind(l) = "set"
      BY <1>2, <1>4, <2>2 DEF PlainKind
    <3>3. \A m \in 1 .. n : ~ IsTry(t[m], l.key)
      <4> SUFFICES ASSUME NEW m \in 1 .. n, IsTry(t[m], l.key) PROVE FALSE
        OBVIOUS
      <4>1. PICK h \in 1 .. c : Same(eff[h], t[m])
        BY DEF Follows, Covers, c
      <4>2. Same(eff[h], l)
        BY <3>2, <4>1 DEF Same, IsTry, PlainKind
      <4> QED
        BY <1>fresh, <3>2, <4>2
    <3>4. n + 1 \in 1 .. n + 1
      OBVIOUS
    <3>5. \A m \in 1 .. n + 1 : IsTry(t[m], l.key) => m = n + 1
      BY <1>9, <3>3
    <3>6. Decides(t, n + 1, n + 1, l.key, n + 1)
      BY <3>4, <3>5 DEF Decides
    <3> QED
      BY <3>1, <3>4, <3>6
  <2> QED
    BY <1>8, <2>1, <2>2
<1>15. Follows(t, n + 1, eff2, pos2)
  BY <1>3, <1>7, <1>10, <1>11, <1>12, <1>13, <1>14 DEF Follows
<1> QED
  BY <1>15 DEF eff2, e, l

(* A try_ line for what is there. *)
LEMMA FollowsOverride ==
  ASSUME NEW t \in Seq(Line), NEW n \in Nat, n + 1 \in 1 .. Len(t), NEW eff, NEW pos,
         Follows(t, n, eff, pos), t[n + 1].kind = "try",
         NEW at \in 1 .. Len(eff), Same(eff[at], t[n + 1])
  PROVE  Follows(t, n + 1, [eff EXCEPT ![at].val = t[n + 1].val], pos)
<1> DEFINE l == t[n + 1]
           eff2 == [eff EXCEPT ![at].val = l.val]
           c == Len(eff)
<1>1. eff \in Seq(Line) /\ c \in Nat /\ pos \in [1 .. c -> 1 .. n]
  BY DEF Follows
<1>2. l \in Line /\ l.kind = "try" /\ eff[at] \in Line /\ eff[at].kind = "set"
      /\ eff[at].key = l.key
  <2>1. l \in Line /\ eff[at] \in Line
    BY <1>1, ElementOfSeq
  <2> QED
    BY <2>1 DEF Same, PlainKind
<1> HIDE DEF l
<1>3. [eff[at] EXCEPT !.val = l.val] \in Line
  BY <1>2 DEF Line, Kinds
<1>4. eff2 \in Seq(Line) /\ Len(eff2) = c
  BY <1>1, <1>3
<1>5. \A j \in 1 .. c : j # at => eff2[j] = eff[j]
  BY <1>1
<1>6. eff2[at].kind = "set" /\ eff2[at].key = l.key /\ eff2[at].val = l.val
  BY <1>1, <1>2 DEF Line
<1>7. \A i \in 1 .. n + 1 : i \in 1 .. n \/ i = n + 1
  OBVIOUS
<1>8. \A j \in 1 .. c : eff2[j].kind = eff[j].kind /\ eff2[j].key = eff[j].key
  BY <1>2, <1>5, <1>6
<1>9. pos \in [1 .. c -> 1 .. n + 1]
  <2>1. \A i \in 1 .. n : i \in 1 .. n + 1
    OBVIOUS
  <2> QED
    BY <1>1, <2>1
<1>10. Same(eff[at], l)
  BY DEF l
<1> HIDE DEF eff2, c
<1>11. Ordered(eff2, pos) /\ Opens(t, eff2, pos) /\ Unique(eff2)
  BY <1>4, <1>8 DEF Follows, Ordered, Opens, Unique, Same, c
<1>12. Covers(t, n + 1, eff2, pos)
  <2> SUFFICES ASSUME NEW i \in 1 .. n + 1
               PROVE  \E j \in 1 .. c : /\ Same(eff2[j], t[i]) /\ pos[j] <= i
                                        /\ t[i].kind = "group" => pos[j] = i
    BY <1>4 DEF Covers
  <2>1. CASE i \in 1 .. n
    BY <1>8, <2>1 DEF Follows, Covers, Same, c
  <2>2. CASE i = n + 1
    <3>1. at \in 1 .. c /\ Same(eff2[at], t[i])
      BY <1>8, <1>10, <2>2 DEF Same, l, c
    <3>2. pos[at] <= i
      BY <1>1, <2>2, <3>1
    <3>3. t[i].kind # "group"
      BY <1>2, <2>2 DEF l
    <3> QED
      BY <3>1, <3>2, <3>3
  <2> QED
    BY <1>7, <2>1, <2>2
<1>13. Decided(t, n + 1, eff2, pos)
  <2> SUFFICES ASSUME NEW j \in 1 .. c, eff2[j].kind = "set"
               PROVE  \E i \in 1 .. n + 1 : /\ Decides(t, n + 1, i, eff2[j].key, pos[j])
                                            /\ eff2[j].val = t[i].val
    BY <1>4 DEF Decided
  <2>1. CASE j = at
    <3>1. n + 1 \in 1 .. n + 1 /\ IsTry(t[n + 1], l.key)
      BY <1>2 DEF IsTry, l
    <3>2. Decides(t, n + 1, n + 1, l.key, pos[j])
      BY <3>1 DEF Decides
    <3> QED
      BY <1>6, <2>1, <3>1, <3>2 DEF l
  <2>2. CASE j # at
    <3>1. eff[j].kind = "set" /\ eff2[j] = eff[j]
      BY <1>5, <2>2
    <3>2. PICK i \in 1 .. n : Decides(t, n, i, eff[j].key, pos[j]) /\ eff[j].val = t[i].val
      BY <3>1 DEF Follows, Decided, c
    <3>3. ~ IsTry(t[n + 1], eff[j].key)
      BY <1>2, <2>2, <3>1 DEF Follows, Unique, IsTry, c, l
    <3>4. Decides(t, n + 1, i, eff[j].key, pos[j])
      BY <1>7, <3>2, <3>3 DEF Decides
    <3>5. i \in 1 .. n + 1
      OBVIOUS
    <3> QED
      BY <3>1, <3>2, <3>4, <3>5
  <2> QED
    BY <2>1, <2>2
<1>14. Follows(t, n + 1, eff2, pos)
  BY <1>4, <1>9, <1>11, <1>12, <1>13 DEF Follows
<1> QED
  BY <1>14 DEF eff2, l

(* A plain line for what is there. *)
LEMMA FollowsSkip ==
  ASSUME NEW t \in Seq(Line), NEW n \in Nat, n + 1 \in 1 .. Len(t), NEW eff, NEW pos,
         Follows(t, n, eff, pos), t[n + 1].kind \in {"set", "note"},
         NEW at \in 1 .. Len(eff), Same(eff[at], t[n + 1])
  PROVE  Follows(t, n + 1, eff, pos)
<1>1. \A i \in 1 .. n + 1 : i \in 1 .. n \/ i = n + 1
  OBVIOUS
<1>2. \A i \in 1 .. n : i \in 1 .. n + 1
  OBVIOUS
<1>3. pos \in [1 .. Len(eff) -> 1 .. n]
  BY DEF Follows
<1>4. pos \in [1 .. Len(eff) -> 1 .. n + 1]
  BY <1>2, <1>3
<1>5. Covers(t, n + 1, eff, pos)
  <2> SUFFICES ASSUME NEW i \in 1 .. n + 1
               PROVE  \E j \in 1 .. Len(eff) : /\ Same(eff[j], t[i]) /\ pos[j] <= i
                                               /\ t[i].kind = "group" => pos[j] = i
    BY DEF Covers
  <2>1. CASE i \in 1 .. n
    BY <2>1 DEF Follows, Covers
  <2>2. CASE i = n + 1
    <3>1. pos[at] <= i /\ t[i].kind # "group"
      BY <1>3, <2>2
    <3> QED
      BY <2>2, <3>1
  <2> QED
    BY <1>1, <2>1, <2>2
<1>6. Decided(t, n + 1, eff, pos)
  <2> SUFFICES ASSUME NEW j \in 1 .. Len(eff), eff[j].kind = "set"
               PROVE  \E i \in 1 .. n + 1 : /\ Decides(t, n + 1, i, eff[j].key, pos[j])
                                            /\ eff[j].val = t[i].val
    BY DEF Decided
  <2>1. PICK i \in 1 .. n : Decides(t, n, i, eff[j].key, pos[j]) /\ eff[j].val = t[i].val
    BY DEF Follows, Decided
  <2>2. ~ IsTry(t[n + 1], eff[j].key)
    BY DEF IsTry
  <2>3. Decides(t, n + 1, i, eff[j].key, pos[j])
    BY <1>1, <2>1, <2>2 DEF Decides
  <2> QED
    BY <1>2, <2>1, <2>3
<1> QED
  BY <1>4, <1>5, <1>6 DEF Follows

(* The whole file. *)
LEMMA EffectiveFollows ==
  ASSUME NEW t \in Seq(Line)
  PROVE  \E pos : Follows(t, Len(t), Effective(t), pos)
<1> PICK run : /\ run[0] = <<>>
               /\ \A n \in 0 .. Len(t) - 1 : run[n + 1] = Absorb(run[n], t[n + 1])
               /\ Effective(t) = run[Len(t)]
  BY EffectiveRun
<1> DEFINE T == {n \in 0 .. Len(t) : \E pos : Follows(t, n, run[n], pos)}
<1>1. Len(t) \in Nat
  OBVIOUS
<1>2. 0 \in T
  <2>1. Follows(t, 0, <<>>, <<>>)
    <3>1. <<>> \in Seq(Line) /\ Len(<<>>) = 0 /\ <<>> \in [1 .. 0 -> 1 .. 0] /\ 1 .. 0 = {}
      OBVIOUS
    <3> QED
      BY <3>1 DEF Follows, Ordered, Opens, Unique, Covers, Decided
  <2> QED
    BY <1>1, <2>1
<1>3. ASSUME NEW n \in 0 .. Len(t) - 1, n \in T PROVE n + 1 \in T
  <2>1. n \in Nat /\ n + 1 \in 1 .. Len(t) /\ n + 1 \in 0 .. Len(t)
    BY <1>1
  <2>2. PICK pos : Follows(t, n, run[n], pos)
    BY <1>3
  <2>3. run[n] \in Seq(Line) /\ t[n + 1] \in Line
    BY <2>1, <2>2, ElementOfSeq DEF Follows
  <2>4. run[n + 1] = Absorb(run[n], t[n + 1])
    OBVIOUS
  <2>5. \E pos2 : Follows(t, n + 1, run[n + 1], pos2)
    <3> HIDE DEF T
    <3> DEFINE l == t[n + 1]
               eff == run[n]
    <3>1. CASE /\ l.kind = "group" \/ \A j \in 1 .. Len(eff) : ~ Same(eff[j], l)
               /\ Absorb(eff, l) = Append(eff, [l EXCEPT !.kind = PlainKind(l)])
      BY <2>1, <2>2, <2>4, <3>1, FollowsAppend
    <3>2. CASE /\ l.kind = "try"
               /\ \E j \in 1 .. Len(eff) : /\ Same(eff[j], l)
                                           /\ Absorb(eff, l) = [eff EXCEPT ![j].val = l.val]
      <4>1. PICK j \in 1 .. Len(eff) : /\ Same(eff[j], l)
                                       /\ Absorb(eff, l) = [eff EXCEPT ![j].val = l.val]
        BY <3>2
      <4>2. Follows(t, n + 1, [eff EXCEPT ![j].val = l.val], pos)
        BY <2>1, <2>2, <3>2, <4>1, FollowsOverride
      <4> QED
        BY <2>4, <4>1, <4>2
    <3>3. CASE /\ l.kind \in {"set", "note"}
               /\ \E j \in 1 .. Len(eff) : Same(eff[j], l)
               /\ Absorb(eff, l) = eff
      BY <2>1, <2>2, <2>4, <3>3, FollowsSkip
    <3> QED
      BY <2>3, <3>1, <3>2, <3>3, AbsorbCases
  <2> QED
    BY <2>1, <2>5
<1>4. Len(t) \in T
  <2> HIDE DEF T
  <2>1. \A n \in 0 .. Len(t) : n \in T
    BY <1>1, <1>2, <1>3, SetInductionUpTo
  <2> QED
    BY <1>1, <2>1
<1> QED
  BY <1>4

(* A header governs the same lines before and after. *)
LEMMA SameSection ==
  ASSUME NEW t \in Seq(Line), NEW eff, NEW pos, Follows(t, Len(t), eff, pos),
         NEW j \in 1 .. Len(eff)
  PROVE  Section(eff, j) = Section(t, pos[j])
<1> DEFINE He == {i \in 1 .. j : eff[i].kind = "group"}
           Ht == {i \in 1 .. pos[j] : t[i].kind = "group"}
<1>1. /\ Len(t) \in Nat /\ Len(eff) \in Nat /\ j \in Nat /\ j <= Len(eff)
      /\ pos \in [1 .. Len(eff) -> 1 .. Len(t)]
      /\ pos[j] \in 1 .. Len(t)
  BY DEF Follows
<1>2. \A i \in He : i \in 1 .. Len(eff) /\ pos[i] \in Ht
  <2> SUFFICES ASSUME NEW i \in He PROVE i \in 1 .. Len(eff) /\ pos[i] \in Ht
    OBVIOUS
  <2>1. i \in 1 .. Len(eff) /\ (i < j \/ i = j)
    BY <1>1
  <2>2. pos[i] \in 1 .. Len(t) /\ pos[i] <= pos[j]
    BY <1>1, <2>1 DEF Follows, Ordered
  <2>3. t[pos[i]].kind = "group"
    BY <2>1 DEF Follows, Opens, Same, PlainKind
  <2> QED
    BY <2>1, <2>2, <2>3
<1>3. \A m \in Ht : \E i \in He : pos[i] = m
  <2> SUFFICES ASSUME NEW m \in Ht PROVE \E i \in He : pos[i] = m
    OBVIOUS
  <2>1. m \in 1 .. Len(t) /\ m <= pos[j]
    BY <1>1
  <2>2. PICK i \in 1 .. Len(eff) : Same(eff[i], t[m]) /\ pos[i] = m
    BY <2>1 DEF Follows, Covers
  <2>3. eff[i].kind = "group"
    BY <2>2 DEF Same, PlainKind
  <2>4. ~ (j < i)
    <3>1. pos[i] \in Int /\ pos[j] \in Int
      BY <1>1
    <3> QED
      BY <2>1, <2>2, <3>1 DEF Follows, Ordered
  <2> QED
    BY <1>1, <2>2, <2>3, <2>4
<1>4. CASE He = {}
  BY <1>3, <1>4 DEF Section
<1>5. CASE He # {}
  <2>1. He \in SUBSET (1 .. j) /\ He \in SUBSET Int
    OBVIOUS
  <2>2. PICK m \in He : \A y \in He : y <= m
    <3> HIDE DEF He
    <3> QED
      BY <1>1, <1>5, <2>1, BoundedHasMax
  <2>3. Max(He) = m
    <3> HIDE DEF He
    <3> QED
      BY <2>1, <2>2, MaxIs
  <2>4. pos[m] \in Ht /\ m \in 1 .. Len(eff)
    BY <1>2
  <2>5. \A y \in Ht : y <= pos[m]
    <3> SUFFICES ASSUME NEW y \in Ht PROVE y <= pos[m]
      OBVIOUS
    <3>1. PICK i \in He : pos[i] = y
      BY <1>3
    <3>2. i \in 1 .. Len(eff) /\ (i < m \/ i = m)
      BY <1>2, <2>2
    <3>3. pos[i] < pos[m] \/ pos[i] = pos[m]
      BY <2>4, <3>2 DEF Follows, Ordered
    <3>4. pos[i] \in Int /\ pos[m] \in Int
      BY <1>1, <2>4, <3>2
    <3> QED
      BY <3>1, <3>3, <3>4
  <2>6. Max(Ht) = pos[m]
    <3>1. Ht \in SUBSET Int
      OBVIOUS
    <3> HIDE DEF Ht
    <3> QED
      BY <2>4, <2>5, <3>1, MaxIs
  <2>7. eff[m].key = t[pos[m]].key
    BY <2>4 DEF Follows, Opens, Same
  <2>8. Section(eff, j) = eff[Max(He)].key
    BY <1>5 DEF Section
  <2>9. Section(t, pos[j]) = t[Max(Ht)].key
    BY <2>4 DEF Section
  <2> QED
    BY <2>3, <2>6, <2>7, <2>8, <2>9
<1> QED
  BY <1>4, <1>5

(* A setting that is mentioned has one line, its own, with the chosen value. *)
LEMMA SettingLine ==
  ASSUME NEW t \in Seq(Line), NEW eff, NEW pos, Follows(t, Len(t), eff, pos),
         NEW k, Mentions(t, k) # {}
  PROVE  \E j \in 1 .. Len(eff) :
           /\ eff[j].kind = "set" /\ eff[j].key = k
           /\ \A i \in 1 .. Len(eff) : eff[i].kind = "set" /\ eff[i].key = k => i = j
           /\ pos[j] = Min(Mentions(t, k))
           /\ eff[j].val = Chosen(t, k)
<1>1. /\ Len(t) \in Nat /\ DOMAIN t = 1 .. Len(t) /\ Len(eff) \in Nat
      /\ pos \in [1 .. Len(eff) -> 1 .. Len(t)]
  BY DEF Follows
<1>2. \A i \in Mentions(t, k) :
        \E j \in 1 .. Len(eff) : eff[j].kind = "set" /\ eff[j].key = k /\ pos[j] <= i
  <2> SUFFICES ASSUME NEW i \in Mentions(t, k)
               PROVE  \E j \in 1 .. Len(eff) : eff[j].kind = "set" /\ eff[j].key = k /\ pos[j] <= i
    OBVIOUS
  <2>1. i \in 1 .. Len(t) /\ t[i].kind \in {"set", "try"} /\ t[i].key = k
    BY <1>1 DEF Mentions
  <2>2. PICK j \in 1 .. Len(eff) : Same(eff[j], t[i]) /\ pos[j] <= i
    BY <2>1 DEF Follows, Covers
  <2> QED
    BY <2>1, <2>2 DEF Same, PlainKind
<1>3. PICK j \in 1 .. Len(eff) : eff[j].kind = "set" /\ eff[j].key = k
  BY <1>2
<1>4. \A i \in 1 .. Len(eff) : eff[i].kind = "set" /\ eff[i].key = k => i = j
  BY <1>3 DEF Follows, Unique
<1>5. pos[j] \in Mentions(t, k) /\ pos[j] \in 1 .. Len(t)
  <2>1. pos[j] \in 1 .. Len(t) /\ Same(eff[j], t[pos[j]])
    BY <1>1 DEF Follows, Opens
  <2> QED
    BY <1>1, <1>3, <2>1 DEF Same, PlainKind, Mentions
<1>6. \A i \in Mentions(t, k) : pos[j] <= i
  BY <1>2, <1>4
<1>7. Mentions(t, k) \in SUBSET Int
  BY <1>1 DEF Mentions
<1>8. Min(Mentions(t, k)) = pos[j]
  BY <1>5, <1>6, <1>7, MinIs
<1>9. PICK i \in 1 .. Len(t) : Decides(t, Len(t), i, k, pos[j]) /\ eff[j].val = t[i].val
  BY <1>3 DEF Follows, Decided
<1>10. \A m : m \in Tries(t, k) <=> m \in 1 .. Len(t) /\ IsTry(t[m], k)
  BY <1>1 DEF Tries, Mentions, IsTry
<1>11. CASE Tries(t, k) # {}
  <2>1. i \in Tries(t, k) /\ \A m \in Tries(t, k) : m <= i
    BY <1>9, <1>10, <1>11 DEF Decides
  <2>2. Tries(t, k) \in SUBSET Int
    BY <1>10
  <2>3. Max(Tries(t, k)) = i
    BY <2>1, <2>2, MaxIs
  <2> QED
    BY <1>3, <1>4, <1>8, <1>9, <1>11, <2>3 DEF Chosen
<1>12. CASE Tries(t, k) = {}
  <2>1. i = pos[j]
    BY <1>9, <1>10, <1>12 DEF Decides
  <2> QED
    BY <1>3, <1>4, <1>8, <1>9, <1>12, <2>1 DEF Chosen
<1> QED
  BY <1>11, <1>12

(* What parse_config puts into effect. *)
InEffect(t) == IF Malformed(Effective(t)) THEN Defaults ELSE Deserialize(Effective(t))

(* It is what the comments promise of the text, for a text of any length: the
   last try_ line of a setting, else the first plain one if the setting stands in
   its own group, else the default (config.rs:94-205). *)
THEOREM PromiseKept ==
  ASSUME NEW t \in Seq(Line), NEW k \in Setting
  PROVE  InEffect(t)[k] = IF Broken(t) \/ UserGroupIncomplete(t) THEN "default"
                          ELSE Promised(t, k)
<1> DEFINE eff == Effective(t)
<1> PICK pos : Follows(t, Len(t), eff, pos)
  BY EffectiveFollows
<1> HIDE DEF eff
<1>1. /\ Len(t) \in Nat /\ DOMAIN t = 1 .. Len(t) /\ Len(eff) \in Nat
      /\ DOMAIN eff = 1 .. Len(eff) /\ eff \in Seq(Line)
      /\ pos \in [1 .. Len(eff) -> 1 .. Len(t)]
  BY DEF Follows
\* A setting nobody mentions is nowhere.
<1>2. ASSUME NEW s, Mentions(t, s) = {}
      PROVE  \A i \in 1 .. Len(eff) : ~ (eff[i].kind = "set" /\ eff[i].key = s)
  <2> SUFFICES ASSUME NEW i \in 1 .. Len(eff), eff[i].kind = "set", eff[i].key = s
               PROVE  FALSE
    OBVIOUS
  <2>1. pos[i] \in 1 .. Len(t) /\ Same(eff[i], t[pos[i]])
    BY <1>1 DEF Follows, Opens
  <2>2. pos[i] \in Mentions(t, s)
    BY <1>1, <2>1 DEF Same, PlainKind, Mentions
  <2> QED
    BY <1>2, <2>2
\* One that is given has one field, with the chosen value; the others none.
<1>3. ASSUME NEW s \in Setting, Given(t, s)
      PROVE  \E j \in 1 .. Len(eff) : Fields(eff, s) = {j} /\ eff[j].val = Chosen(t, s)
  <2>1. Mentions(t, s) # {} /\ Section(t, Min(Mentions(t, s))) = GroupOf(s)
    BY <1>3 DEF Given
  <2>2. PICK j \in 1 .. Len(eff) :
           /\ eff[j].kind = "set" /\ eff[j].key = s
           /\ \A i \in 1 .. Len(eff) : eff[i].kind = "set" /\ eff[i].key = s => i = j
           /\ pos[j] = Min(Mentions(t, s))
           /\ eff[j].val = Chosen(t, s)
    BY <2>1, SettingLine
  <2>3. Section(eff, j) = GroupOf(s)
    BY <2>1, <2>2, SameSection
  <2> QED
    BY <1>1, <2>2, <2>3 DEF Fields
<1>4. ASSUME NEW s \in Setting, ~ Given(t, s)
      PROVE  Fields(eff, s) = {}
  <2>1. CASE Mentions(t, s) = {}
    BY <1>1, <1>2, <2>1 DEF Fields
  <2>2. CASE Mentions(t, s) # {}
    <3>1. PICK j \in 1 .. Len(eff) :
             /\ \A i \in 1 .. Len(eff) : eff[i].kind = "set" /\ eff[i].key = s => i = j
             /\ pos[j] = Min(Mentions(t, s))
      BY <2>2, SettingLine
    <3>2. Section(eff, j) # GroupOf(s)
      BY <1>4, <2>2, <3>1, SameSection DEF Given
    <3> QED
      BY <1>1, <3>1, <3>2 DEF Fields
  <2> QED
    BY <2>1, <2>2
\* The text and what is parsed are malformed for the same reasons.
<1>5. (\E i \in DOMAIN eff : eff[i].kind = "set" /\ eff[i].val = "bad")
        <=> \E s \in Setting : Mentions(t, s) # {} /\ Chosen(t, s) = "bad"
  <2>1. ASSUME NEW i \in 1 .. Len(eff), eff[i].kind = "set", eff[i].val = "bad"
        PROVE  \E s \in Setting : Mentions(t, s) # {} /\ Chosen(t, s) = "bad"
    <3>1. eff[i].key \in Setting
      <4>1. eff[i] \in Line
        BY <1>1, ElementOfSeq
      <4> QED
        BY <2>1, <4>1 DEF Line
    <3>2. Mentions(t, eff[i].key) # {}
      BY <1>2, <2>1
    <3> QED
      BY <2>1, <3>1, <3>2, SettingLine
  <2>2. ASSUME NEW s \in Setting, Mentions(t, s) # {}, Chosen(t, s) = "bad"
        PROVE  \E i \in 1 .. Len(eff) : eff[i].kind = "set" /\ eff[i].val = "bad"
    BY <2>2, SettingLine
  <2> QED
    BY <1>1, <2>1, <2>2
<1>6. \A i \in 1 .. Len(eff) : eff[i].kind = "group" => eff[i] = t[pos[i]]
  <2> SUFFICES ASSUME NEW i \in 1 .. Len(eff), eff[i].kind = "group"
               PROVE  eff[i] = t[pos[i]]
    OBVIOUS
  <2>1. pos[i] \in 1 .. Len(t) /\ Same(eff[i], t[pos[i]])
    BY <1>1 DEF Follows, Opens
  <2>2. t[pos[i]].kind = "group" /\ t[pos[i]].key = eff[i].key
    BY <2>1 DEF Same, PlainKind
  <2>3. eff[i] \in Line /\ t[pos[i]] \in Line
    BY <1>1, <2>1, ElementOfSeq
  <2> QED
    BY <2>2, <2>3 DEF Line, Kinds
<1>7. \A m \in 1 .. Len(t) : t[m].kind = "group" =>
        \E i \in 1 .. Len(eff) : pos[i] = m /\ eff[i] = t[m] /\ eff[i].kind = "group"
  <2> SUFFICES ASSUME NEW m \in 1 .. Len(t), t[m].kind = "group"
               PROVE  \E i \in 1 .. Len(eff) : pos[i] = m /\ eff[i] = t[m] /\ eff[i].kind = "group"
    OBVIOUS
  <2>1. PICK i \in 1 .. Len(eff) : Same(eff[i], t[m]) /\ pos[i] = m
    BY DEF Follows, Covers
  <2> QED
    BY <1>6, <2>1 DEF Same, PlainKind
<1>8. \A i, j \in 1 .. Len(eff) : i # j => pos[i] # pos[j]
  BY <1>1 DEF Follows, Ordered
<1>9. (\E i, j \in DOMAIN eff : i # j /\ eff[i].kind = "group" /\ eff[i] = eff[j])
        <=> \E i, j \in DOMAIN t : i # j /\ t[i].kind = "group" /\ t[i] = t[j]
  <2>1. ASSUME NEW i \in 1 .. Len(eff), NEW j \in 1 .. Len(eff),
               i # j, eff[i].kind = "group", eff[i] = eff[j]
        PROVE  \E m, n \in 1 .. Len(t) : m # n /\ t[m].kind = "group" /\ t[m] = t[n]
    <3>1. pos[i] \in 1 .. Len(t) /\ pos[j] \in 1 .. Len(t) /\ pos[i] # pos[j]
      BY <1>1, <1>8, <2>1
    <3>2. t[pos[i]] = eff[i] /\ t[pos[j]] = eff[j]
      BY <1>6, <2>1
    <3> QED
      BY <2>1, <3>1, <3>2
  <2>2. ASSUME NEW m \in 1 .. Len(t), NEW n \in 1 .. Len(t),
               m # n, t[m].kind = "group", t[m] = t[n]
        PROVE  \E i, j \in 1 .. Len(eff) : i # j /\ eff[i].kind = "group" /\ eff[i] = eff[j]
    <3>1. PICK i \in 1 .. Len(eff) : pos[i] = m /\ eff[i] = t[m] /\ eff[i].kind = "group"
      BY <1>7, <2>2
    <3>2. PICK j \in 1 .. Len(eff) : pos[j] = n /\ eff[j] = t[n]
      BY <1>7, <2>2
    <3> QED
      BY <2>2, <3>1, <3>2
  <2> QED
    BY <1>1, <2>1, <2>2
<1>10. (\E i \in DOMAIN eff : eff[i] = Header("user"))
         <=> \E i \in DOMAIN t : t[i] = Header("user")
  <2>1. Header("user").kind = "group"
    BY DEF Header
  <2>2. ASSUME NEW i \in 1 .. Len(eff), eff[i] = Header("user")
        PROVE  \E m \in 1 .. Len(t) : t[m] = Header("user")
    BY <1>1, <1>6, <2>1, <2>2
  <2>3. ASSUME NEW m \in 1 .. Len(t), t[m] = Header("user")
        PROVE  \E i \in 1 .. Len(eff) : eff[i] = Header("user")
    BY <1>7, <2>1, <2>3
  <2> QED
    BY <1>1, <2>2, <2>3
<1>11. Fields(eff, "username") = {} <=> ~ Given(t, "username")
  <2>1. "username" \in Setting
    BY DEF Setting
  <2> QED
    BY <1>3, <1>4, <2>1
<1>12. Malformed(eff) <=> Broken(t) \/ UserGroupIncomplete(t)
  BY <1>5, <1>9, <1>10, <1>11 DEF Malformed, Broken, UserGroupIncomplete
<1>13. Deserialize(eff)[k] = Promised(t, k)
  <2>1. CASE Given(t, k)
    <3>1. PICK j \in 1 .. Len(eff) : Fields(eff, k) = {j} /\ eff[j].val = Chosen(t, k)
      BY <1>3, <2>1
    <3>2. Max({j}) = j
      <4>1. {j} \in SUBSET Int /\ \A y \in {j} : y <= j
        BY <1>1
      <4> QED
        BY <4>1, MaxIs
    <3> QED
      BY <2>1, <3>1, <3>2 DEF Deserialize, Promised
  <2>2. CASE ~ Given(t, k)
    BY <1>4, <2>2 DEF Deserialize, Promised
  <2> QED
    BY <2>1, <2>2
<1> QED
  BY <1>12, <1>13 DEF InEffect, Defaults, eff

-----------------------------------------------------------------------------
(* What a session runs under. *)

\* A session has the settings of the text that was read, and a start that saves
\* has the defaults because there was nothing to read or nothing to parse.
SettingsInv ==
    /\ pc = "session" => config = InEffect(text)
    /\ pc \in {"save", "create", "fill"} =>
         config = Defaults /\ (text = <<>> \/ Malformed(Effective(text)))

\* No text, no setting.
LEMMA NothingInEffect == InEffect(<<>>) = Defaults
<1>1. <<>> \in Seq(Line) /\ Len(<<>>) = 0
  OBVIOUS
<1>2. Effective(<<>>) = <<>>
  <2>1. PICK run : run[0] = <<>> /\ Effective(<<>>) = run[Len(<<>>)]
    BY <1>1, EffectiveRun
  <2> QED
    BY <1>1, <2>1
<1>3. DOMAIN <<>> = {}
  OBVIOUS
<1>4. \A k : Fields(<<>>, k) = {}
  BY <1>3 DEF Fields
<1> QED
  BY <1>2, <1>3, <1>4 DEF InEffect, Deserialize, Defaults

\* The settings change where a text is read, parsed or given up.
LEMMA NextSettings ==
    ASSUME StartInv, SettingsInv, [Next]_vars
    PROVE  SettingsInv'
<1> USE DEF SettingsInv
<1>0. ASSUME text' = text PROVE InEffect(text)' = InEffect(text)
  BY <1>0 DEF InEffect
<1>1. CASE StartApp \/ ReadFile \/ Truncate \/ RewriteLine \/ RewriteDone
  BY <1>1 DEF StartApp, ReadFile, Truncate, RewriteLine, RewriteDone
<1>2. CASE ReadNothing
  BY <1>2 DEF ReadNothing, StartInv
<1>3. CASE ParseOk
  BY <1>0, <1>3 DEF ParseOk, InEffect
<1>4. CASE ParseErr
  BY <1>4 DEF ParseErr
<1>5. CASE SaveRefused \/ SaveFill
  <2>1. /\ pc \in {"save", "fill"} /\ pc' = "session"
        /\ text' = text /\ config' = config
    BY <1>5 DEF SaveRefused, SaveFill
  <2>2. InEffect(text) = Defaults
    BY <2>1, NothingInEffect DEF InEffect
  <2> QED
    BY <1>0, <2>1, <2>2
<1>6. CASE SaveBackup \/ SaveCreate
  BY <1>6 DEF SaveBackup, SaveCreate
<1>7. CASE SavePanics \/ Close \/ Kill
  BY <1>7 DEF SavePanics, Close, Kill, ProcessGone
<1>8. CASE InstallRoot \/ Edit
  BY <1>0, <1>8 DEF InstallRoot, Edit
<1>9. CASE UNCHANGED vars
  BY <1>0, <1>9 DEF vars
<1> QED
  BY <1>1, <1>2, <1>3, <1>4, <1>5, <1>6, <1>7, <1>8, <1>9 DEF Next

\* Every session, after any number of starts, kills and edits, runs under the
\* settings its text promises (parse_config as a whole).
THEOREM SettingsApplied == Spec => []AppliesText
<1>1. Init => SettingsInv
  BY DEF Init, SettingsInv
<1>2. ConfigInv /\ SettingsInv /\ [Next]_vars => SettingsInv'
  BY NextSettings DEF ConfigInv
<1>3. ConfigInv /\ SettingsInv => AppliesText
  <2> SUFFICES ASSUME text \in Seq(Line), config = InEffect(text), NEW k \in Setting
               PROVE  config[k] = IF Broken(text) \/ UserGroupIncomplete(text)
                                  THEN "default" ELSE Promised(text, k)
    BY DEF ConfigInv, DiskTypeOK, SettingsInv, AppliesText
  <2> QED
    BY PromiseKept
<1> QED
  BY <1>1, <1>2, <1>3, ConfigInvariance, PTL DEF Spec
=============================================================================
