------------------------------ MODULE ConfigFile ------------------------------
(***************************************************************************)
(* The user's configuration, src/src/core/config.rs.                       *)
(*                                                                         *)
(* Every start of the app calls `parse_config` once.  It reads the file    *)
(* line by line, lets each `try_` line override the setting it names,      *)
(* rewrites the file with the `try_` lines commented out, and parses what  *)
(* is in effect.  A file that is missing, or that does not parse, is       *)
(* replaced by the defaults, the old one being kept as a backup.  The      *)
(* process can be killed between any two of these steps, and any of the    *)
(* file operations can fail; between two starts the user edits the file.   *)
(*                                                                         *)
(* A line is a record; a value is what the TOML parser makes of the text   *)
(* after the first `=`, "bad" where that is nothing.                       *)
(***************************************************************************)
EXTENDS Integers, Sequences, FiniteSets, SequencesExt

CONSTANTS
    Values,         \* values the user may give a setting
    UserFiles,      \* what the user may leave in the file
    NoFile,         \* stands for a file that does not exist
    MaxEdits,       \* bound: edits in a behaviour
    MaxKills,       \* bound: kills during a start
    MaxFaults       \* bound: failing file operations

VARIABLES
    \* ---- the disk
    rooted,         \* ARCH_FS_ROOT exists and is not empty
    file,           \* localdesktop.toml
    bak,            \* localdesktop.bak
    \* ---- the process
    pc,             \* where parse_config is; "session" is after it
    text,           \* the lines that were read
    written,        \* lines of write_back_lines that are in the file again
    config,         \* ApplicationContext.local_config
    \* ---- history
    trials,         \* sessions under `try_` settings since the last edit
    edits, kills, faults

disk    == <<rooted, file, bak>>
bounds  == <<edits, kills, faults>>
vars    == <<disk, pc, text, written, config, trials, bounds>>

-----------------------------------------------------------------------------
(* Lines and settings.                                                     *)

Setting == {"username", "check", "install", "launch"}
Groups  == {"user", "command"}

\* The fields of LocalConfig.
GroupOf(k) == IF k = "username" THEN "user" ELSE "command"

\* A group's header, `key = value`, `try_key = value`, `# try_key = value`.
\* Blank lines and the user's own comments say nothing and are left out.
Kinds == {"group", "set", "try", "note"}
Line  ==
    [kind : {"group"}, key : Groups, val : {"none"}]
        \cup [kind : Kinds \ {"group"}, key : Setting, val : Values \cup {"default", "bad"}]

Header(g)  == [kind |-> "group", key |-> g, val |-> "none"]
Set(k, v)  == [kind |-> "set", key |-> k, val |-> v]
Try(k, v)  == [kind |-> "try", key |-> k, val |-> v]

ASSUME ValuesAssumption == "default" \notin Values /\ "bad" \notin Values
ASSUME UserFilesAssumption == UserFiles \subseteq Seq(Line)
ASSUME NoFileAssumption == NoFile \notin Seq(Line)
ASSUME BoundsAssumption == MaxEdits \in Nat /\ MaxKills \in Nat /\ MaxFaults \in Nat

\* LocalConfig::default(), and what toml::to_string makes of it.
Defaults == [k \in Setting |-> "default"]
DefaultFile ==
    << Header("user"), Set("username", "default"),
       Header("command"), Set("check", "default"), Set("install", "default"),
       Set("launch", "default") >>

-----------------------------------------------------------------------------
(* process_config_file, the two lists it builds from the lines.            *)

\* Mutant of CommentOut: the try_ lines would be kept.
CommentOut_Keep(l) == l

\* write_back_lines: one line for each line.
CommentOut(l) == IF l.kind = "try" THEN [l EXCEPT !.kind = "note"] ELSE l
WriteBack(lines) == [i \in DOMAIN lines |-> CommentOut(lines[i])]


\* Mutant of Absorb: a later plain setting would win over the try_ one.
Absorb_PlainWins(eff, l) ==
    LET kind == IF l.kind = "try" THEN "set" ELSE l.kind
        at   == SelectInSeq(eff, LAMBDA e : e.kind = kind /\ e.key = l.key)
    IN  IF l.kind = "group" \/ at = 0 THEN Append(eff, [l EXCEPT !.kind = kind])
        ELSE [eff EXCEPT ![at].val = l.val]

\* One line joins effective_config: a try_ line takes the place of the setting
\* it names, a plain one stays behind what is there, a header is appended.
Absorb(eff, l) ==
    LET kind == IF l.kind = "try" THEN "set" ELSE l.kind
        at   == SelectInSeq(eff, LAMBDA e : e.kind = kind /\ e.key = l.key)
    IN  IF l.kind = "group" \/ at = 0 THEN Append(eff, [l EXCEPT !.kind = kind])
        ELSE IF l.kind = "try" THEN [eff EXCEPT ![at].val = l.val]
        ELSE eff

Effective(lines) == FoldLeft(Absorb, <<>>, lines)

-----------------------------------------------------------------------------
(* External: toml::from_str::<LocalConfig>.                                *)

\* The table the line at i belongs to.
Section(eff, i) ==
    LET headers == {j \in 1 .. i : eff[j].kind = "group"}
    IN  IF headers = {} THEN "none" ELSE eff[Max(headers)].key

Fields(eff, k) ==
    {i \in DOMAIN eff : /\ eff[i].kind = "set" /\ eff[i].key = k
                        /\ Section(eff, i) = GroupOf(k)}

\* A value that is none, a table given twice, or a [user] table without the
\* one field of UserConfig, which has no default of its own.
Malformed(eff) ==
    \/ \E i \in DOMAIN eff : eff[i].kind = "set" /\ eff[i].val = "bad"
    \/ \E i, j \in DOMAIN eff : i # j /\ eff[i].kind = "group" /\ eff[i] = eff[j]
    \/ /\ \E i \in DOMAIN eff : eff[i] = Header("user")
       /\ Fields(eff, "username") = {}

\* Every other field has a default; what is not a field is ignored.
Deserialize(eff) ==
    [k \in Setting |-> IF Fields(eff, k) = {} THEN "default"
                       ELSE eff[Max(Fields(eff, k))].val]

-----------------------------------------------------------------------------
Init ==
    /\ rooted = FALSE /\ file = NoFile /\ bak = NoFile
    /\ pc = "off" /\ text = <<>> /\ written = 0 /\ config = Defaults
    /\ trials = 0 /\ edits = 0 /\ kills = 0 /\ faults = 0

\* A failing file operation is charged to the budget.
Fault == faults < MaxFaults /\ faults' = faults + 1 /\ UNCHANGED <<edits, kills>>

ProcessGone ==
    /\ pc' = "off" /\ text' = <<>> /\ written' = 0 /\ config' = Defaults
    /\ UNCHANGED <<disk, trials>>

\* android_main calls ApplicationContext::build first.
StartApp ==
    /\ pc = "off" /\ pc' = "read"
    /\ UNCHANGED <<disk, text, written, config, trials, bounds>>

ReadFile ==
    /\ pc = "read" /\ file # NoFile
    /\ text' = file /\ pc' = "truncate"
    /\ UNCHANGED <<disk, written, config, trials, bounds>>

\* Nothing to read, or nothing that can be read: the defaults are saved, and an
\* empty text, which is what parse_config then parses, has them in effect.
ReadNothing ==
    /\ pc = "read"
    /\ \/ file = NoFile /\ UNCHANGED bounds
       \/ file # NoFile /\ Fault
    /\ config' = Defaults /\ pc' = "save"
    /\ UNCHANGED <<disk, text, written, trials>>

\* Opening the file for the rewrite empties it.  No failure is looked at.
Truncate ==
    /\ pc = "truncate"
    /\ \/ file' = <<>> /\ pc' = "rewrite" /\ UNCHANGED bounds
       \/ file' = file /\ pc' = "parse" /\ Fault
    /\ written' = 0
    /\ UNCHANGED <<rooted, bak, text, config, trials>>

RewriteLine ==
    /\ pc = "rewrite" /\ written < Len(text)
    /\ \/ /\ file' = Append(file, WriteBack(text)[written + 1])
          /\ written' = written + 1
          /\ UNCHANGED <<pc, bounds>>
       \/ pc' = "parse" /\ Fault /\ UNCHANGED <<file, written>>
    /\ UNCHANGED <<rooted, bak, text, config, trials>>

RewriteDone ==
    /\ pc = "rewrite" /\ written = Len(text)
    /\ pc' = "parse"
    /\ UNCHANGED <<disk, text, written, config, trials, bounds>>

HasTry(lines) == \E i \in DOMAIN lines : lines[i].kind = "try"

\* from_str is Ok.  A session that runs under a try_ line is counted.
ParseOk ==
    /\ pc = "parse" /\ ~Malformed(Effective(text))
    /\ config' = Deserialize(Effective(text)) /\ pc' = "session"
    /\ trials' = IF HasTry(text) THEN trials + 1 ELSE trials
    /\ UNCHANGED <<disk, text, written, bounds>>

\* from_str is Err: the defaults, and they are saved.
ParseErr ==
    /\ pc = "parse" /\ Malformed(Effective(text))
    /\ config' = Defaults /\ pc' = "save"
    /\ UNCHANGED <<disk, text, written, trials, bounds>>

-----------------------------------------------------------------------------
(* save_config.                                                            *)

\* Without a Linux root it leaves the disk alone.
SaveRefused ==
    /\ pc = "save" /\ ~rooted
    /\ pc' = "session"
    /\ UNCHANGED <<disk, text, written, config, trials, bounds>>

\* Mutants of SaveBackup: it would not look for the Linux root; it would not
\* keep the old file.
SaveBackup_Anywhere ==
    /\ pc = "save"
    /\ bak' = IF file # NoFile THEN file ELSE bak
    /\ file' = NoFile /\ pc' = "create"
    /\ UNCHANGED <<rooted, text, written, config, trials, bounds>>

SaveBackup_Forget ==
    /\ pc = "save" /\ rooted
    /\ pc' = "create"
    /\ UNCHANGED <<disk, text, written, config, trials, bounds>>

\* An existing file is renamed; if that fails, only a warning is logged.
SaveBackup ==
    /\ pc = "save" /\ rooted
    /\ \/ /\ bak' = IF file # NoFile THEN file ELSE bak
          /\ file' = NoFile /\ UNCHANGED bounds
       \/ file # NoFile /\ Fault /\ UNCHANGED <<file, bak>>
    /\ pc' = "create"
    /\ UNCHANGED <<rooted, text, written, config, trials>>

\* fs::write: the file is created or emptied, then written in one piece.
SaveCreate ==
    /\ pc = "create"
    /\ file' = <<>> /\ pc' = "fill"
    /\ UNCHANGED <<rooted, bak, text, written, config, trials, bounds>>

SaveFill ==
    /\ pc = "fill"
    /\ file' = DefaultFile /\ pc' = "session"
    /\ UNCHANGED <<rooted, bak, text, written, config, trials, bounds>>

\* A pb_expect of save_config fires on the main thread.
SavePanics == pc \in {"create", "fill"} /\ Fault /\ ProcessGone

-----------------------------------------------------------------------------
(* The rest of the app, the user and Android.                              *)

\* External to this file: setup_arch_fs moves the Linux root into place.
InstallRoot ==
    /\ pc = "session" /\ ~rooted
    /\ rooted' = TRUE
    /\ UNCHANGED <<file, bak, pc, text, written, config, trials, bounds>>

\* The user saves the file from an editor inside the desktop.
Edit ==
    /\ pc = "session" /\ file # NoFile /\ edits < MaxEdits
    /\ file' \in UserFiles
    /\ trials' = 0 /\ edits' = edits + 1
    /\ UNCHANGED <<rooted, bak, pc, text, written, config, kills, faults>>

\* The session is over.
Close == pc = "session" /\ ProcessGone /\ UNCHANGED bounds

\* The process dies during a start.
Kill ==
    /\ pc \notin {"off", "session"} /\ kills < MaxKills
    /\ ProcessGone
    /\ kills' = kills + 1 /\ UNCHANGED <<edits, faults>>

Next ==
    \/ StartApp \/ ReadFile \/ ReadNothing
    \/ Truncate \/ RewriteLine \/ RewriteDone \/ ParseOk \/ ParseErr
    \/ SaveRefused \/ SaveBackup \/ SaveCreate \/ SaveFill \/ SavePanics
    \/ InstallRoot \/ Edit \/ Close \/ Kill

Spec == Init /\ [][Next]_vars

-----------------------------------------------------------------------------
(* What the comments of config.rs promise, read off the text itself.       *)

\* Where a setting is mentioned, plainly or as a try_ line.
Mentions(t, k) ==
    {i \in DOMAIN t : t[i].kind \in {"set", "try"} /\ t[i].key = k}
Tries(t, k) == {i \in Mentions(t, k) : t[i].kind = "try"}

\* config.rs:25-26, "If a key exists multiple time, the first entry is
\* applied", "If a `try_` config exsists multiple time, the last entry is".
Chosen(t, k) ==
    t[IF Tries(t, k) # {} THEN Max(Tries(t, k)) ELSE Min(Mentions(t, k))].val

\* A setting counts in the group in which it is mentioned first.
Given(t, k) ==
    /\ Mentions(t, k) # {}
    /\ Section(t, Min(Mentions(t, k))) = GroupOf(k)

\* Not TOML, whatever the settings mean.
Broken(t) ==
    \/ \E k \in Setting : Mentions(t, k) # {} /\ Chosen(t, k) = "bad"
    \/ \E i, j \in DOMAIN t : i # j /\ t[i].kind = "group" /\ t[i] = t[j]

UserGroupIncomplete(t) ==
    /\ \E i \in DOMAIN t : t[i] = Header("user")
    /\ ~Given(t, "username")

Promised(t, k) == IF Given(t, k) THEN Chosen(t, k) ELSE "default"

-----------------------------------------------------------------------------
(* Properties.                                                             *)

Pcs == {"off", "read", "truncate", "rewrite", "parse", "save", "create",
        "fill", "session"}

\* The shape of the state; a rewrite in progress has written what it counts.
DiskTypeOK ==
    /\ rooted \in BOOLEAN
    /\ file \in Seq(Line) \cup {NoFile} /\ bak \in Seq(Line) \cup {NoFile}
    /\ pc \in Pcs /\ text \in Seq(Line) /\ written \in 0 .. Len(text)
    /\ trials \in Nat
    /\ edits \in 0 .. MaxEdits /\ kills \in 0 .. MaxKills
    /\ faults \in 0 .. MaxFaults

TypeOK ==
    /\ DiskTypeOK
    /\ config \in [Setting -> Values \cup {"default"}]

\* A session runs under exactly the settings of the text that was read: the
\* last try_ line, else the first plain one, else the default; and under the
\* defaults altogether if the text is malformed (config.rs:94-205).
AppliesText ==
    pc = "session" =>
        \A k \in Setting :
            config[k] = IF Broken(text) \/ UserGroupIncomplete(text)
                        THEN "default" ELSE Promised(text, k)

\* However starts, kills and edits follow each other, what the user asks to
\* try is in effect for one session at most, until it is asked for again; a
\* rewrite that fails, which nobody looks at, is the only exception.
TrialOnce == faults = 0 => trials <= 1

\* The configuration never makes the Linux root non-empty, which setup would
\* take for a finished installation (the guard of save_config).
RootOnlyBySetup == file # NoFile \/ bak # NoFile => rooted

\* A start that gets through has kept every line the user wrote, in order,
\* the try_ lines as comments: in the file if it could be parsed, else in the
\* backup.
StartKeepsText ==
    [][(pc \notin {"off", "session"} /\ pc' = "session" /\ faults = 0
            /\ text # <<>>)
        => WriteBack(text) = IF Malformed(Effective(text)) THEN bak' ELSE file']_vars

\* config.rs:38, "make sure that every config group has a
\* `#[serde(default)]` attribute to avoid invalid sections breaking unrelated
\* parts of the config": the commands given are in effect, whatever the
\* [user] group lacks.
SectionsIndependent ==
    pc = "session" /\ ~Broken(text) =>
        \A k \in Setting \ {"username"} : config[k] = Promised(text, k)

-----------------------------------------------------------------------------
(* The inductive invariant behind RootOnlyBySetup, TrialOnce and            *)
(* StartKeepsText.                                                         *)

\* A start begins without a text; one that rewrites has a file to rewrite,
\* one that saves has a root.
StartInv ==
    /\ RootOnlyBySetup
    /\ pc \in {"off", "read"} => text = <<>>
    /\ pc \in {"truncate", "rewrite", "parse"} => file # NoFile
    /\ pc \in {"create", "fill"} => rooted

\* What the lines that were read have become so far.
TextInv ==
    /\ pc = "rewrite" => /\ Len(file) = written
                         /\ \A i \in 1 .. written : file[i] = WriteBack(text)[i]
    /\ pc = "parse" => file = WriteBack(text)
    /\ pc \in {"save", "create", "fill"} /\ text # <<>>
          => /\ Malformed(Effective(text))
             /\ WriteBack(text) = IF pc = "save" THEN file ELSE bak

\* Once a trial has been run there is no try_ line left that could start a
\* second one, neither on the disk nor in what is about to be parsed.
TrialInv ==
    /\ trials <= 1
    /\ trials = 1 => file = NoFile \/ ~HasTry(file)
    /\ trials = 1 /\ pc \in {"truncate", "rewrite", "parse"} => ~HasTry(text)

ConfigInv ==
    /\ DiskTypeOK /\ StartInv
    /\ faults = 0 => TextInv /\ TrialInv
=============================================================================
