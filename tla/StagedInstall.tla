--------------------------- MODULE StagedInstall ---------------------------
(***************************************************************************)
(* What the installation promises, without its threads, files and faults.  *)
(*                                                                         *)
(* A number of stages is completed one after the other, and what is        *)
(* completed stays completed over every restart ("Setup is a process that  *)
(* should be done only once", src/src/android/proot/setup.rs:44).  A       *)
(* session looks at what is done: it either opens the desktop, which takes *)
(* all stages, or installs, and then it never turns into a desktop session *)
(* itself but has to be started again.                                     *)
(***************************************************************************)
EXTENDS Naturals

CONSTANT Stages         \* number of stages whose effect is durable

VARIABLES
    done,       \* stages completed, on disk
    session     \* what the running process does

vars == <<done, session>>

Init == done = 0 /\ session = "off"

Open ==
    /\ session = "off" /\ session' = "checking"
    /\ UNCHANGED done

\* Something is missing: this session installs.
StartInstall ==
    /\ session = "checking" /\ done < Stages
    /\ session' = "installing"
    /\ UNCHANGED done

CompleteStage ==
    /\ session = "installing" /\ done < Stages
    /\ done' = done + 1
    /\ UNCHANGED session

\* Everything was there when the session began.
EnterDesktop ==
    /\ session = "checking" /\ done = Stages
    /\ session' = "desktop"
    /\ UNCHANGED done

Close ==
    /\ session # "off" /\ session' = "off"
    /\ UNCHANGED done

Next == Open \/ StartInstall \/ CompleteStage \/ EnterDesktop \/ Close

Spec == Init /\ [][Next]_vars
=============================================================================
