--------------------------- MODULE DesktopLaunch ---------------------------
(***************************************************************************)
(* launch(), which every Resumed of the Wayland backend calls: a thread    *)
(* that removes the files a killed X server leaves behind and starts the   *)
(* default launch command, which starts Xwayland on display :1, waits for  *)
(* its socket and starts the desktop session.  The processes run side by   *)
(* side; Xwayland and the session are modelled from how the command uses   *)
(* them.                                                                   *)
(***************************************************************************)
EXTENDS Naturals

CONSTANTS
  MaxLaunches \* bound on the calls of launch()

ASSUME MaxLaunchesAssumption == MaxLaunches \in Nat

Launches == 1 .. MaxLaunches

VARIABLES
  thread,   \* each launch's thread: what it starts next
  removing, \* the `rm -f` processes that run
  lock,     \* /tmp/.X1-lock: absent, left over, or the launch it belongs to
  socket,   \* /tmp/.X11-unix/X1, likewise
  server,   \* each launch's Xwayland
  shell,    \* each launch's shell: the session, once it starts one
  disturbed \* history: a removal came after its command or hit a live server

vars == <<thread, removing, lock, socket, server, shell, disturbed>>

(* The owner of a file: a launch, or none of this process. *)
Absent == 0
Leftover == MaxLaunches + 1
Files == {Absent, Leftover} \cup Launches
Removals == Launches \X {"lock", "socket"}

TypeOK ==
  /\ thread \in [Launches -> {"idle", "rm lock", "rm socket", "command", "with_log"}]
  /\ removing \subseteq Removals
  /\ lock \in Files /\ socket \in Files
  /\ server \in [Launches -> {"no", "starting", "locked", "listening", "failed"}]
  /\ shell \in [Launches -> {"no", "waiting", "starting", "connected", "failed"}]
  /\ disturbed \in BOOLEAN

Init ==
  /\ thread = [l \in Launches |-> "idle"]
  /\ removing = {}
  /\ lock \in {Absent, Leftover} /\ socket \in {Absent, Leftover}
  /\ server = [l \in Launches |-> "no"]
  /\ shell = [l \in Launches |-> "no"]
  /\ disturbed = FALSE

-----------------------------------------------------------------------------
(* The thread. *)

(* resumed() spawns the threads one after the other. *)
Launch(l) ==
  /\ thread[l] = "idle" /\ \A m \in 1 .. l - 1 : thread[m] # "idle"
  /\ thread' = [thread EXCEPT ![l] = "rm lock"]
  /\ UNCHANGED <<removing, lock, socket, server, shell, disturbed>>

(* ArchProcess::exec starts a process and does not wait for it. *)
ExecRmLock(l) ==
  /\ thread[l] = "rm lock"
  /\ removing' = removing \cup {<<l, "lock">>}
  /\ thread' = [thread EXCEPT ![l] = "rm socket"]
  /\ UNCHANGED <<lock, socket, server, shell, disturbed>>

(* Mutant: the socket is not removed. *)
ExecRmSocket_Forgotten(l) ==
  /\ thread[l] = "rm socket"
  /\ thread' = [thread EXCEPT ![l] = "command"]
  /\ UNCHANGED <<removing, lock, socket, server, shell, disturbed>>

ExecRmSocket(l) ==
  /\ thread[l] = "rm socket"
  /\ removing' = removing \cup {<<l, "socket">>}
  /\ thread' = [thread EXCEPT ![l] = "command"]
  /\ UNCHANGED <<lock, socket, server, shell, disturbed>>

(* The command: Xwayland in the background, the shell waits for its socket. *)
ExecCommand(l) ==
  /\ thread[l] = "command"
  /\ thread' = [thread EXCEPT ![l] = "with_log"]
  /\ server' = [server EXCEPT ![l] = "starting"]
  /\ shell' = [shell EXCEPT ![l] = "waiting"]
  /\ UNCHANGED <<removing, lock, socket, disturbed>>

-----------------------------------------------------------------------------
(* The processes. *)

Remove(l, file) ==
  /\ <<l, file>> \in removing
  /\ removing' = removing \ {<<l, file>>}
  /\ IF file = "lock" THEN lock' = Absent /\ UNCHANGED socket
                      ELSE socket' = Absent /\ UNCHANGED lock
  /\ disturbed' = \/ disturbed \/ thread[l] = "with_log"
                  \/ (IF file = "lock" THEN lock ELSE socket) \in Launches
  /\ UNCHANGED <<thread, server, shell>>

(* Xwayland keeps off a display whose lock names a process that runs, which a
   leftover lock may do too, its number being someone else's by now. *)
TakeLock(l) ==
  /\ server[l] = "starting"
  /\ \/ /\ lock \in {Absent, Leftover}
        /\ lock' = l /\ server' = [server EXCEPT ![l] = "locked"]
     \/ /\ lock # Absent
        /\ server' = [server EXCEPT ![l] = "failed"] /\ UNCHANGED lock
  /\ UNCHANGED <<thread, removing, socket, shell, disturbed>>

Listen(l) ==
  /\ server[l] = "locked"
  /\ server' = [server EXCEPT ![l] = "listening"]
  /\ socket' = l
  /\ UNCHANGED <<thread, removing, lock, shell, disturbed>>

(* `while [ ! -e /tmp/.X11-unix/X1 ]` ends. *)
SocketExists(l) ==
  /\ shell[l] = "waiting" /\ socket # Absent
  /\ shell' = [shell EXCEPT ![l] = "starting"]
  /\ UNCHANGED <<thread, removing, lock, socket, server, disturbed>>

(* startxfce4 opens display :1. *)
OpenDisplay(l) ==
  /\ shell[l] = "starting"
  /\ shell' = [shell EXCEPT ![l] = IF socket \in Launches THEN "connected"
                                                          ELSE "failed"]
  /\ UNCHANGED <<thread, removing, lock, socket, server, disturbed>>

Started(l) ==
  \/ ExecRmLock(l) \/ ExecRmSocket(l) \/ ExecCommand(l)
  \/ \E file \in {"lock", "socket"} : Remove(l, file)
  \/ TakeLock(l) \/ Listen(l) \/ SocketExists(l) \/ OpenDisplay(l)

Next == \E l \in Launches : Launch(l) \/ Started(l)

(* The thread and every process it starts make progress; that Android shows
   another window is not assumed. *)
Fairness == \A l \in Launches :
  /\ WF_vars(ExecRmLock(l)) /\ WF_vars(ExecRmSocket(l)) /\ WF_vars(ExecCommand(l))
  /\ \A file \in {"lock", "socket"} : WF_vars(Remove(l, file))
  /\ WF_vars(TakeLock(l)) /\ WF_vars(Listen(l))
  /\ WF_vars(SocketExists(l)) /\ WF_vars(OpenDisplay(l))

Spec == Init /\ [][Next]_vars /\ Fairness

-----------------------------------------------------------------------------
(* Properties. *)

(* When the removals of a launch end before its command starts and hit no file
   of a live server, every launch's session gets onto a display, whatever an
   earlier process left behind (launch.rs:7-18). *)
SessionStarts ==
  \A l \in Launches :
    thread[l] = "with_log" ~> shell[l] = "connected" \/ disturbed

(* launch.rs:7: "Clean up potential leftover files for display :1".  The
   session is started by a leftover socket that is still to be removed. *)
LeftoverIgnored ==
  [][\A l \in Launches : SocketExists(l) => socket # Leftover]_vars

=============================================================================
