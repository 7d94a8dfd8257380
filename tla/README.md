# Local Desktop: a TLA+ model with proofs

Local Desktop is an Android app that installs an Arch Linux root into its data
directory, runs a desktop in it under PRoot, and shows that desktop through a
Wayland compositor of its own.  This directory models the app's own code
(`src/src`, about 3400 lines of Rust, and the progress page in `src/assets`),
and those parts of the patched libraries in `src/patches` that its behaviour
hangs on: winit's Android event loop, and smithay's seat, surfaces, xdg_shell
and serials.  The rest of `src/patches` is not run by the app, or only appears
through its use.

    tlc -workers 2 -config Setup.cfg Setup          # any run below
    tlapm SetupProofs.tla       # the proofs; likewise ConfigProofs, LifecycleProofs,
                                # SeatProofs, SurfaceProofs, XdgProofs, ProcessProofs
                                # and DataLemmas

## Inventory

| Component | State | Operations | Talks to | What is hard |
|---|---|---|---|---|
| Installation pipeline, `android/proot/setup.rs` | the disk (archive, unpacked tree, Linux root, `/proc` files, packages, Firefox files, xkb link); a progress counter; a message channel | five stages, a worker thread for the first three, the pipeline thread that joins them | channel and counter to the page's server; commands through ArchProcess; builds one of the two backends | restarts at any point decide from the disk alone; retries; panics of threads |
| Progress reporting, `android/backend/webview.rs`, `assets/setup-progress.html` | `active_client`, the shared receiver, what the page shows | accept, reject, forward, disconnect | reads channel and counter; page over a WebSocket | locks held over loops, a lock poisoned by a panic, stale counter, lost messages |
| ArchProcess, `android/proot/process.rs` | a child and its pipes | `spawn`, `with_log`, `wait`, `exec_with_panic_on_error` | PRoot | end of output against exit, pipes nobody drains |
| Process start, `android/main.rs`, `app/build.rs` | - | build context, build app, run the loop | everything | order: the configuration is parsed before the root exists |
| Configuration, `core/config.rs` | the file in the Linux root, its `.bak` | `process_config_file`, `parse_config`, `save_config` | read at start, used by stage 3 and the launch | `try_` keys apply once; rewriting is not atomic; defaults against partial groups |
| Desktop launch, `proot/launch.rs`, `app/run.rs` | the X server's lock and socket, the outputs in the space | `resumed`, `launch` | ArchProcess, compositor | commands nobody waits for; `resumed` more than once |
| Wayland compositor, `backend/wayland/{compositor,bind,mod,element}.rs` | toplevels, clients, seat, output size | `build`, handlers, redraw | clients over the socket, winit, smithay | sizes that change, frame callbacks, clients that never leave the list |
| Input, `backend/wayland/{event_centralizer,event_handler,input,keymap}.rs` | key counter, touch slots, pointer focus, scale factor | `centralize`, `handle` | winit's events in, smithay's seat out | events ignored (cancel, focus loss), surfaces that go under a finger |
| EGL window backend, `backend/wayland/winit_backend.rs` | EGL surface, damage, scale | bind, resize, submit | EGL | surface of a window that is gone |
| winit's Android loop, `patches/winit/src/platform_impl/android/mod.rs` | running, the redraw flag, a pending redraw | one iteration per event of Android | the app's handlers | a Redraw across pauses and windows |
| smithay's surfaces, `patches/smithay/src/wayland/compositor`, `backend/renderer/utils/wayland.rs` | pending, cached and current state, transactions, buffers | `attach`, `commit`, `set_sync`, frame callbacks | clients; the app's `commit` and redraw | commits that wait for a parent, modes that change meanwhile |
| smithay's xdg_shell, `patches/smithay/src/wayland/shell/xdg` | role attributes, configures pending, acked and current | `get_toplevel`, `ack_configure`, commit hooks, `destroy` | clients; the app's `new_toplevel`, `commit` | late acks, attributes that outlive their role object, serials that wrap |
| smithay's seat, `patches/smithay/src/input`, `utils/serial.rs` | slots, focus, grabs, pressed buttons and keys | `down`, `up`, `motion`, `button`, `input` | the app's `handle`, clients | grabs that count, surfaces that die under them |
| Application context, JNI helpers, logging | one value, written once | - | - | - |

What makes each correct, as stated or to be stated here:

* the pipeline: an incomplete stage is never taken for a complete one; a kill
  never makes a later start fail; the counter and the final message are true;
  it ends;
* the page: what it shows is true, in order and complete while it stays
  connected; it learns how the installation ended;
* the configuration: no start loses what the user wrote; a `try_` key applies
  exactly once; one broken group does not reset the other;
* the launch: a session gets onto a display whatever a killed server left;
* a command: the call comes back and no line of it is lost;
* the event loop: frames go on being asked for over pauses and new windows, and
  are drawn on the window that is there; every client is accepted;
* the input: what goes down comes up; a finger, button or key reaches the
  surface it should, and no other client takes it to be down;
* the surfaces: every frame is called back once, no buffer is lost, and none is
  released that is still in use; what waits for a parent appears with it and not before;
* the shell: configures are acknowledged and become current in the order they
  were sent, none loses the size, every new toplevel is told its first one.

## Modules

| Module | Models |
|---|---|
| `StagedInstall` | the promise: stages completed one by one for good, a desktop only after all of them and only in a fresh session |
| `Setup` | `setup.rs`: the main thread, the pipeline thread, the worker of the current stage, the install command as an external process, kills and faults |
| `Installer` | `Setup` together with `webview.rs` and the page: acceptor, client threads, locks, connections |
| `SetupProofs` | the theorems about `Setup` and `Installer` |
| `ConfigFile` | `config.rs`: the lines of the configuration, its rewrite, its backup, over starts, edits and kills |
| `MCConfigFile` | the files the runs of `ConfigFile` give to the user |
| `ConfigProofs` | the theorems about `ConfigFile` |
| `DesktopLaunch` | `launch()`'s thread, the processes it starts, Xwayland's files, for every window that resumes |
| `Process` | `ArchProcess`: a command, its two pipes and the five ways to call it |
| `ProcessProofs` | the theorems about `Process` |
| `Lifecycle` | winit's loop, `resumed`, `bind`, the Redraw step, the outputs and the pointer's position |
| `LifecycleProofs` | the theorems about `Lifecycle` |
| `Seat`, `MCSeat` | `centralize`, `handle` and smithay's touch, pointer and keyboard state; the keyboard the run uses |
| `SeatProofs` | the theorems about `Seat` |
| `SurfaceTree` | surfaces of a chain of subsurfaces: cache, transactions, buffers, frame callbacks |
| `SurfaceProofs` | the theorems about `SurfaceTree` |
| `Serial` | the serial counter and the order of serials |
| `XdgShell` | extends `Serial`: toplevels and popups from their creation to what is current |
| `XdgProofs` | the theorems about `XdgShell` and the order of serials |
| `Retaining` | the part of a sequence at given positions (`Vec::retain`, `filter`), in a form that can be proved about |
| `DataLemmas` | lemmas several of the proofs need: induction over numbers, least and greatest elements, folds, `Retain` |

### Setup

The variables come in four groups.  *Disk*: `archive` (absent, bad, whole),
`extracted` and `fsRoot` (absent, partial, whole; absent stands for "missing or
empty", which the code does not tell apart), `procFiles`, `deps`, `dbLock`,
`firefox`, `xkb`.  *Control*: `mainPc`, `pipePc`, `worker` are where the main
thread, the pipeline thread and the worker of the current stage are; `cursor`
is the stage being called, by main first and by the pipeline from then on.
*Shared*: `progress`, `sent` (all messages ever put in the channel; `Installer`
keeps how many are taken), `receiver` (whether sending succeeds).  *Bounds*:
`faults`, `restarts`.

Each action is one step between two points where another thread or a kill can
be seen: one read of the body, one file of the simulated `/proc`, the removal
of the xkb link and its recreation apart.  The stage functions are called by
whichever thread runs the loop, so the actions of the caller take it as a
parameter `c` ("main" or "pipe").  `send(..).pb_expect(..)` is `MustSend`: it
panics the worker when the receiver is gone; `.unwrap_or(())` is a plain `Push`.

Adverse outcomes are drawn from `MaxFaults`: a download cut short, a failing
extraction, `rm`, `pacman`, symlink or bind, a panic where the code has
`pb_expect`, `unwrap` or `panic!`, the loss of the receiver.  Kills are drawn from
`MaxRestarts`, apart, because the code must cope with any number of them:
`CleanRecovery` is about behaviours with kills and no fault.

The install command is external (`PacmanUnpacks`, `PacmanCommits`,
`PacmanAborts`): it takes the lock when it starts, puts the xkb link in place
with either kind of target, then records its packages and releases the lock, or
stops before with or without releasing it.  It goes on when its reader panics,
and dies with the process.

`Compositor::build` needs the xkb data under the Linux root (libxkbcommon is
built with `-Dxkb-config-root=/data/data/app.polarbear/files/arch/usr/share/X11/xkb`,
`patches/build-libxkbcommon/Dockerfile:48`), which only a relative link reaches
from outside; otherwise its `pb_expect` ends the process.

### Installer

Extends `Setup`: every step of it is a step here (`InstallStep`), except that
the receiver is now lost for its real reason, when the acceptor has panicked
and no client thread is left (`ReceiverKept`).  `conn[p]` and `client[p]` are
the connection and the server's thread of the p-th page loaded, `taken` counts
the messages taken, `stamp` is the counter as the thread read it, `page[p]`
what the page shows.  Taking a message, reading the counter and sending are
three steps, as other threads run in between.  A closed connection is only
noticed by a failing send, and the first send after it may still succeed.

### ConfigFile

A line is a record of its kind (a group's header, a plain setting, a `try_`
setting, a `try_` setting that was commented out), its key and its value; a
value is opaque but for "bad", which is no TOML.  `Effective` is the fold that
`process_config_file` makes over the lines, `WriteBack` the list it writes back,
`Malformed` and `Deserialize` are what `toml` and `serde` make of the result.
`rooted` says whether `ARCH_FS_ROOT` is non-empty; it is the link to `Setup`,
whose `MoveRoot` appears here as `InstallRoot`.  `pc` follows one start: read,
truncate, rewrite line by line, parse, and `save_config`'s rename, create and
write, each apart, since a kill or a failing operation can come between.  The
rewrite's result is dropped by the code (`let _ =`), so a failure goes on to the
parse.  A read that fails, also of a file that is there, is taken like a missing
file (`ReadNothing`): the defaults replace it.  `text` is what was read,
`trials` counts the sessions run under a `try_` line since the user last edited the file.

### DesktopLaunch

`thread[l]` is where the thread of the l-th `launch()` is; `removing` holds the
`rm -f` processes that still run, as `exec()` starts them and does not wait.
`lock` and `socket` are the two files, absent, left by a killed server, or a
launch's own.  The launch command (`config.rs:74-77`) is Xwayland in the
background (`server`) and a shell that waits for the socket and starts the
session (`shell`).  Xwayland, `rm` and the session are external.  Xwayland may
refuse a leftover lock, whose number may be another process's by now.
`disturbed` is history: a removal that ended after its launch's command had
started, or hit the file of a live server.

### Process

The pipes are sequences of at most `Capacity` lines.  `Piped` says which streams
the child has on a pipe (stderr only under `panic_on_error`), `Reads` which the
call reads.  A line may be no UTF-8, which `with_log()` unwraps, or PRoot's own
error, for which `exec_with_panic_on_error()` looks.  When the caller is gone
the pipes are closed and the next write ends the command.

### Lifecycle

One action is one event of Android and with it one iteration of winit's loop:
the app's handler, then, if the app runs and a redraw is due, the whole `Redraw`
of `handle()` (`EndIteration`, `Redraw`).  Variables have the code's names:
`running`, `pendingRedraw`, `redrawFlag` are winit's, `scaleFactor`, `size`,
`outputs`, `clients` the app's, `rendererWindow` is the window the renderer was
bound to.  `window`, `width`, `scale`, `asked` are Android's, `backlog` is what
waits in the listening socket.  `drew` says whether the last iteration drew, and
on a window that was there or not.  A panic ends the process.  Widths stand for
sizes.

### Seat

One action is one input event of Android, taken through winit, `centralize()`,
`handle()` and smithay's seat to the clients.  `fingers`, `held` and `keys` are
what is really down; `slotFocus`, `touchGrab`, `ptrFocus`, `pressed`, `clickGrab`,
`kbdFocus`, `forwarded` are the seat's state; `touchSeen`, `buttonsSeen`,
`keysSeen` what each client was told and takes to be down.  Clients make and
destroy toplevels and surfaces between any two events.  `lost` counts the ends of
gestures the code does not pass on (a `TouchCancel`, a finger lifted while there
is no toplevel, a cancelled drag of several buttons), up to `MaxLost`.  The key
table is abstracted to which keys share a scancode: those it does not know do.
A *stray* finger is one that the grab counts off although it was not on the grab's surface: it went down before there
was a toplevel, or on a surface that has died since.  `stray` is history: such a one
lifted since the screen was last empty.

A client destroys a toplevel before its surface (`DestroySurface`).  That is the
client's duty by the protocol; the code does not enforce it.

### SurfaceTree

Surface 1 is the toplevel, s + 1 the subsurface of s.  `pending`, `cache` and
`current` are the three stages of `SurfaceAttributes`, `txid` and `tx` the
transaction a surface builds up.  `Commit` is all of
`PrivateSurfaceData::commit`: it takes the synchronized subsurfaces along
(`CommitSync`), hands transactions up (`HandUp`), and, where nothing holds the
surface back, applies the transaction one surface after the other (`ApplyState`,
which makes every cached commit up to the transaction's id current, oldest first),
each followed by `on_commit_buffer_handler` (`OnCommit`).  Those are operators on a record of
the surface state (`World`), as one request makes many of these steps.  `Attach`,
`Frame`, `Commit` and `SetSync` are the client's requests, in any order: a second
`Attach` before a commit overwrites the first, one of "removed" stands for
`wl_surface.attach` without a buffer, and a buffer may be attached again while the
server has it (`reused` says of which surfaces that was so at a commit).  A buffer is
the client's (`idle`) until a commit takes it, and again once it is released; one that
is overwritten before a commit never was the server's.  Those in `Unreadable` are
the ones `buffer_dimensions()` makes nothing of; they reset what is shown and are
dropped without a release.  Frame callbacks are numbered in the order they came.  No
acquire fence blocks a transaction, as the app adds none.

### XdgShell and Serial

`att[s]` are the role attributes: configures pending, the last acknowledged, the
current one, and the two flags of the commit hook.  `inbox[s]` are the configures
the client has not come to, `phase[s]` what it is about.  Configures go to the
xdg_surface, which a client may keep when it destroys the toplevel or popup
(`DestroyRole(s, TRUE)`): `stale` are the surfaces whose inbox may hold configures of an
object that is gone, `refused` those whose client acknowledged one that is no longer
pending and was disconnected.  Every touch, click and key takes a serial from the
counter that configures take theirs from (`TakeSerial`).  The clients keep to the
protocol: they commit once, wait for a configure, acknowledge any of those they
have got, then attach buffers.  The commit hook runs before the renderer sees the
commit's buffer, so it looks at the buffer of the commit before (`drawn`).
`Serial` has the counter's step and the order as operators.  `XdgShell` starts the
counter two before it wraps, so that 0 is skipped and comparisons cross the wrap.

## Runs

| Run | Shows | Bounds |
|---|---|---|
| `setup` (`Setup.cfg`) | types, `RootNeverPartial`, `PredecessorsDone`, `ProgressHonest`, `NeverUnlockLive`, `CleanRecovery`, that `Setup` refines `StagedInstall`, and that an installing session ends (`SetupSettles`) | 1 body chunk, 1 log line, 2 faults, 3 kills |
| `xkb_kill` (`XkbReady.cfg`) | a violation: the lost xkb link is never repaired | 1 kill, no fault |
| `installer` (`Installer.cfg`) | what a page shows is true (`PageHonest`), in order and without gaps (`PageInOrder`); one reader (`OneReader`); messages reach the active client (`MessagesDrain`); a page that stays learns the outcome (`OutcomeShown`) | 2 pages, 1 fault |
| `config_file` (`ConfigFile.cfg`) | which settings apply (`AppliesText`), `TrialOnce`, `RootOnlyBySetup`, `StartKeepsText` | every file of up to 4 lines out of 7, 1 edit, 2 kills, 1 fault |
| `config_sections` (`SectionsIndependent.cfg`) | a violation: an incomplete `[user]` group drops the commands | 1 file, 1 edit |
| `desktop_launch` (`DesktopLaunch.cfg`) | `SessionStarts`: every session gets onto a display unless a removal came late | 2 launches, any leftover files |
| `leftover_socket` (`LeftoverIgnored.cfg`) | a violation: a leftover socket ends the wait for the X server | 1 launch |
| `process` (`Process.cfg`) | `CallReturns`: which calls come back, and which never; `AllSeen`: no line is lost | pipes of 1 line, every command of up to 3 lines of 5 kinds |
| `lifecycle` (`Lifecycle.cfg`) | `RedrawChain`: the next frame stays asked for; `NewWindowDrawn`; `FirstWindowPointer`; `ClientsAccepted` | 3 windows, 2 widths, 2 densities, 2 clients |
| `seat` (`Seat.cfg`) | types; what goes down comes up and the grabs end (`TouchHonest`, `ButtonsHonest`, `KeysHonest`); a finger reaches a live client (`TouchReaches`), a drag stays (`DragStays`) | 2 surfaces, 2 fingers, 2 buttons, 2 keys of one scancode, 1 lost end |
| `surface_tree` (`SurfaceTree.cfg`) | types; `CallbacksConserved`: each frame is called back once; `BuffersAccounted`: no readable buffer is lost, and none is released that the server still has unless the client committed it before its release; `NoTearing`, `AppliedTogether`: what waits for a parent appears with it | a chain of 3, 3 buffers each of which 1 is unreadable; 3 attach or frame requests, 3 commits, 2 mode changes |
| `xdg_shell` (`XdgShell.cfg`) | types; `ConfiguresOrdered`: from sent to current in the order of issue; `AcksAccepted`: no client is disconnected for a late ack of a role object that is there; `SizeKept`; `FirstMap`: a new toplevel is told its first configure | 2 surfaces, 2 sizes, 3 serials taken, serials of 4 bits |

The inductive invariants (`SetupInv`, `InstallerInv`, `ConfigInv`, `SeatInv`, ...)
and `ProgressMonotone` are proved and in no run, since the runs already check
what follows from them; the type invariants of `Installer`, `ConfigFile`,
`Lifecycle`, `DesktopLaunch` and `Process` say what their variables range over and
are in none either.

The bounds are enough for the cases that differ.

* `Setup`: three kills allow one in the download, one in the extraction or between
  rename and removal, and one in a later stage, before the start that reaches the
  desktop.  Two faults allow a failed retry (a bad download and a failing
  extraction after it, an aborted install and a failing `rm` before the next).
  One chunk and one line suffice, as the loops do the same in each round.
* `Installer`: two pages allow a page to be refused, and to be accepted after the
  first is gone; a third meets the same server.
* `ConfigFile`: four lines out of seven put a setting before or after its `try_`
  line, in its own group and in the other, with a value that parses and one that
  does not; two kills let a start be cut short while it repairs what the last one
  left.  What a second edit may do is proved (`ConfigProofs`).
* `DesktopLaunch`: a launch only meets the files of one other.  `Process`: a pipe
  of one line fills at once; three lines fill it, wait, and end.
* `Lifecycle`: with three windows the renderer, the outputs and the redraw flag
  come from different ones; the third finds what the second left of the first.
* `Seat`: two surfaces are the focused and the other, or the dead and the living;
  two fingers or buttons are the one that ends a grab and the one that does not.
  Surfaces and fingers are symmetric: no action tells them apart.
* `SurfaceTree`: with three surfaces one is both parent and child, so that one
  hands on what it was handed; with three commits a new state meets one that waits and
  a third makes both current; three requests for content are a buffer that replaces
  another, is removed, or is attached again after a commit.  The bounds count the
  requests of all surfaces, spread in every way.  The two readable buffers are
  symmetric: no action tells them apart.
* `XdgShell`: three serials give one surface three configures, or two and the other
  one, or put an input event between two configures; the counter starts at 14 of 15, so
  the second comes after the wrap, and 0 is skipped.  At most `Far - 2` may be taken
  (`MaxTakenAssumption`), for configures and input together: `Far` = 7 is the distance below
  which the order is that of issue, and in 32 bits it is 2^31 - 1.

Deadlock is not checked where the system may stop: an app whose installation is
over or whose desktop is shown waits for its user (`Setup`, `Installer`), a
launch ends, a command ends or hangs (`DesktopLaunch`, `Process`), and a panic
ends the process (`Lifecycle`).

Fairness.  Weak fairness of the main thread, the pipeline thread, the worker
and each client thread stands for the operating system's scheduling; of the
install command, for a command that ends; a read of the network ends, if only
by the HTTP client's timeout.  There is none for starting the app, for loading
or closing a page, for a fault or a kill.  `SetupSettles` needs `MaxFaults` to
be finite: the code retries downloads and installs without a limit, so it ends
only if failures do.  `DesktopLaunch` and `Process` have weak fairness of every
thread and process they start, `Process` as far as the pipe lets it; that Android
shows another window is not assumed.  `Lifecycle` has it of the loop's own
iteration, which `ControlFlow::Poll` justifies, and of the first
`RedrawNeeded` Android sends for every window it shows; `ClientsAccepted` is
about behaviours that in the end stay shown.  `XdgShell` has it of a client's
own progress: it comes to its events, acknowledges and commits.  `Seat` and
`SurfaceTree` need none.

### Findings

* **`xkb_kill`.** `fix_xkb_symlink` removes the link (`setup.rs:307`) and then
  creates it (`309`).  A kill in between leaves none; every later start passes
  the stage and panics in `Compositor::build`.  No stage recreates the link,
  as the packages count as installed.  `setup.rs:49-50` promises a finished
  status "if the task is done".
* **`config_sections`.** `username` has no default of its own (`config.rs:45`),
  so a `[user]` group without it makes the whole file malformed, although
  `config.rs:38` wants to keep "invalid sections" from "breaking unrelated parts
  of the config".  A group that only held `try_username` gets there by itself:
  the first start comments the line out, the second resets everything.
* **`leftover_socket`.** The `rm -f` of `/tmp/.X11-unix/X1` is started and not
  waited for (`launch.rs:9`).  The launch command may find the socket a killed
  server left, take it for the new one's and start the session on a display that
  is not there, although the lines are to "Clean up potential leftover files for
  display :1" (`launch.rs:7`).

### Known divergences without a run

The models do what the code does; the following can be seen in them, and the
properties are stated so as not to promise the contrary.

* A kill after `proc/.version`, the fourth of seven files, makes the second stage
  count as finished without the other three for good (`setup.rs:165`); `Post(2)`
  asks for the files up to the marker.
* A kill during the rewrite of the configuration loses the lines not yet written, and
  after a failing write the `try_` lines left apply again, the result being dropped
  (`config.rs:145-152`).  A failing rename is only logged, and the defaults then overwrite
  the user's text (`config.rs:182`).  `StartKeepsText` is about starts that get through,
  `TrialOnce` and `StartKeepsText` about those in which no operation failed.
* The `rm -f` of a launch may hit the lock or socket of that launch's own X server
  (`launch.rs:8-9`); `SessionStarts` excludes it as `disturbed`.
* A touch that is cancelled, or lifted while there is no toplevel, is not passed on
  (`event_handler.rs:210`, `347`): the grab then counts a finger that is gone and
  outlives all others, although `grab.rs:225-226` says "release the grab once all
  are released".  `TouchHonest` is about `lost = 0`.
* The grab counts off every finger that lifts (`grab.rs:244-248`), also one that went down
  before there was a toplevel or on a surface that is gone.  With two others on its
  surface it is then released when the first of those lifts and not, as
  `grab.rs:225-226` says, "once all are released", and a finger put down next may go to
  another surface while one is still down.  `TouchHonest` and so `TouchesComeUp` promise
  the exact count only until such a stray finger was counted off.
* No touch event is followed by a `frame` event, which `touch/mod.rs:340-342` asks
  for after each group.
* There is no `suspended()`: the renderer stays bound to a window that Android has
  taken away and may still draw there (`run.rs:17`, `drew = "dead"`), against
  winit's `application.rs:155-157`.
* Every resumed window maps one more output and the pointer is clamped to the sum
  of all of them (`run.rs:70`, `event_handler.rs:245-259`); `FirstWindowPointer`
  is about the first.  Touch positions are in pixels where smithay expects logical
  coordinates (`event_handler.rs:200`); they are not modelled.
* A change of density before the first window unwraps a renderer that is not there
  (`event_centralizer.rs:63`): `ConfigChanged` panics.
* A parent's commit commits what its synchronized subsurfaces have attached and
  not committed (`tree.rs:268`).  In a transaction a subsurface that comes after
  its parent is applied after the commit handler looked at it
  (`transaction.rs:262`), and shows with the next commit.
* A buffer whose dimensions are not known is taken off the state and dropped without a
  release (`wayland.rs:154-161`): the client never gets it back.  `BuffersAccounted` is
  about the others.
* Only the assignment that follows is compared when a waiting buffer is replaced
  (`handlers.rs:126-138`).  A client that attaches a buffer again before it was released
  may get the release of the one use while the other is cached or on the screen;
  `BuffersAccounted` promises no more to a surface that did (`reused`).
* A client that keeps the xdg_surface of a toplevel it destroyed, and acknowledges a
  configure of that toplevel, is disconnected: the reset of the role attributes
  (`toplevel.rs:156-187`) forgot what was pending (`surface.rs:261-326`).  `AcksAccepted`
  excepts it (`stale`).
* The counter may be 100 for a message that was sent before the last
  (`setup.rs:387`, `webview.rs:56`), and the page then alerts once for each such message.
* A toplevel that is unmapped and mapped again, and every popup, waits for a
  configure the app never sends (`compositor.rs:78-86`, `128`); `FirstMap` is about
  new toplevels.

## Proofs

Every invariant and every action property of the passing runs, and the refinement,
is also a theorem, for all values of the constants.  None of these invariants is
inductive as it stands (but `SeatInv`'s parts, which are so together); each section
says what was added and why.  What a reader should know first:

| Module | Theorems |
|---|---|
| `SetupProofs`, about `Setup` | `Invariance`; `TypeCorrect`, `RootSafe`, `StagesOrdered`, `CounterHonest`, `LockSafe`, `KillsRecoverable`; `CounterMonotone`; `Refinement` |
| `SetupProofs`, about `Installer` | `InstallerInvariance`; `PipelineSafe`, `PipelineMonotone`, `PipelineRefines`; `PagesHonest`, `ReaderUnique`, `PagesInOrder` |
| `ConfigProofs` | `ConfigInvariance`; `TrialsOnce`, `RootLeftAlone`, `TextKept`; `PromiseKept`, `SettingsApplied` |
| `ProcessProofs` | `ProcessInvariance`; `ProcessTyped`, `AllTaken`, `TooMuchNeverReturns` |
| `LifecycleProofs` | `LifecycleInvariance`; `ChainKept`, `DrawnOnWindow`, `PointerOnOutput` |
| `SeatProofs` | `SeatInvariance`; `SeatTyped`, `TouchesComeUp`, `ButtonsComeUp`, `KeysComeUp`; `TouchesReach`, `DragsStay` |
| `SurfaceProofs` | `SurfaceInvariance`; `SurfaceTyped`, `CallbacksKept`, `BuffersKept`; `NothingTears`, `TreeAppliedTogether` |
| `XdgProofs` | `XdgInvariance`; `XdgTyped`, `AcksTaken`, `ConfiguresInOrder`, `SizesKept` |

### Setup and Installer

The assumptions are that the bounds are natural numbers.  `RootNeverPartial` needs
that a worker about to move has a whole tree (`RootInv`); that needs a worker of
stage 1 to exist only while stage 1 is called (`ThreadsInv`).  `PredecessorsDone`
needs the marker to entail the files before it, which needs the writer's position in
its list, and a worker that is through to have done its stage's work (`StagesInv`).
`ProgressHonest` follows from the counter never exceeding the share of the stage
at `cursor`.  `CleanRecovery` needs that the archive exists at every step that
opens or removes it and that the rename's target is free.  The parts are ordered
so that each is preserved given the ones before it: `TypeStep`, `ThreadsStep`,
`RootStep`, `StagesStep`, `RecoveryStep`, each by cases on the actions.  The
refinement is by cases too (`RefinementStep`): three actions complete a stage
(`MoveRoot`, the marker's `WriteProcFile`, `PacmanCommits`), the session changes with
the main thread, all else stutters.

`InstallerInv` adds to `SetupInv` that a thread with the receiver is that of the
active client (`OneClient`); that a stamp is an earlier value of the counter and no
page shows a later one than is on its way to it (`StampsOld`), hence a page shows no
more than the counter and the counter no more than the disk; and that a page shows the
last message taken, or the one before while its thread has one in hand
(`PagesCurrent`).  The steps of `Setup` are taken over by lemma; what is new is
that a dead acceptor is a fault, so that the receiver is still there without one.
The page's threads change none of what `Setup`'s theorems speak of but the receiver
(`WebStepStutters`), so the pipeline with its page implements `StagedInstall` as well
(`PipelineRefines`), and keeps the invariants (`PipelineSafe`).

### ConfigFile

The assumptions are that user files are sequences of lines, that `NoFile` is none,
that the values "default" and "bad" are apart, and that the bounds are natural
numbers.  `TrialOnce` needs that the lines written so far are a prefix of the text
written back (`TextInv`), which has no `try_` line (`WriteBackLines`), and so that
after a trial neither the file nor the text about to be parsed has one (`TrialInv`).
`RootOnlyBySetup` needs that only a start with a file rewrites, and only one with a
root saves (`StartInv`).

`PromiseKept` says of a text of any length that the fold of `process_config_file`,
`toml` and `serde` together put into effect what the comments promise (`Promised`):
the last `try_` line of a setting, else the first plain one if it stands in its own
group, else the default.  It is an induction
over the lines: `Follows(t, n, eff, pos)` says what the effective lines are after n
lines of the text, where each comes from (`pos`), and which line has decided its
value.  `SettingsApplied` carries it to every session of every behaviour.

### Process

For every script, every capacity and every schedule: what the call has read of a
stream followed by what is in its pipe is what the command has written to it
(`Conserved`), and what it has still to write is the end of the script
(`LeftIsRest`).  So a call that saw the end has every line (`AllTaken`), and one that
leaves a pipe unread does not come back from a command that overfills it
(`TooMuchNeverReturns`, the safety half of `CallReturns`).

### Lifecycle

For any number of windows and clients and all widths and densities that are positive.
The renderer is bound to Android's window whenever there is one (`WindowBound`):
`resumed` binds it in the iteration that makes it known.  One lemma, `ChainGoesOn`, is
about the end of an iteration, which all events share.  `PointerOnOutput` needs that
the first output has a width and density Android has reported and that without an
output the pointer was never moved (`PointerInv`).

### Seat

For any surfaces, fingers (finitely many), buttons, keys and scancodes.  The parts of
`SeatInv` are the properties of the run, with `ToplevelsLive` and the finiteness of
the keys held.  `TouchHonest` is the hard one: while nothing is lost, the grab counts
at least one and at most the fingers on its surface, by `Cardinality`, over grabs that
begin and end in turn, so it ends with the last at the latest.  Until a stray finger
is counted off the count is exact and no other live client has a finger (`GrabExact`,
over `TouchDownExact` and `TouchUpExact`); when the screen is empty this starts anew.  It
needs that a slot without a finger is focused on no live surface (`SlotsClear`), else
the next finger in it would be counted twice.

### SurfaceTree

For a chain of any length and any number of buffers and requests.  The idea is that
the callbacks a surface ever asked for are cut, in their order, into what was answered,
what is current, what each cached commit brings, and what is pending (`Carried`).  Every
operation moves one cut: a frame request moves the end of all, `Snapshot` makes a
new cut, `MakeCurrent` takes the first away, a redraw moves the end of what is answered.
With it goes that no cached commit is later than
the surface's transaction id, and that a transaction names a surface and what is below
it, each once (`TxOf`).  `CallbacksConserved` is read off the cuts.  Of the buffers, every one
that can be read is idle, shown, current or cached (`Kept`), and, as long as the client
commits only idle ones, in one of these places and once (`Apart`); together they are
`BuffersAccounted`, and the second is what makes the release of a replaced buffer
safe.  `AppliedTogether` needs that the transaction a commit applies covers every
surface waiting for it (`Covers`) up to its latest cached commit, through all of the
hand-ups, merges and commits of subsurfaces the request makes; `NoTearing`, that an
application touches only surfaces from its root downwards (`Later`).  A request is a
loop over subsurfaces with a loop over cached commits in it; both are folds, and
`FoldRun` gives the states between their steps.

### XdgShell

For any surfaces and sizes, any odd largest serial of at least 3, every start of the
counter, and up to `Far - 2` serials taken for configures and input.  Serials are compared by what the code's
`partial_cmp` does, which is no order over all of them; so `XdgInv` speaks of *ages*,
how many steps the counter has taken since a serial, also over its wrap and the 0 it
skips, and `OlderIsAge` says that among the last `Far - 2` the code's order is that of
age.  Of every surface (`Sound`): current is not younger than acknowledged, both are
older than all pending, which are in order; what is pending is exactly what the client
has still to come to, so that an acknowledgement is always found; and all of them are
no older than the toplevel and of its size, so that none is left over from an earlier
role object.  Where the inbox may hold configures of an object that is gone, nothing is
known of it (`Box`): only the clients of such surfaces can be refused.

### How data is reasoned about

The provers take no induction rule over an operator.  `DataLemmas` states induction
over a *set* of numbers (`SetInduction`, from the well-foundedness of `<` on the
naturals), and each induction names the set for which its claim holds.  A fold is
shown to be the end of a sequence of states that starts at the base and goes step by
step (`FoldSolves`, `FoldRun`), and the induction is over that sequence.  `SelectSeq`
is recursive and is not used where something is proved; `Retain` says the same.

### Only model-checked

The liveness properties `SetupSettles`, `MessagesDrain`, `OutcomeShown`,
`ClientsAccepted`, `SessionStarts`, `CallReturns` and `FirstMap`, as fairness is out of
the prover's reach, and with `SessionStarts` all of `DesktopLaunch`, which has no
other property.  The three findings are counterexamples and need none.

## Plan

Done: the modules above, the runs, and a theorem for every safety and action property
they check.  Left, in this order:

1. An abstract specification of the configuration, "a trial applies once, the rest
   stays", that `ConfigFile` implements.
2. The safety halves of `SessionStarts` and `FirstMap`: a session that is started
   without a disturbance has its own server's socket; a toplevel that is mapped has
   been told a configure.
3. An abstract specification of a surface, "states appear in the order they were
   committed, with their parent's", that `SurfaceTree` implements.

## Not modelled

Layout and wording of the page, log lines, percentages and file contents;
Sentry and logging; the JNI helpers (sequences of calls without state); the EGL
calls, drawing, damage and the formats of shared memory; selections and drag and
drop, which the app leaves to smithay's defaults; the mouse wheel, which has no
state; surfaces that are destroyed while commits of theirs wait (`SurfaceTree`), one
buffer attached to two surfaces, and siblings, which take part one after the other in
the way one child does.  A panic of the pipeline thread itself is modelled (`CallerPanics`) but
nothing is claimed about its report: there is none.

Most of what lies under `patches/` is not part of the Android program: smithay's
DRM, GBM, libinput, session, X11 and XWM backends and its other renderers,
winit's Windows, macOS, X11, Wayland and web platforms, the build tool xbuild,
and the build files of PRoot and libxkbcommon.  By lines that is nearly all of
the repository; it is third-party code that this app compiles out or never
calls, and nothing of its behaviour depends on it.
