----------------------------- MODULE Lifecycle -----------------------------
(***************************************************************************)
(* The Wayland backend over the life of Android's window: winit's Android  *)
(* event loop (one iteration per event, all on one thread), what           *)
(* PolarBearApp does on Resumed, and the Redraw that draws a frame, serves *)
(* the clients and asks for the next Redraw.  Android and EGL are modelled *)
(* from how that code uses them.  Widths stand for sizes: the heights take *)
(* the same way.                                                           *)
(***************************************************************************)
EXTENDS Naturals, Sequences, FiniteSetsExt, SequencesExt

CONSTANTS
  MaxWindows, \* bound on the windows Android creates
  Widths,     \* the widths of a window, in pixels
  Scales,     \* the densities of the display
  MaxClients  \* bound on the clients that connect

ASSUME MaxWindowsAssumption == MaxWindows \in Nat
ASSUME WidthsAssumption == Widths \subseteq Nat \ {0}
ASSUME ScalesAssumption == Scales \subseteq Nat \ {0}
ASSUME MaxClientsAssumption == MaxClients \in Nat

VARIABLES
  window,         \* Android's window, numbered; 0 while there is none
  width, scale,   \* its width and the display's density
  asked,          \* the window Android last asked to be redrawn
  running,        \* EventLoop.running: resumed and not paused
  pendingRedraw,  \* EventLoop.pending_redraw
  redrawFlag,     \* EventLoop.redraw_flag
  rendererWindow, \* the window graphic_renderer is bound to; 0 while None
  scaleFactor,    \* WaylandBackend.scale_factor
  size,           \* State.size
  outputs,        \* Space.outputs
  pointer,        \* where the seat was last told the pointer is
  backlog,        \* clients waiting in the listening socket
  clients,        \* Compositor.clients, their number
  drew,           \* whether the last iteration drew, and on what
  status          \* "up", or "panicked"

androidVars == <<window, width, scale, asked>>
loopVars == <<pendingRedraw, redrawFlag>>
screenVars == <<rendererWindow, size, outputs>>
clientVars == <<backlog, clients>>
vars == <<androidVars, running, loopVars, scaleFactor, screenVars, pointer,
          clientVars, drew, status>>

TypeOK ==
  /\ window \in 0 .. MaxWindows /\ asked \in 0 .. MaxWindows
  /\ width \in Widths /\ scale \in Scales
  /\ running \in BOOLEAN /\ pendingRedraw \in BOOLEAN /\ redrawFlag \in BOOLEAN
  /\ rendererWindow \in 0 .. MaxWindows /\ scaleFactor \in Scales \cup {1}
  /\ size \in Nat /\ outputs \in Seq([width : Widths, scale : Scales])
  /\ pointer \in Nat
  /\ backlog \in 0 .. MaxClients /\ clients \in 0 .. MaxClients
  /\ drew \in {"no", "live", "dead"} /\ status \in {"up", "panicked"}

Init ==
  /\ window = 0 /\ asked = 0 /\ width \in Widths /\ scale \in Scales
  /\ running = FALSE /\ pendingRedraw = FALSE /\ redrawFlag = FALSE
  /\ rendererWindow = 0 /\ scaleFactor = 1 /\ size = 1920 /\ outputs = <<>>
  /\ pointer = 0
  /\ backlog = 0 /\ clients = 0 /\ drew = "no" /\ status = "up"

(* Space::output_geometry: the mode in logical coordinates, rounded up. *)
Geometry(o) == (o.width + o.scale - 1) \div o.scale

(* The sum handle() and clamp_coords() take for the rightmost position. *)
MaxX == FoldSeq(LAMBDA o, sum : sum + Geometry(o), 0, outputs)

-----------------------------------------------------------------------------
(* The end of every iteration. *)

Panic == status' = "panicked" /\ redrawFlag' = FALSE /\ UNCHANGED clientVars

(* One connection per Redraw. *)
AcceptClient ==
  IF backlog = 0 THEN UNCHANGED clientVars
  ELSE backlog' = backlog - 1 /\ clients' = clients + 1

(* Mutant: nothing asks for the next Redraw. *)
Redraw_Once(live) ==
  /\ pendingRedraw' = FALSE
  /\ IF rendererWindow' = 0 THEN drew' = "no" /\ Panic
     ELSE /\ drew' = IF rendererWindow' = live THEN "live" ELSE "dead"
          /\ AcceptClient /\ UNCHANGED <<redrawFlag, status>>

(* handle(Redraw).  A renderer whose window is gone may fail, and every
   result is unwrapped. *)
Redraw(live) ==
  /\ pendingRedraw' = FALSE
  /\ IF rendererWindow' = 0 THEN drew' = "no" /\ Panic
     ELSE /\ drew' = IF rendererWindow' = live THEN "live" ELSE "dead"
          /\ \/ AcceptClient /\ redrawFlag' = TRUE /\ UNCHANGED status
             \/ drew' = "dead" /\ Panic

(* Mutant: the flag is cleared whether or not the loop is running. *)
EndIteration_Clears(redraw, live) ==
  IF running' /\ (redraw \/ pendingRedraw \/ redrawFlag)
  THEN Redraw(live)
  ELSE /\ pendingRedraw' = FALSE
       /\ redrawFlag' = FALSE /\ drew' = "no"
       /\ UNCHANGED <<clientVars, status>>

(* The flag moves to pendingRedraw before the loop polls; a Redraw waits
   there while the app is paused. *)
EndIteration(redraw, live) ==
  IF running' /\ (redraw \/ pendingRedraw \/ redrawFlag)
  THEN Redraw(live)
  ELSE /\ pendingRedraw' = (redraw \/ pendingRedraw \/ redrawFlag)
       /\ redrawFlag' = FALSE /\ drew' = "no"
       /\ UNCHANGED <<clientVars, status>>

-----------------------------------------------------------------------------
(* Android's events. *)

(* Mutant: only the first window is bound. *)
Resumed_Once(w, x, d) ==
  /\ rendererWindow' = IF rendererWindow = 0 THEN w ELSE rendererWindow
  /\ size' = x
  /\ outputs' = Append(outputs, [width |-> x, scale |-> d])

(* PolarBearApp::resumed: a renderer for the window, which replaces the old
   one, and one more output. *)
Resumed(w, x, d) ==
  /\ rendererWindow' = w
  /\ size' = x
  /\ outputs' = Append(outputs, [width |-> x, scale |-> d])

(* Windows are numbered as they appear: each is resumed once. *)
InitWindow(x) ==
  /\ window = 0 /\ Len(outputs) < MaxWindows
  /\ window' = Len(outputs) + 1 /\ width' = x
  /\ Resumed(window', x, scale)
  /\ UNCHANGED <<scale, asked, running, scaleFactor, pointer>>
  /\ EndIteration(FALSE, window')

(* Mutant: the renderer is dropped, and Redraws go on. *)
Suspended_Drops == rendererWindow' = 0

(* PolarBearApp has no suspended(). *)
Suspended == UNCHANGED rendererWindow

(* Android keeps the window until the iteration is over. *)
TerminateWindow ==
  /\ window # 0
  /\ window' = 0
  /\ Suspended
  /\ UNCHANGED <<width, scale, asked, running, scaleFactor, size, outputs,
                 pointer>>
  /\ EndIteration(FALSE, window)

RedrawNeeded ==
  /\ window # 0
  /\ asked' = window
  /\ UNCHANGED <<window, width, scale, running, scaleFactor, screenVars,
                 pointer>>
  /\ EndIteration(TRUE, window)

(* handle() has no arm for Resized. *)
WindowResized(x) ==
  /\ window # 0 /\ x # width
  /\ width' = x
  /\ UNCHANGED <<window, scale, asked, running, scaleFactor, screenVars,
                 pointer>>
  /\ EndIteration(FALSE, window)

(* ScaleFactorChanged, which centralize() answers from the renderer. *)
ConfigChanged(d) ==
  /\ scale' = d /\ scaleFactor' = d
  /\ UNCHANGED <<window, width, asked, running, size, outputs, pointer>>
  /\ IF rendererWindow = 0
     THEN /\ drew' = "no" /\ Panic
          /\ UNCHANGED <<pendingRedraw, rendererWindow>>
     ELSE UNCHANGED rendererWindow /\ EndIteration(FALSE, window)

Resume ==
  /\ ~ running /\ running' = TRUE
  /\ UNCHANGED <<androidVars, scaleFactor, screenVars, pointer>>
  /\ EndIteration(FALSE, window)

Pause ==
  /\ running /\ running' = FALSE
  /\ UNCHANGED <<androidVars, scaleFactor, screenVars, pointer>>
  /\ EndIteration(FALSE, window)

(* Mutant: the position is taken as it comes. *)
ClampCoords_Missing(x) == x

ClampCoords(x) == Min({x, MaxX})

(* CursorMoved: the pixel over the window's width of now, times the widths of
   all outputs. *)
CursorMoved(x) ==
  /\ window # 0
  /\ pointer' = ClampCoords((x * MaxX) \div width)
  /\ UNCHANGED <<androidVars, running, scaleFactor, screenVars>>
  /\ EndIteration(FALSE, window)

(* bind() sets ControlFlow::Poll: from then on the loop never blocks. *)
Poll ==
  /\ rendererWindow # 0
  /\ UNCHANGED <<androidVars, running, scaleFactor, screenVars, pointer>>
  /\ EndIteration(FALSE, window)

-----------------------------------------------------------------------------
(* The rest of the world. *)

Connect ==
  /\ backlog + clients < MaxClients
  /\ backlog' = backlog + 1
  /\ UNCHANGED <<androidVars, running, loopVars, scaleFactor, screenVars,
                 pointer, clients, drew, status>>

(* Where on a window of any width. *)
Positions == UNION {0 .. x - 1 : x \in Widths}

(* A panic ends the process, and with it all of this state. *)
Next ==
  /\ status = "up"
  /\ \/ \E x \in Widths : InitWindow(x) \/ WindowResized(x)
     \/ TerminateWindow \/ RedrawNeeded \/ Resume \/ Pause \/ Poll \/ Connect
     \/ \E d \in Scales : ConfigChanged(d)
     \/ \E x \in Positions : CursorMoved(x)

Spec == Init /\ [][Next]_vars

(* The loop's thread runs, and Android asks for a first frame of every window
   it shows. *)
FirstRedraw == status = "up" /\ asked # window /\ RedrawNeeded
Fairness == WF_vars(status = "up" /\ Poll) /\ WF_vars(FirstRedraw)
FairSpec == Spec /\ Fairness

-----------------------------------------------------------------------------
(* Properties. *)

(* The chain of Redraws, each of which asks for the next, breaks neither in a
   pause nor between two windows (winit's mod.rs:658-694), and it never finds
   the renderer missing, which event_handler.rs:162 would not survive. *)
RedrawChain ==
  status = "up" =>
    /\ (pendingRedraw \/ redrawFlag) => rendererWindow # 0
    /\ asked # 0 => pendingRedraw \/ redrawFlag

(* While Android has a window every frame goes to it: run.rs:31-35 binds each
   new window before a frame can be due. *)
NewWindowDrawn == drew = "dead" => window = 0

(* With one window so far the mouse stays on the output (event_handler.rs:259),
   also at a position read before the window shrank. *)
FirstWindowPointer ==
  Len(outputs) = 1 => pointer <= Geometry(outputs[1])

Showing == status = "up" /\ running /\ window # 0

(* While the desktop is shown to its user, every client that connects is
   accepted: only Redraw does it, one at a time (event_handler.rs:116-129). *)
ClientsAccepted == <>[]Showing => []<>(backlog = 0)
=============================================================================
