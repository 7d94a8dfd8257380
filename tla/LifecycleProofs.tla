-------------------------- MODULE LifecycleProofs --------------------------
(***************************************************************************)
(* Machine-checked proofs about module Lifecycle, for every number of      *)
(* windows and clients and all widths and densities.                       *)
(*                                                                         *)
(* Those about drawing rest on the link between Android's window and the   *)
(* renderer, WindowBound: resumed binds every window in the iteration that *)
(* makes it known, so no later iteration finds it unbound.  The one about  *)
(* the pointer rests on what it is clamped to.                             *)
(***************************************************************************)
EXTENDS Lifecycle, DataLemmas

USE DEF androidVars, loopVars, screenVars, clientVars

(* Who is bound to whom, and the types this takes. *)
WindowBound ==
  /\ running \in BOOLEAN /\ pendingRedraw \in BOOLEAN /\ redrawFlag \in BOOLEAN
  /\ outputs \in Seq([width : Nat, scale : Nat])
  /\ width \in Nat /\ scale \in Nat
  /\ window # 0 => rendererWindow = window

LifecycleInv == WindowBound /\ RedrawChain /\ NewWindowDrawn

(* What the end of an iteration makes of the Redraws: the chain goes on if the
   renderer is there whenever one is due. *)
LEMMA ChainGoesOn ==
  ASSUME NEW redraw \in BOOLEAN, NEW live, EndIteration(redraw, live),
         running' \in BOOLEAN, pendingRedraw \in BOOLEAN, redrawFlag \in BOOLEAN,
         status = "up",
         redraw \/ pendingRedraw \/ redrawFlag => rendererWindow' # 0
  PROVE  /\ pendingRedraw' \in BOOLEAN /\ redrawFlag' \in BOOLEAN
         /\ status' = "up" =>
              (pendingRedraw' \/ redrawFlag' <=> redraw \/ pendingRedraw \/ redrawFlag)
         /\ drew' = "dead" => rendererWindow' # live /\ rendererWindow' # 0
<1>1. CASE running' /\ (redraw \/ pendingRedraw \/ redrawFlag)
  <2>1. Redraw(live)
    BY <1>1 DEF EndIteration
  <2>2. rendererWindow' # 0
    BY <1>1
  <2>3. /\ pendingRedraw' = FALSE
        /\ drew' = IF rendererWindow' = live THEN "live" ELSE "dead"
        /\ redrawFlag' = TRUE \/ (redrawFlag' = FALSE /\ status' = "panicked")
    BY <2>1, <2>2 DEF Redraw, Panic
  <2> QED
    BY <1>1, <2>2, <2>3
<1>2. CASE ~ (running' /\ (redraw \/ pendingRedraw \/ redrawFlag))
  <2>1. /\ pendingRedraw' = (redraw \/ pendingRedraw \/ redrawFlag)
        /\ redrawFlag' = FALSE /\ drew' = "no"
    BY <1>2 DEF EndIteration
  <2> QED
    BY <2>1
<1> QED
  BY <1>1, <1>2

(* No window, no output, no frame. *)
LEMMA InitBound == Init => LifecycleInv
<1> SUFFICES ASSUME Init PROVE LifecycleInv
  OBVIOUS
<1>1. outputs \in Seq([width : Nat, scale : Nat])
  BY DEF Init
<1>2. width \in Nat /\ scale \in Nat
  BY WidthsAssumption, ScalesAssumption DEF Init
<1>3. WindowBound
  BY <1>1, <1>2 DEF Init, WindowBound
<1>4. RedrawChain /\ NewWindowDrawn
  BY DEF Init, RedrawChain, NewWindowDrawn
<1> QED
  BY <1>3, <1>4 DEF LifecycleInv

(* Every event keeps the renderer with the window and the chain of Redraws. *)
LEMMA NextBound == LifecycleInv /\ [Next]_vars => LifecycleInv'
<1> SUFFICES ASSUME LifecycleInv, [Next]_vars PROVE LifecycleInv'
  OBVIOUS
<1> USE WidthsAssumption, ScalesAssumption DEF LifecycleInv, WindowBound, RedrawChain, NewWindowDrawn
<1>0. CASE UNCHANGED vars
  BY <1>0 DEF vars
<1>1. ASSUME status = "up", NEW x \in Widths, InitWindow(x) PROVE LifecycleInv'
  <2>1. Len(outputs) \in Nat
    OBVIOUS
  <2>2. /\ window' # 0 /\ rendererWindow' = window' /\ width' \in Nat /\ scale' = scale
        /\ outputs' \in Seq([width : Nat, scale : Nat])
    BY <1>1, <2>1 DEF InitWindow, Resumed
  <2>3. EndIteration(FALSE, window') /\ running' = running /\ asked' = asked
    BY <1>1 DEF InitWindow
  <2> QED
    BY <1>1, <2>2, <2>3, ChainGoesOn
<1>2. ASSUME status = "up", TerminateWindow PROVE LifecycleInv'
  <2>1. /\ EndIteration(FALSE, window) /\ window' = 0
        /\ UNCHANGED <<running, asked, width, scale, outputs, rendererWindow>>
    BY <1>2 DEF TerminateWindow, Suspended
  <2> QED
    BY <1>2, <2>1, ChainGoesOn
<1>3. ASSUME status = "up", RedrawNeeded PROVE LifecycleInv'
  <2>1. /\ EndIteration(TRUE, window) /\ window # 0
        /\ UNCHANGED <<running, window, width, scale, outputs, rendererWindow>>
    BY <1>3 DEF RedrawNeeded
  <2> QED
    BY <1>3, <2>1, ChainGoesOn
<1>4. ASSUME status = "up", NEW x \in Widths, WindowResized(x) PROVE LifecycleInv'
  <2>1. /\ EndIteration(FALSE, window) /\ width' \in Nat
        /\ UNCHANGED <<running, asked, window, scale, outputs, rendererWindow>>
    BY <1>4 DEF WindowResized
  <2> QED
    BY <1>4, <2>1, ChainGoesOn
<1>5. ASSUME status = "up", NEW d \in Scales, ConfigChanged(d) PROVE LifecycleInv'
  <2>1. /\ scale' \in Nat
        /\ UNCHANGED <<running, asked, window, width, outputs, rendererWindow>>
    BY <1>5 DEF ConfigChanged
  <2>2. CASE rendererWindow = 0
    BY <1>5, <2>1, <2>2 DEF ConfigChanged, Panic
  <2>3. CASE rendererWindow # 0
    <3>1. EndIteration(FALSE, window)
      BY <1>5, <2>3 DEF ConfigChanged
    <3> QED
      BY <1>5, <2>1, <3>1, ChainGoesOn
  <2> QED
    BY <2>2, <2>3
<1>6. ASSUME status = "up", Resume \/ Pause \/ Poll \/ \E x \in Positions : CursorMoved(x)
      PROVE  LifecycleInv'
  <2>1. /\ EndIteration(FALSE, window) /\ running' \in BOOLEAN
        /\ UNCHANGED <<asked, window, width, scale, outputs, rendererWindow>>
    BY <1>6 DEF Resume, Pause, Poll, CursorMoved
  <2> QED
    BY <1>6, <2>1, ChainGoesOn
<1>7. ASSUME Connect PROVE LifecycleInv'
  BY <1>7 DEF Connect
<1> QED
  BY <1>0, <1>1, <1>2, <1>3, <1>4, <1>5, <1>6, <1>7 DEF Next

(* The link holds in every reachable state. *)
THEOREM LifecycleInvariance == Spec => []LifecycleInv
  BY InitBound, NextBound, PTL DEF Spec

(* The next frame stays asked for, over pauses and new windows, and finds the
   renderer there (EventLoop::single_iteration, Redraw). *)
THEOREM ChainKept == Spec => []RedrawChain
<1>1. LifecycleInv => RedrawChain
  BY DEF LifecycleInv
<1> QED
  BY <1>1, LifecycleInvariance, PTL

(* As long as Android has a window, what is drawn is drawn on it
   (PolarBearApp::resumed). *)
THEOREM DrawnOnWindow == Spec => []NewWindowDrawn
<1>1. LifecycleInv => NewWindowDrawn
  BY DEF LifecycleInv
<1> QED
  BY <1>1, LifecycleInvariance, PTL

-----------------------------------------------------------------------------
(* The pointer. *)

(* With one output the sum is its width. *)
LEMMA OneOutput ==
  ASSUME Len(outputs) = 1, outputs \in Seq([width : Nat, scale : Nat])
  PROVE  MaxX = 0 + Geometry(outputs[1])
<1> DEFINE D == DOMAIN outputs
           Sum(g) == g = [s \in SUBSET D |->
                            IF s = {} THEN 0
                            ELSE g[s \ {CHOOSE x \in s : TRUE}]
                                 + Geometry(outputs[CHOOSE x \in s : TRUE])]
           iter == CHOOSE g : Sum(g)
<1>1. D = {1}
  OBVIOUS
<1>2. MaxX = iter[D]
  BY DEF MaxX, FoldSeq, FoldFunction, FoldFunctionOnSet, MapThenFoldSet
<1>3. \A s \in SUBSET D : s = {} \/ s = {1}
  BY <1>1
<1>4. (CHOOSE x \in {1} : TRUE) = 1 /\ {1} \ {1} = {}
  OBVIOUS
<1>5. \E g : Sum(g)
  <2> DEFINE h == [s \in SUBSET D |-> IF s = {} THEN 0 ELSE 0 + Geometry(outputs[1])]
  <2>1. h[{}] = 0
    OBVIOUS
  <2>2. \A s \in SUBSET D : h[s] = IF s = {} THEN 0
                            ELSE h[s \ {CHOOSE x \in s : TRUE}]
                                 + Geometry(outputs[CHOOSE x \in s : TRUE])
    BY <1>1, <1>3, <1>4, <2>1
  <2>3. h = [s \in SUBSET D |-> h[s]]
    OBVIOUS
  <2>4. Sum(h)
    <3> HIDE DEF h
    <3> QED
      BY <2>2, <2>3
  <2> QED
    BY <2>4
<1>6. Sum(iter)
  <2> HIDE DEF Sum
  <2> QED
    BY <1>5
<1>7. iter[{}] = 0 /\ iter[{1}] = iter[{}] + Geometry(outputs[1])
  <2>1. {} \in SUBSET D /\ {1} \in SUBSET D /\ {1} # {}
    BY <1>1
  <2> HIDE DEF iter
  <2>2. iter[{1}] = iter[{1} \ {1}] + Geometry(outputs[1])
    BY <1>4, <1>6, <2>1
  <2>3. iter[{}] = 0
    BY <1>6, <2>1
  <2> QED
    BY <1>4, <2>2, <2>3
<1> QED
  BY <1>1, <1>2, <1>7

(* The pointer while there is at most one output; what it is computed from. *)
PointerInv ==
  /\ width \in Widths /\ scale \in Scales
  /\ \A i \in 1 .. Len(outputs) : outputs[i].width \in Widths /\ outputs[i].scale \in Scales
  /\ outputs = <<>> => pointer = 0 /\ window = 0
  /\ FirstWindowPointer

(* A width in logical coordinates is a number. *)
LEMMA GeometryNat ==
  ASSUME NEW o, o.width \in Widths, o.scale \in Scales
  PROVE  Geometry(o) \in Nat
<1> DEFINE w == o.width
           d == o.scale
<1>1. w \in Nat \ {0} /\ d \in Nat \ {0}
  BY WidthsAssumption, ScalesAssumption
<1> HIDE DEF w, d
<1>2. (w + d - 1) \div d \in Nat
  BY <1>1
<1> QED
  BY <1>2 DEF Geometry, w, d

(* What is clamped does not exceed the sum of the widths. *)
LEMMA Clamped ==
  ASSUME NEW x \in Nat, MaxX \in Nat
  PROVE  ClampCoords(x) <= MaxX /\ ClampCoords(x) \in Nat
<1> DEFINE S == {x, MaxX}
           m == IF x <= MaxX THEN x ELSE MaxX
<1>1. S \in SUBSET Int /\ m \in S /\ \A y \in S : m <= y
  OBVIOUS
<1>2. Min(S) = m
  <2> HIDE DEF S, m
  <2> QED
    BY <1>1, MinIs
<1> QED
  BY <1>2 DEF ClampCoords

(* Only a mouse event moves the pointer, and only resumed adds an output. *)
LEMMA NextPointer ==
  ASSUME LifecycleInv, PointerInv, [Next]_vars
  PROVE  PointerInv'
<1> USE DEF PointerInv, FirstWindowPointer
<1>0. outputs \in Seq([width : Nat, scale : Nat]) /\ Len(outputs) \in Nat
  BY DEF LifecycleInv, WindowBound
<1>1. CASE UNCHANGED <<outputs, pointer, window, width, scale>>
  BY <1>1 DEF Geometry
<1>2. ASSUME NEW x \in Widths, InitWindow(x) PROVE PointerInv'
  <2> DEFINE o == [width |-> x, scale |-> scale]
  <2>1. /\ outputs' = Append(outputs, o) /\ pointer' = pointer
        /\ width' = x /\ scale' = scale
    BY <1>2 DEF InitWindow, Resumed
  <2>2. o \in [width : Nat, scale : Nat] /\ o.width \in Widths /\ o.scale \in Scales
    BY WidthsAssumption, ScalesAssumption
  <2> HIDE DEF o
  <2>3. /\ Len(outputs') = Len(outputs) + 1
        /\ \A i \in 1 .. Len(outputs) : outputs'[i] = outputs[i]
        /\ outputs'[Len(outputs) + 1] = o
    BY <1>0, <2>1, <2>2
  <2>4. \A i \in 1 .. Len(outputs') :
          outputs'[i].width \in Widths /\ outputs'[i].scale \in Scales
    BY <1>0, <2>2, <2>3
  <2>5. outputs' # <<>>
    BY <1>0, <2>3
  <2>6. ASSUME Len(outputs') = 1 PROVE pointer' <= Geometry(outputs'[1])
    <3>1. outputs = <<>> /\ outputs'[1] = o
      <4>1. Len(outputs) = 0
        <5>1. Len(outputs) + 1 = 1
          BY <2>3, <2>6
        <5> QED
          BY <1>0, <5>1
      <4>2. outputs = <<>>
        BY <1>0, <4>1, EmptySeq
      <4> QED
        BY <2>3, <4>1, <4>2
    <3>2. pointer' = 0 /\ Geometry(o) \in Nat
      BY <2>1, <2>2, <3>1, GeometryNat
    <3> QED
      BY <3>1, <3>2
  <2>7. Len(outputs') = 1 => pointer' <= (outputs'[1].width + outputs'[1].scale - 1)
                                           \div outputs'[1].scale
    BY <2>6 DEF Geometry
  <2> QED
    BY <1>2, <2>1, <2>4, <2>5, <2>7 DEF Geometry
<1>3. CASE TerminateWindow
  BY <1>3 DEF TerminateWindow, Suspended, Geometry
<1>4. ASSUME NEW x \in Widths, WindowResized(x) PROVE PointerInv'
  BY <1>4 DEF WindowResized, Geometry
<1>5. ASSUME NEW d \in Scales, ConfigChanged(d) PROVE PointerInv'
  BY <1>5 DEF ConfigChanged, Geometry
<1>6. ASSUME NEW x \in Positions, CursorMoved(x) PROVE PointerInv'
  <2>1. /\ UNCHANGED <<outputs, window, width, scale>> /\ window # 0
        /\ pointer' = ClampCoords((x * MaxX) \div width)
    BY <1>6 DEF CursorMoved
  <2>2. ASSUME Len(outputs) = 1 PROVE pointer' <= Geometry(outputs[1])
    <3>1. MaxX = 0 + Geometry(outputs[1]) /\ Geometry(outputs[1]) \in Nat
      BY <1>0, <2>2, OneOutput, GeometryNat
    <3>2. x \in Nat
      BY WidthsAssumption DEF Positions
    <3>3. MaxX \in Nat /\ width \in Nat \ {0}
      BY <3>1, WidthsAssumption
    <3>4. (x * MaxX) \div width \in Nat
      <4>1. x * MaxX \in Nat
        BY <3>2, <3>3
      <4> QED
        BY <3>3, <4>1
    <3> QED
      BY <2>1, <3>1, <3>3, <3>4, Clamped
  <2> QED
    BY <2>1, <2>2 DEF Geometry
<1>7. CASE RedrawNeeded \/ Resume \/ Pause \/ Poll \/ Connect
  BY <1>1, <1>7 DEF RedrawNeeded, Resume, Pause, Poll, Connect
<1>8. CASE UNCHANGED vars
  BY <1>1, <1>8 DEF vars
<1> QED
  BY <1>2, <1>3, <1>4, <1>5, <1>6, <1>7, <1>8 DEF Next

(* With one window so far the mouse stays on the output, also at a position read
   before the window shrank (clamp_coords). *)
THEOREM PointerOnOutput == Spec => []FirstWindowPointer
<1>1. Init => PointerInv
  BY DEF Init, PointerInv, FirstWindowPointer
<1>2. LifecycleInv /\ PointerInv /\ [Next]_vars => PointerInv'
  BY NextPointer
<1>3. PointerInv => FirstWindowPointer
  BY DEF PointerInv
<1> QED
  BY <1>1, <1>2, <1>3, LifecycleInvariance, PTL DEF Spec
=============================================================================
