-------------------------------- MODULE Seat --------------------------------
(***************************************************************************)
(* Input, from what Android reports to what a client is told: the winit    *)
(* event loop's handle_input_event, the app's centralize() and handle(),   *)
(* and the touch, pointer and keyboard state of smithay's seat.  All of it *)
(* runs on the event loop's thread, so one Android event is one action.    *)
(* Between two events clients create and destroy their surfaces.           *)
(***************************************************************************)
EXTENDS Naturals, Sequences, FiniteSets, SequencesExt

CONSTANTS
  Surfaces,   \* the wl_surfaces clients ever create
  None,       \* no surface, no grab
  Slots,      \* Android's pointer ids
  Buttons,    \* the mouse buttons
  Left,       \* the button winit reports when Android names none
  Keys,       \* the physical keys
  Code,       \* the scancode of each key; keys unknown to the keymap share one
  MaxLost     \* bound on the presses that end without the seat being told

ASSUME NoneAssumption ==
  None \notin Surfaces \cup [focus : Surfaces, points : Nat]
ASSUME SlotsAssumption == IsFiniteSet(Slots)
ASSUME MaxLostAssumption == MaxLost \in Nat

VARIABLES
  toplevels,   \* XdgShellState.known_toplevels, oldest first
  dead,        \* the surfaces that were destroyed
  fingers,     \* the fingers on the screen
  slotFocus,   \* TouchSlotState.focus of each slot
  touchGrab,   \* the TouchDownGrab: its surface and its number of touch points
  touchSeen,   \* the touch points each surface's client takes to be down
  stray,       \* history: while these fingers were down, the grab counted off
               \* one that it had never counted
  held,        \* the mouse buttons held down
  ptrFocus,    \* PointerInternal.focus
  pressed,     \* PointerInternal.pressed_buttons
  clickGrab,   \* the ClickGrab: its surface, if any
  buttonsSeen, \* the buttons each surface's client takes to be pressed
  keys,        \* the keys held down
  keyCounter,  \* WaylandBackend.key_counter
  kbdFocus,    \* KbdInternal.focus
  forwarded,   \* KbdInternal.forwarded_pressed_keys
  keysSeen,    \* the scancodes each surface's client takes to be pressed
  lost         \* history: how often a press ended and the seat was not told

surfaceVars == <<toplevels, dead>>
touchVars == <<fingers, slotFocus, touchGrab, touchSeen, stray>>
pointerVars == <<held, ptrFocus, pressed, clickGrab, buttonsSeen>>
keyVars == <<keys, keyCounter, forwarded>>
focusVars == <<kbdFocus, keysSeen>>
vars == <<surfaceVars, touchVars, pointerVars, keyVars, focusVars, lost>>

Focus == Surfaces \cup {None}
Live(s) == s \in Surfaces \ dead
Codes == {Code[k] : k \in Keys}

TypeOK ==
  /\ toplevels \in Seq(Surfaces) /\ dead \subseteq Surfaces
  /\ fingers \subseteq Slots /\ slotFocus \in [Slots -> Focus]
  /\ touchGrab \in [focus : Surfaces, points : Nat] \cup {None}
  /\ touchSeen \in [Surfaces -> SUBSET Slots] /\ stray \in BOOLEAN
  /\ held \subseteq Buttons /\ ptrFocus \in Focus
  /\ pressed \subseteq Buttons /\ clickGrab \in [focus : Focus] \cup {None}
  /\ buttonsSeen \in [Surfaces -> SUBSET Buttons]
  /\ keys \subseteq Keys /\ keyCounter \in Nat /\ kbdFocus \in Focus
  /\ forwarded \subseteq Codes /\ keysSeen \in [Surfaces -> SUBSET Codes]
  /\ lost \in 0 .. MaxLost

Init ==
  /\ toplevels = <<>> /\ dead = {}
  /\ fingers = {} /\ slotFocus = [k \in Slots |-> None] /\ touchGrab = None
  /\ touchSeen = [s \in Surfaces |-> {}] /\ stray = FALSE
  /\ held = {} /\ ptrFocus = None /\ pressed = {} /\ clickGrab = None
  /\ buttonsSeen = [s \in Surfaces |-> {}]
  /\ keys = {} /\ keyCounter = 0 /\ kbdFocus = None
  /\ forwarded = {} /\ keysSeen = [s \in Surfaces |-> {}]
  /\ lost = 0

(* get_surface(): the oldest toplevel receives all input. *)
GetSurface == IF toplevels = <<>> THEN None ELSE Head(toplevels)

(* Mutant: the surface entered is told of no keys. *)
SetKbdFocus_NoKeys(s) ==
  /\ kbdFocus' = s
  /\ keysSeen' = IF s = kbdFocus THEN keysSeen
                 ELSE [t \in Surfaces |-> IF t \in {s, kbdFocus} THEN {}
                                          ELSE keysSeen[t]]

(* KeyboardInnerHandle::set_focus: the old surface is left, the new one is
   entered with the keys that are down. *)
SetKbdFocus(s) ==
  /\ kbdFocus' = s
  /\ keysSeen' = IF s = kbdFocus THEN keysSeen
                 ELSE [t \in Surfaces |-> CASE t = s -> forwarded
                                            [] t = kbdFocus -> {}
                                            [] OTHER -> keysSeen[t]]

-----------------------------------------------------------------------------
(* Clients. *)

GetToplevel(s) ==
  /\ Live(s) /\ ~ Contains(toplevels, s)
  /\ toplevels' = Append(toplevels, s)
  /\ UNCHANGED <<dead, touchVars, pointerVars, keyVars, focusVars, lost>>

(* The toplevel leaves known_toplevels; its wl_surface may live on. *)
DestroyToplevel(s) ==
  /\ \E i \in DOMAIN toplevels :
       toplevels[i] = s /\ toplevels' = RemoveAt(toplevels, i)
  /\ UNCHANGED <<dead, touchVars, pointerVars, keyVars, focusVars, lost>>

(* A client destroys the role of a surface before the surface, a duty of the
   protocol that this code does not enforce. *)
DestroySurface(s) ==
  /\ Live(s) /\ ~ Contains(toplevels, s)
  /\ dead' = dead \cup {s}
  /\ UNCHANGED <<toplevels, touchVars, pointerVars, keyVars, focusVars, lost>>

(* Mutant: a grab outlives its surface. *)
TouchGrabbed_Dead == touchGrab # None

-----------------------------------------------------------------------------
(* Touch. *)

TouchGrabbed == touchGrab # None /\ Live(touchGrab.focus)

(* TouchInternal::with_grab discards the grab of a surface that is gone. *)
KeptTouchGrab == IF TouchGrabbed THEN touchGrab ELSE None

(* TouchHandle::down: without a grab the surface given is focused and
   grabbed, with one the grab's surface is. *)
TouchDown(k) ==
  /\ k \in Slots \ fingers
  /\ fingers' = fingers \cup {k}
  /\ IF GetSurface = None
     THEN UNCHANGED <<slotFocus, touchGrab, touchSeen, focusVars>>
     ELSE /\ SetKbdFocus(GetSurface)
          /\ touchGrab' = IF TouchGrabbed
                          THEN [touchGrab EXCEPT !.points = @ + 1]
                          ELSE [focus |-> GetSurface, points |-> 1]
          /\ slotFocus' = [slotFocus EXCEPT ![k] = touchGrab'.focus]
          /\ touchSeen' = [touchSeen EXCEPT ![touchGrab'.focus] = @ \cup {k}]
  /\ UNCHANGED <<surfaceVars, stray, pointerVars, keyVars, lost>>

(* One Moved event per pointer on the screen. *)
TouchMotion ==
  /\ fingers # {} /\ GetSurface # None
  /\ touchGrab' = KeptTouchGrab
  /\ UNCHANGED <<surfaceVars, fingers, slotFocus, touchSeen, stray,
                 pointerVars, keyVars, focusVars, lost>>

(* Mutant: only the last finger is counted off. *)
LeaveTouchGrab_Last ==
  IF fingers' = {} THEN None ELSE KeptTouchGrab

(* The grab's count goes down whichever finger left. *)
LeaveTouchGrab ==
  IF TouchGrabbed /\ touchGrab.points > 1
  THEN [touchGrab EXCEPT !.points = @ - 1] ELSE None

(* Notes a finger the grab counts off although it went down before there was
   a toplevel, or on a surface that is gone. *)
NoteStray(k) ==
  stray' = /\ fingers' # {}
           /\ \/ stray
              \/ GetSurface # None /\ TouchGrabbed /\ slotFocus[k] # touchGrab.focus

(* Counts presses that ended without the seat being told. *)
Lose(really) ==
  /\ really => lost < MaxLost
  /\ lost' = IF really THEN lost + 1 ELSE lost

(* Mutant: an up outside a grab is not sent. *)
TouchUp_GrabOnly(k) ==
  /\ k \in fingers
  /\ fingers' = fingers \ {k}
  /\ touchGrab' = LeaveTouchGrab
  /\ NoteStray(k)
  /\ IF GetSurface = None \/ ~ TouchGrabbed
     THEN UNCHANGED <<slotFocus, touchSeen>>
     ELSE /\ slotFocus' = [slotFocus EXCEPT ![k] = None]
          /\ touchSeen' = [s \in Surfaces |-> touchSeen[s] \ {k}]
  /\ UNCHANGED <<surfaceVars, pointerVars, keyVars, focusVars, lost>>

(* An up without a toplevel is dropped, although its surface may live. *)
TouchUp(k) ==
  /\ k \in fingers
  /\ fingers' = fingers \ {k}
  /\ NoteStray(k)
  /\ IF GetSurface = None
     THEN /\ Lose(Live(slotFocus[k]))
          /\ UNCHANGED <<slotFocus, touchGrab, touchSeen>>
     ELSE /\ touchGrab' = LeaveTouchGrab
          /\ slotFocus' = [slotFocus EXCEPT ![k] = None]
          /\ touchSeen' = [s \in Surfaces |-> IF s = slotFocus[k]
                             THEN touchSeen[s] \ {k} ELSE touchSeen[s]]
          /\ UNCHANGED lost
  /\ UNCHANGED <<surfaceVars, pointerVars, keyVars, focusVars>>

(* A gesture of the system takes the fingers over: handle() has no arm for
   TouchCancel. *)
TouchCancel ==
  /\ fingers # {}
  /\ fingers' = {} /\ stray' = FALSE
  /\ Lose(\E k \in fingers : Live(slotFocus[k]))
  /\ UNCHANGED <<surfaceVars, slotFocus, touchGrab, touchSeen,
                 pointerVars, keyVars, focusVars>>

-----------------------------------------------------------------------------
(* Mouse. *)

(* Mutant: a click starts no grab that lasts. *)
KeptClickGrab_Never == None

(* A grab without a surface is never discarded. *)
KeptClickGrab ==
  IF clickGrab # None /\ clickGrab.focus \in dead THEN None ELSE clickGrab

(* PointerInternal::motion: who is left forgets its buttons. *)
MovePointer(s) ==
  /\ ptrFocus' = s
  /\ buttonsSeen' = [t \in Surfaces |-> IF t = ptrFocus /\ s # ptrFocus
                                        THEN {} ELSE buttonsSeen[t]]

PointerMotion ==
  /\ clickGrab' = KeptClickGrab
  /\ IF GetSurface = None THEN UNCHANGED <<ptrFocus, buttonsSeen>>
     ELSE MovePointer(IF KeptClickGrab = None THEN GetSurface
                      ELSE KeptClickGrab.focus)
  /\ UNCHANGED <<surfaceVars, touchVars, held, pressed, keyVars, focusVars,
                 lost>>

(* Every button event gives the oldest toplevel the keyboard. *)
FocusOnClick ==
  IF GetSurface = None THEN UNCHANGED focusVars ELSE SetKbdFocus(GetSurface)

ButtonPress(b) ==
  /\ b \in Buttons \ held
  /\ held' = held \cup {b} /\ pressed' = pressed \cup {b}
  /\ FocusOnClick
  /\ clickGrab' = IF KeptClickGrab = None THEN [focus |-> ptrFocus]
                  ELSE KeptClickGrab
  /\ buttonsSeen' = [t \in Surfaces |-> IF t = ptrFocus
                       THEN buttonsSeen[t] \cup {b} ELSE buttonsSeen[t]]
  /\ UNCHANGED <<surfaceVars, touchVars, ptrFocus, keyVars, lost>>

(* Mutant: the release goes to the oldest toplevel. *)
Release_ToFront(b) ==
  /\ pressed' = pressed \ {b}
  /\ FocusOnClick
  /\ clickGrab' = IF pressed' = {} THEN None ELSE KeptClickGrab
  /\ buttonsSeen' = [t \in Surfaces |-> IF t = GetSurface
                       THEN buttonsSeen[t] \ {b} ELSE buttonsSeen[t]]

(* Mutant: whether buttons are left is read before the release. *)
Release_Stale(b) ==
  /\ pressed' = pressed \ {b}
  /\ FocusOnClick
  /\ clickGrab' = IF pressed = {} THEN None ELSE KeptClickGrab
  /\ buttonsSeen' = [t \in Surfaces |-> IF t = ptrFocus
                       THEN buttonsSeen[t] \ {b} ELSE buttonsSeen[t]]

(* PointerHandle::button of a release. *)
Release(b) ==
  /\ pressed' = pressed \ {b}
  /\ FocusOnClick
  /\ clickGrab' = IF pressed' = {} THEN None ELSE KeptClickGrab
  /\ buttonsSeen' = [t \in Surfaces |-> IF t = ptrFocus
                       THEN buttonsSeen[t] \ {b} ELSE buttonsSeen[t]]

ButtonRelease(b) ==
  /\ b \in held
  /\ held' = held \ {b}
  /\ Release(b)
  /\ UNCHANGED <<surfaceVars, touchVars, ptrFocus, keyVars, lost>>

(* A cancelled drag names no button, which winit reports as a release of the
   left one. *)
MouseCancel ==
  /\ held # {}
  /\ held' = {}
  /\ Release(Left)
  /\ Lose(pressed' # {})
  /\ UNCHANGED <<surfaceVars, touchVars, ptrFocus, keyVars>>

-----------------------------------------------------------------------------
(* Keyboard.  KeyboardHandle::input forwards every key. *)

KeyPress(k) ==
  /\ k \in Keys \ keys
  /\ keys' = keys \cup {k}
  /\ keyCounter' = keyCounter + 1
  /\ forwarded' = forwarded \cup {Code[k]}
  /\ keysSeen' = [s \in Surfaces |-> IF s = kbdFocus
                    THEN keysSeen[s] \cup {Code[k]} ELSE keysSeen[s]]
  /\ UNCHANGED <<surfaceVars, touchVars, pointerVars, kbdFocus, lost>>

(* A key already down when the window appears is only reported as repeating,
   which centralize() drops. *)
KeyRepeat(k) ==
  /\ k \in Keys \ keys
  /\ keys' = keys \cup {k}
  /\ UNCHANGED <<surfaceVars, touchVars, pointerVars, keyCounter, forwarded,
                 focusVars, lost>>

(* Mutant: the counter is decremented without saturating. *)
KeyRelease_Below(k) ==
  /\ k \in keys
  /\ keys' = keys \ {k}
  /\ keyCounter' = keyCounter - 1
  /\ forwarded' = forwarded \ {Code[k]}
  /\ keysSeen' = [s \in Surfaces |-> IF s = kbdFocus
                    THEN keysSeen[s] \ {Code[k]} ELSE keysSeen[s]]
  /\ UNCHANGED <<surfaceVars, touchVars, pointerVars, kbdFocus, lost>>

KeyRelease(k) ==
  /\ k \in keys
  /\ keys' = keys \ {k}
  /\ keyCounter' = IF keyCounter = 0 THEN 0 ELSE keyCounter - 1
  /\ forwarded' = forwarded \ {Code[k]}
  /\ keysSeen' = [s \in Surfaces |-> IF s = kbdFocus
                    THEN keysSeen[s] \ {Code[k]} ELSE keysSeen[s]]
  /\ UNCHANGED <<surfaceVars, touchVars, pointerVars, kbdFocus, lost>>

Next ==
  \/ \E s \in Surfaces : GetToplevel(s) \/ DestroyToplevel(s) \/ DestroySurface(s)
  \/ \E k \in Slots : TouchDown(k) \/ TouchUp(k)
  \/ TouchMotion \/ TouchCancel \/ PointerMotion \/ MouseCancel
  \/ \E b \in Buttons : ButtonPress(b) \/ ButtonRelease(b)
  \/ \E k \in Keys : KeyPress(k) \/ KeyRepeat(k) \/ KeyRelease(k)

Spec == Init /\ [][Next]_vars

-----------------------------------------------------------------------------
(* Properties.  Those that say lost = 0 are about sessions in which no
   gesture was cancelled and no finger left while no toplevel was there. *)

FingersOn(s) == {k \in fingers : slotFocus[k] = s}

(* What goes down comes up (event_handler.rs:184-222): a client that is alive
   takes no finger to be down that has left the screen, and the touch grab
   counts none (grab.rs:244-261), so it ends at the latest with the last.
   Unless a stray finger was counted off, it counts every finger on its
   surface, ends with the last and no sooner (grab.rs:225-226), and no other
   client has a finger. *)
TouchHonest ==
  lost = 0 =>
    /\ \A s \in Surfaces \ dead : touchSeen[s] \subseteq FingersOn(s)
    /\ TouchGrabbed =>
         touchGrab.points \in 1 .. Cardinality(FingersOn(touchGrab.focus))
    /\ ~ stray =>
         /\ TouchGrabbed =>
              touchGrab.points = Cardinality(FingersOn(touchGrab.focus))
         /\ \A s \in Surfaces \ dead :
              FingersOn(s) # {} => TouchGrabbed /\ touchGrab.focus = s

(* A finger that goes down while there is a toplevel reaches a client that is
   alive, the grab's or else the oldest toplevel's, even after the surface of
   the last grab was destroyed under the fingers. *)
TouchReaches ==
  [][\A k \in Slots : k \in fingers' \ fingers /\ GetSurface # None =>
       /\ Live(slotFocus'[k])
       /\ slotFocus'[k] # GetSurface => TouchGrabbed]_vars

(* A button released is released for the client that saw it pressed, only the
   surface under the pointer has buttons, and the click grab ends with the last
   of them, even when a cancelled drag released the wrong one. *)
ButtonsHonest ==
  /\ \A s \in Surfaces \ dead : s # ptrFocus => buttonsSeen[s] = {}
  /\ pressed = {} => clickGrab = None
  /\ lost = 0 => /\ pressed = held
                 /\ \A s \in Surfaces \ dead : buttonsSeen[s] \subseteq held

(* A drag stays on its surface (grab.rs:339-343) while another surface becomes
   the oldest toplevel. *)
DragStays ==
  [][/\ clickGrab # None /\ ptrFocus = clickGrab.focus /\ ptrFocus \notin dead
     /\ pressed' # {}
     => ptrFocus' = ptrFocus]_vars

(* The focused client and the seat agree on the keys that are down, a client
   that lost the focus has none, none is down that is not held, and key_counter,
   which nothing resets, does not count more (event_centralizer.rs:79-84). *)
KeysHonest ==
  /\ \A s \in Surfaces : keysSeen[s] = IF s = kbdFocus THEN forwarded ELSE {}
  /\ forwarded \subseteq {Code[k] : k \in keys}
  /\ keyCounter <= Cardinality(keys)
=============================================================================
