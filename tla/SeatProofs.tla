------------------------------ MODULE SeatProofs ------------------------------
(***************************************************************************)
(* Machine-checked proofs about module Seat, for all clients, fingers,     *)
(* buttons, keys and keymaps, and however many gestures are lost.          *)
(*                                                                         *)
(* SeatInv is inductive.  Its parts concern the touch screen, the mouse    *)
(* and the keyboard, which share little: the surfaces that die under all   *)
(* three, and the keyboard focus, which a touch and a click move as well.  *)
(* Each part is preserved given its own types and those of the surfaces.   *)
(***************************************************************************)
EXTENDS Seat, SequenceTheorems, FiniteSetTheorems, TLAPS

USE DEF surfaceVars, touchVars, pointerVars, keyVars, focusVars, Live, Focus

(* No toplevel is left of a surface that was destroyed, so the surface that
   get_surface() answers is alive; and only finitely many keys are ever down. *)
ToplevelsLive == \A i \in DOMAIN toplevels : toplevels[i] \notin dead

(* No slot is left focused on a live surface without a finger down. *)
SlotsClear == lost = 0 => \A k \in Slots \ fingers : ~ Live(slotFocus[k])

SeatInv ==
  /\ TypeOK /\ ToplevelsLive /\ IsFiniteSet(keys) /\ SlotsClear
  /\ TouchHonest /\ ButtonsHonest /\ KeysHonest

-----------------------------------------------------------------------------
(* The toplevels. *)

(* What RemoveAt leaves of a sequence was in it. *)
LEMMA RemoveAtLeaves ==
  ASSUME NEW S, NEW q \in Seq(S), NEW i \in DOMAIN q
  PROVE  /\ RemoveAt(q, i) \in Seq(S)
         /\ \A j \in DOMAIN RemoveAt(q, i) : \E k \in DOMAIN q : RemoveAt(q, i)[j] = q[k]
<1> DEFINE a == SubSeq(q, 1, i - 1)
           b == SubSeq(q, i + 1, Len(q))
<1>1. i \in 1 .. Len(q) /\ Len(q) \in Nat /\ DOMAIN q = 1 .. Len(q)
  OBVIOUS
<1>2. /\ a \in Seq(S) /\ Len(a) = i - 1
      /\ \A j \in 1 .. i - 1 : a[j] = q[j]
  BY <1>1
<1>3. /\ b \in Seq(S) /\ Len(b) = Len(q) - i
      /\ \A j \in 1 .. Len(q) - i : b[j] = q[i + j]
  BY <1>1
<1>4. RemoveAt(q, i) = a \o b
  BY DEF RemoveAt
<1> HIDE DEF a, b
<1>5. /\ a \o b \in Seq(S) /\ DOMAIN (a \o b) = 1 .. Len(a) + Len(b)
      /\ \A j \in 1 .. Len(a) + Len(b) :
           (a \o b)[j] = IF j <= Len(a) THEN a[j] ELSE b[j - Len(a)]
  BY <1>2, <1>3, ConcatProperties
<1>6. ASSUME NEW j \in DOMAIN (a \o b) PROVE \E k \in DOMAIN q : (a \o b)[j] = q[k]
  <2>1. CASE j <= i - 1
    BY <1>1, <1>2, <1>3, <1>5, <2>1
  <2>2. CASE j > i - 1
    <3>1. j - Len(a) \in 1 .. Len(q) - i /\ i + (j - Len(a)) \in DOMAIN q
      BY <1>1, <1>2, <1>3, <1>5, <2>2
    <3>2. (a \o b)[j] = b[j - Len(a)]
      BY <1>1, <1>2, <1>5, <2>2
    <3>3. b[j - Len(a)] = q[i + (j - Len(a))]
      BY <1>3, <3>1
    <3> QED
      BY <3>1, <3>2, <3>3
  <2> QED
    BY <1>1, <1>5, <2>1, <2>2
<1> QED
  BY <1>4, <1>5, <1>6

(* At first nothing is down and no surface is there. *)
LEMMA InitSeat == Init => SeatInv
<1> SUFFICES ASSUME Init PROVE SeatInv
  OBVIOUS
<1>1. IsFiniteSet({}) /\ Cardinality({}) = 0
  BY FS_EmptySet
<1>2. TypeOK
  <2>1. stray \in BOOLEAN
    BY DEF Init
  <2> QED
    BY <2>1, MaxLostAssumption DEF Init, TypeOK
<1>3. ToplevelsLive /\ IsFiniteSet(keys)
  BY <1>1 DEF Init, ToplevelsLive
<1>4. TouchHonest /\ SlotsClear
  BY NoneAssumption DEF Init, TouchHonest, TouchGrabbed, FingersOn, SlotsClear
<1>5. ButtonsHonest
  BY DEF Init, ButtonsHonest
<1>6. KeysHonest
  BY <1>1 DEF Init, KeysHonest
<1> QED
  BY <1>2, <1>3, <1>4, <1>5, <1>6 DEF SeatInv

(* Moving the keyboard focus keeps the focused client and the seat agreed. *)
LEMMA FocusKept ==
  ASSUME TypeOK, NEW s \in Focus, SetKbdFocus(s)
  PROVE  /\ kbdFocus' \in Focus /\ keysSeen' \in [Surfaces -> SUBSET Codes]
         /\ (\A t \in Surfaces : keysSeen[t] = IF t = kbdFocus THEN forwarded ELSE {})
            => \A t \in Surfaces : keysSeen'[t] = IF t = kbdFocus' THEN forwarded ELSE {}
<1>1. CASE s = kbdFocus
  BY <1>1 DEF SetKbdFocus, TypeOK
<1>2. CASE s # kbdFocus
  <2>1. /\ kbdFocus' = s
        /\ keysSeen' = [t \in Surfaces |-> CASE t = s -> forwarded
                                             [] t = kbdFocus -> {}
                                             [] OTHER -> keysSeen[t]]
    BY <1>2 DEF SetKbdFocus
  <2>2. \A t \in Surfaces : keysSeen'[t] = IF t = s THEN forwarded
                                           ELSE IF t = kbdFocus THEN {} ELSE keysSeen[t]
    BY <1>2, <2>1
  <2>3. keysSeen' \in [Surfaces -> SUBSET Codes]
    BY <2>1, <2>2 DEF TypeOK
  <2> QED
    BY <1>2, <2>1, <2>2, <2>3
<1> QED
  BY <1>1, <1>2

(* The surface that receives the input is one of the toplevels, and alive. *)
LEMMA SurfaceLive ==
  ASSUME TypeOK, ToplevelsLive
  PROVE  GetSurface \in Focus /\ (GetSurface # None => GetSurface \in Surfaces \ dead)
<1>1. CASE toplevels = <<>>
  BY <1>1 DEF GetSurface
<1>2. CASE toplevels # <<>>
  <2>1. Head(toplevels) = toplevels[1] /\ 1 \in DOMAIN toplevels /\ toplevels[1] \in Surfaces
    BY <1>2 DEF TypeOK
  <2> QED
    BY <1>2, <2>1 DEF GetSurface, ToplevelsLive
<1> QED
  BY <1>1, <1>2
-----------------------------------------------------------------------------
(* Types. *)

(* Which steps change no toplevel and no surface. *)
LEMMA SurfacesStep ==
  ASSUME TypeOK, ToplevelsLive, [Next]_vars
  PROVE  /\ toplevels' \in Seq(Surfaces) /\ dead' \subseteq Surfaces
         /\ dead \subseteq dead' /\ ToplevelsLive'
<1> USE DEF TypeOK, ToplevelsLive
<1>1. ASSUME NEW s \in Surfaces, GetToplevel(s) PROVE ToplevelsLive' /\ toplevels' \in Seq(Surfaces)
  <2>1. /\ toplevels' = Append(toplevels, s) /\ dead' = dead /\ s \notin dead
    BY <1>1 DEF GetToplevel
  <2>2. \A i \in DOMAIN toplevels' : toplevels'[i] = s \/ \E j \in DOMAIN toplevels : toplevels'[i] = toplevels[j]
    BY <2>1
  <2> QED
    BY <2>1, <2>2
<1>2. ASSUME NEW s \in Surfaces, DestroyToplevel(s) PROVE ToplevelsLive' /\ toplevels' \in Seq(Surfaces)
  <2>1. PICK i \in DOMAIN toplevels : toplevels' = RemoveAt(toplevels, i) /\ dead' = dead
    BY <1>2 DEF DestroyToplevel
  <2> QED
    BY <2>1, RemoveAtLeaves
<1>3. ASSUME NEW s \in Surfaces, DestroySurface(s) PROVE ToplevelsLive' /\ toplevels' = toplevels
  <2>1. \A i \in DOMAIN toplevels : toplevels[i] # s
    BY <1>3 DEF DestroySurface, Contains
  <2> QED
    BY <1>3, <2>1 DEF DestroySurface
<1>4. CASE UNCHANGED surfaceVars
  BY <1>4
<1>5. [Next]_vars => \/ \E s \in Surfaces : GetToplevel(s) \/ DestroyToplevel(s) \/ DestroySurface(s)
                     \/ UNCHANGED surfaceVars
  BY DEF Next, vars, TouchDown, TouchUp, TouchMotion, TouchCancel, PointerMotion,
         MouseCancel, ButtonPress, ButtonRelease, KeyPress, KeyRepeat, KeyRelease
<1> QED
  BY <1>1, <1>2, <1>3, <1>4, <1>5 DEF GetToplevel, DestroyToplevel, DestroySurface

(* Every step keeps the types. *)
LEMMA TypeStep ==
  ASSUME TypeOK, ToplevelsLive, [Next]_vars
  PROVE  TypeOK'
<1>s. toplevels' \in Seq(Surfaces) /\ dead' \subseteq Surfaces
  BY SurfacesStep
<1>g. GetSurface \in Focus /\ (GetSurface # None => GetSurface \in Surfaces)
  BY SurfaceLive
<1> DEFINE TouchOK == /\ fingers \subseteq Slots /\ slotFocus \in [Slots -> Focus]
                      /\ touchGrab \in [focus : Surfaces, points : Nat] \cup {None}
                      /\ touchSeen \in [Surfaces -> SUBSET Slots]
                      /\ stray \in BOOLEAN
           PointerOK == /\ held \subseteq Buttons /\ ptrFocus \in Focus
                        /\ pressed \subseteq Buttons
                        /\ clickGrab \in [focus : Focus] \cup {None}
                        /\ buttonsSeen \in [Surfaces -> SUBSET Buttons]
           KeysOK == /\ keys \subseteq Keys /\ keyCounter \in Nat /\ forwarded \subseteq Codes
           FocusOK == kbdFocus \in Focus /\ keysSeen \in [Surfaces -> SUBSET Codes]
           LostOK == lost \in 0 .. MaxLost
<1>t. TouchOK /\ PointerOK /\ KeysOK /\ FocusOK /\ LostOK
  BY DEF TypeOK
<1>1. ASSUME NEW k \in Slots, TouchDown(k) PROVE TouchOK' /\ FocusOK'
  <2>1. CASE GetSurface = None
    BY <1>t, <1>1, <2>1 DEF TouchDown
  <2>2. CASE GetSurface # None
    <3>1. FocusOK'
      BY <1>1, <1>g, <2>2, FocusKept DEF TouchDown
    <3>2. touchGrab' \in [focus : Surfaces, points : Nat]
      BY <1>t, <1>1, <1>g, <2>2 DEF TouchDown, TouchGrabbed
    <3>3. slotFocus' \in [Slots -> Focus] /\ touchSeen' \in [Surfaces -> SUBSET Slots]
      BY <1>t, <1>1, <2>2, <3>2 DEF TouchDown
    <3> QED
      BY <1>t, <1>1, <3>1, <3>2, <3>3 DEF TouchDown
  <2> QED
    BY <2>1, <2>2
<1>2. ASSUME NEW k \in Slots, TouchUp(k) PROVE TouchOK' /\ LostOK'
  <2>1. LeaveTouchGrab \in [focus : Surfaces, points : Nat] \cup {None}
    BY <1>t DEF LeaveTouchGrab, TouchGrabbed
  <2>2. stray' \in BOOLEAN
    BY <1>2 DEF TouchUp, NoteStray
  <2> QED
    BY <1>t, <1>2, <2>1, <2>2, MaxLostAssumption DEF TouchUp, Lose
<1>3. ASSUME TouchMotion \/ TouchCancel PROVE TouchOK' /\ LostOK'
  <2>1. stray' \in BOOLEAN
    BY <1>t, <1>3 DEF TouchMotion, TouchCancel
  <2> QED
    BY <1>t, <1>3, <2>1, MaxLostAssumption DEF TouchMotion, TouchCancel, Lose, KeptTouchGrab
<1>k. KeptClickGrab \in [focus : Focus] \cup {None}
  BY <1>t DEF KeptClickGrab
<1>4. ASSUME PointerMotion PROVE PointerOK'
  <2>1. CASE GetSurface = None
    BY <1>t, <1>4, <1>k, <2>1 DEF PointerMotion
  <2>2. CASE GetSurface # None
    <3>1. PICK s \in Focus : MovePointer(s)
      BY <1>4, <1>k, <1>g, <2>2 DEF PointerMotion
    <3> QED
      BY <1>t, <1>4, <1>k, <3>1 DEF PointerMotion, MovePointer
  <2> QED
    BY <2>1, <2>2
<1>5. ASSUME FocusOnClick PROVE FocusOK'
  BY <1>t, <1>5, <1>g, FocusKept DEF FocusOnClick
<1>6. ASSUME NEW b \in Buttons, ButtonPress(b) PROVE PointerOK' /\ FocusOK'
  <2>1. FocusOK' /\ clickGrab' \in [focus : Focus] \cup {None}
    BY <1>t, <1>6, <1>k, <1>5 DEF ButtonPress
  <2> QED
    BY <1>t, <1>6, <2>1 DEF ButtonPress
<1>7. ASSUME NEW b, Release(b), held' \subseteq Buttons, ptrFocus' = ptrFocus
      PROVE  PointerOK' /\ FocusOK'
  <2>1. FocusOK' /\ clickGrab' \in [focus : Focus] \cup {None}
    BY <1>t, <1>7, <1>k, <1>5 DEF Release
  <2> QED
    BY <1>t, <1>7, <2>1 DEF Release
<1>8. ASSUME NEW b \in Buttons, ButtonRelease(b) PROVE PointerOK' /\ FocusOK'
  BY <1>t, <1>7, <1>8 DEF ButtonRelease
<1>9. ASSUME MouseCancel PROVE PointerOK' /\ FocusOK' /\ LostOK'
  <2>1. held' \subseteq Buttons /\ ptrFocus' = ptrFocus /\ Release(Left)
    BY <1>9 DEF MouseCancel
  <2> QED
    BY <1>t, <1>7, <1>9, <2>1, MaxLostAssumption DEF MouseCancel, Lose
<1>10. ASSUME NEW k \in Keys, KeyPress(k) \/ KeyRepeat(k) \/ KeyRelease(k)
       PROVE  KeysOK' /\ FocusOK'
  <2>1. Code[k] \in Codes
    BY DEF Codes
  <2> QED
    BY <1>t, <1>10, <2>1 DEF KeyPress, KeyRepeat, KeyRelease
<1>11. TouchOK' /\ PointerOK' /\ KeysOK' /\ FocusOK' /\ LostOK' => TypeOK'
  BY <1>s DEF TypeOK
<1> HIDE DEF TouchOK, PointerOK, KeysOK, FocusOK, LostOK
<1>u. /\ UNCHANGED touchVars => TouchOK'
      /\ UNCHANGED pointerVars => PointerOK'
      /\ UNCHANGED keyVars => KeysOK'
      /\ UNCHANGED focusVars => FocusOK'
      /\ UNCHANGED lost => LostOK'
  BY <1>t DEF TouchOK, PointerOK, KeysOK, FocusOK, LostOK
<1> HIDE DEF TouchOK, PointerOK, KeysOK, FocusOK, LostOK
<1>12. ASSUME NEW s \in Surfaces, GetToplevel(s) \/ DestroyToplevel(s) \/ DestroySurface(s)
       PROVE  TypeOK'
  BY <1>u, <1>11, <1>12 DEF GetToplevel, DestroyToplevel, DestroySurface
<1>13. ASSUME NEW k \in Slots, TouchDown(k) \/ TouchUp(k) PROVE TypeOK'
  BY <1>1, <1>2, <1>u, <1>11, <1>13 DEF TouchDown, TouchUp
<1>14. CASE TouchMotion \/ TouchCancel
  BY <1>3, <1>u, <1>11, <1>14 DEF TouchMotion, TouchCancel
<1>15. CASE PointerMotion \/ MouseCancel
  BY <1>4, <1>9, <1>u, <1>11, <1>15 DEF PointerMotion, MouseCancel
<1>16. ASSUME NEW b \in Buttons, ButtonPress(b) \/ ButtonRelease(b) PROVE TypeOK'
  BY <1>6, <1>8, <1>u, <1>11, <1>16 DEF ButtonPress, ButtonRelease
<1>17. ASSUME NEW k \in Keys, KeyPress(k) \/ KeyRepeat(k) \/ KeyRelease(k) PROVE TypeOK'
  BY <1>10, <1>u, <1>11, <1>17 DEF KeyPress, KeyRepeat, KeyRelease
<1> QED
  BY <1>u, <1>11, <1>12, <1>13, <1>14, <1>15, <1>16, <1>17 DEF Next, vars
-----------------------------------------------------------------------------
(* Touch. *)

(* The fingers whose slot is focused on a surface can be counted. *)
LEMMA FingersFinite ==
  ASSUME TypeOK, NEW s
  PROVE  IsFiniteSet(FingersOn(s)) /\ Cardinality(FingersOn(s)) \in Nat
<1>1. FingersOn(s) \in SUBSET Slots
  BY DEF FingersOn, TypeOK
<1> QED
  BY <1>1, SlotsAssumption, FS_Subset, FS_CardinalityType

(* A finger more counts for the surface its slot is focused on. *)
LEMMA FingerAdded ==
  ASSUME TypeOK, NEW k \in Slots \ fingers, fingers' = fingers \cup {k},
         \A j \in Slots \ {k} : slotFocus'[j] = slotFocus[j], NEW s
  PROVE  /\ FingersOn(s)' = IF slotFocus'[k] = s THEN FingersOn(s) \cup {k} ELSE FingersOn(s)
         /\ Cardinality(FingersOn(s)') = IF slotFocus'[k] = s THEN Cardinality(FingersOn(s)) + 1
                                         ELSE Cardinality(FingersOn(s))
<1>1. FingersOn(s)' = IF slotFocus'[k] = s THEN FingersOn(s) \cup {k} ELSE FingersOn(s)
  BY DEF FingersOn, TypeOK
<1>2. k \notin FingersOn(s)
  BY DEF FingersOn
<1>3. IsFiniteSet(FingersOn(s))
  BY FingersFinite
<1>4. Cardinality(FingersOn(s) \cup {k}) = Cardinality(FingersOn(s)) + 1
  BY <1>2, <1>3, FS_AddElement
<1> QED
  BY <1>1, <1>4

(* A finger less is one less for the surface its slot was focused on. *)
LEMMA FingerRemoved ==
  ASSUME TypeOK, NEW k \in fingers, fingers' = fingers \ {k},
         \A j \in Slots \ {k} : slotFocus'[j] = slotFocus[j], NEW s
  PROVE  /\ FingersOn(s)' = FingersOn(s) \ {k}
         /\ Cardinality(FingersOn(s)') \in Nat
         /\ Cardinality(FingersOn(s)') = IF slotFocus[k] = s THEN Cardinality(FingersOn(s)) - 1
                                         ELSE Cardinality(FingersOn(s))
         /\ Cardinality(FingersOn(s)') >= Cardinality(FingersOn(s)) - 1
<1>1. FingersOn(s)' = FingersOn(s) \ {k}
  BY DEF FingersOn, TypeOK
<1>2. IsFiniteSet(FingersOn(s)) /\ Cardinality(FingersOn(s)) \in Nat
  BY FingersFinite
<1>3. /\ IsFiniteSet(FingersOn(s) \ {k})
      /\ Cardinality(FingersOn(s) \ {k}) = IF k \in FingersOn(s) THEN Cardinality(FingersOn(s)) - 1
                                           ELSE Cardinality(FingersOn(s))
  BY <1>2, FS_RemoveElement
<1>4. Cardinality(FingersOn(s) \ {k}) \in Nat
  BY <1>3, FS_CardinalityType
<1>5. k \in FingersOn(s) <=> slotFocus[k] = s
  BY DEF FingersOn
<1> QED
  BY <1>1, <1>2, <1>3, <1>4, <1>5

(* What TouchHonest says of a behaviour that lost nothing, whatever strayed. *)
TouchTrue ==
  /\ \A s \in Surfaces \ dead : touchSeen[s] \subseteq FingersOn(s)
  /\ TouchGrabbed => touchGrab.points \in 1 .. Cardinality(FingersOn(touchGrab.focus))

(* A grab that is in force is a record, of a surface that is alive. *)
LEMMA GrabRecord ==
  ASSUME TypeOK, TouchGrabbed
  PROVE  /\ touchGrab \in [focus : Surfaces, points : Nat]
         /\ touchGrab.focus \in Surfaces \ dead /\ touchGrab.points \in Nat
  BY DEF TypeOK, TouchGrabbed

(* The absence of a grab is no grab. *)
LEMMA NoneNoGrab ==
  ASSUME NEW g \in [focus : Surfaces, points : Nat] PROVE g # None
  BY NoneAssumption

(* A finger that goes down joins the grab or begins one. *)
LEMMA TouchDownHonest ==
  ASSUME TypeOK, ToplevelsLive, TouchTrue, NEW k \in Slots, TouchDown(k)
  PROVE  TouchTrue'
<1>1. k \in Slots \ fingers /\ fingers' = fingers \cup {k} /\ dead' = dead
  BY DEF TouchDown
<1>2. CASE GetSurface = None
  <2>1. UNCHANGED <<touchSeen, touchGrab, slotFocus>>
    BY <1>2 DEF TouchDown
  <2>2. \A s : /\ FingersOn(s) \subseteq FingersOn(s)'
               /\ Cardinality(FingersOn(s)') \in {Cardinality(FingersOn(s)), Cardinality(FingersOn(s)) + 1}
    BY <1>1, <2>1, FingerAdded
  <2>3. TouchGrabbed' <=> TouchGrabbed
    BY <1>1, <2>1 DEF TouchGrabbed
  <2>4. PICK g : g = touchGrab.focus
    OBVIOUS
  <2>5. ASSUME TouchGrabbed PROVE touchGrab.points \in 1 .. Cardinality(FingersOn(g)')
    <3>1. touchGrab.points \in 1 .. Cardinality(FingersOn(g)) /\ touchGrab.points \in Nat
      BY <2>4, <2>5, GrabRecord DEF TouchTrue
    <3>2. /\ Cardinality(FingersOn(g)) \in Nat
          /\ Cardinality(FingersOn(g)') \in {Cardinality(FingersOn(g)), Cardinality(FingersOn(g)) + 1}
      BY <2>2, FingersFinite
    <3> QED
      BY <3>1, <3>2
  <2> QED
    BY <1>1, <2>1, <2>2, <2>3, <2>4, <2>5 DEF TouchTrue, FingersOn
<1>3. CASE GetSurface # None
  <2> PICK g : g = touchGrab'.focus
    OBVIOUS
  <2>1. GetSurface \in Surfaces \ dead
    BY <1>3, SurfaceLive
  <2>2. /\ touchGrab' = IF TouchGrabbed THEN [touchGrab EXCEPT !.points = @ + 1]
                        ELSE [focus |-> GetSurface, points |-> 1]
        /\ slotFocus' = [slotFocus EXCEPT ![k] = g]
        /\ touchSeen' = [touchSeen EXCEPT ![g] = @ \cup {k}]
    BY <1>3 DEF TouchDown
  <2>3. slotFocus'[k] = g /\ \A j \in Slots \ {k} : slotFocus'[j] = slotFocus[j]
    BY <1>1, <2>2 DEF TypeOK
  <2>4. /\ \A s : FingersOn(s) \subseteq FingersOn(s)'
        /\ k \in FingersOn(g)'
        /\ Cardinality(FingersOn(g)') = Cardinality(FingersOn(g)) + 1
    <3>1. \A s : /\ FingersOn(s)' = IF slotFocus'[k] = s THEN FingersOn(s) \cup {k} ELSE FingersOn(s)
                 /\ Cardinality(FingersOn(s)') = IF slotFocus'[k] = s THEN Cardinality(FingersOn(s)) + 1
                                                 ELSE Cardinality(FingersOn(s))
      BY <1>1, <2>3, FingerAdded
    <3> QED
      BY <2>3, <3>1
  <2>5. /\ g \in Surfaces \ dead
        /\ touchGrab'.points \in 1 .. Cardinality(FingersOn(g)) + 1
    <3>1. CASE TouchGrabbed
      BY <2>2, <3>1, GrabRecord, FingersFinite DEF TouchTrue
    <3>2. CASE ~ TouchGrabbed
      BY <2>1, <2>2, <3>2, FingersFinite
    <3> QED
      BY <3>1, <3>2
  <2>6. \A s \in Surfaces \ dead : touchSeen'[s] \subseteq FingersOn(s)'
    BY <2>2, <2>4, <2>5 DEF TouchTrue, TypeOK
  <2> QED
    BY <1>1, <2>4, <2>5, <2>6 DEF TouchTrue, FingersOn
<1> QED
  BY <1>2, <1>3

(* A finger that is lifted leaves the grab, and ends it as the last. *)
LEMMA TouchUpHonest ==
  ASSUME TypeOK, TouchTrue, NEW k \in Slots, TouchUp(k), lost' = lost
  PROVE  TouchTrue'
<1>1. k \in fingers /\ fingers' = fingers \ {k} /\ dead' = dead
  BY DEF TouchUp
<1>2. CASE GetSurface = None
  <2>1. UNCHANGED <<touchSeen, touchGrab, slotFocus>> /\ ~ Live(slotFocus[k])
    BY <1>2 DEF TouchUp, Lose, TypeOK
  <2>2. \A s \in Surfaces \ dead : FingersOn(s)' = FingersOn(s)
    BY <1>1, <2>1 DEF FingersOn
  <2>3. TouchGrabbed' <=> TouchGrabbed
    BY <1>1, <2>1 DEF TouchGrabbed
  <2> QED
    BY <1>1, <2>1, <2>2, <2>3, GrabRecord DEF TouchTrue
<1>3. CASE GetSurface # None
  <2>1. /\ touchGrab' = LeaveTouchGrab
        /\ slotFocus' = [slotFocus EXCEPT ![k] = None]
        /\ touchSeen' = [s \in Surfaces |-> IF s = slotFocus[k]
                           THEN touchSeen[s] \ {k} ELSE touchSeen[s]]
    BY <1>3 DEF TouchUp
  <2>2. \A s : /\ FingersOn(s)' = FingersOn(s) \ {k}
               /\ Cardinality(FingersOn(s)') \in Nat
               /\ Cardinality(FingersOn(s)') >= Cardinality(FingersOn(s)) - 1
    BY <1>1, <2>1, FingerRemoved DEF TypeOK
  <2>3. \A s \in Surfaces \ dead : touchSeen'[s] \subseteq FingersOn(s)'
    BY <2>1, <2>2 DEF TouchTrue, FingersOn
  <2>4. ASSUME TouchGrabbed'
        PROVE  touchGrab'.points \in 1 .. Cardinality(FingersOn(touchGrab.focus)') /\ touchGrab'.focus = touchGrab.focus
    <3>1. /\ TouchGrabbed /\ touchGrab.points > 1
          /\ touchGrab' = [touchGrab EXCEPT !.points = @ - 1]
      BY <2>1, <2>4 DEF LeaveTouchGrab, TouchGrabbed
    <3>2. touchGrab'.points = touchGrab.points - 1 /\ touchGrab'.focus = touchGrab.focus
      BY <3>1, GrabRecord
    <3> QED
      BY <2>2, <3>1, <3>2, GrabRecord, FingersFinite DEF TouchTrue
  <2> QED
    BY <1>1, <2>3, <2>4 DEF TouchTrue
<1> QED
  BY <1>2, <1>3
(* What it says besides while no finger strayed. *)
GrabExact ==
  /\ TouchGrabbed => touchGrab.points = Cardinality(FingersOn(touchGrab.focus))
  /\ \A s \in Surfaces \ dead : FingersOn(s) # {} => TouchGrabbed /\ touchGrab.focus = s

(* A finger that goes down is counted, or is on no live surface. *)
LEMMA TouchDownExact ==
  ASSUME TypeOK, ToplevelsLive, \A j \in Slots \ fingers : ~ Live(slotFocus[j]),
         GrabExact, NEW k \in Slots, TouchDown(k)
  PROVE  GrabExact'
<1>1. k \in Slots \ fingers /\ fingers' = fingers \cup {k} /\ dead' = dead
  BY DEF TouchDown
<1>2. CASE GetSurface = None
  <2>1. UNCHANGED <<touchGrab, slotFocus>> /\ ~ Live(slotFocus[k])
    BY <1>1, <1>2 DEF TouchDown
  <2>2. \A s \in Surfaces \ dead : FingersOn(s)' = FingersOn(s)
    BY <1>1, <2>1 DEF FingersOn
  <2>3. TouchGrabbed' <=> TouchGrabbed
    BY <1>1, <2>1 DEF TouchGrabbed
  <2> QED
    BY <1>1, <2>1, <2>2, <2>3, GrabRecord DEF GrabExact
<1>3. CASE GetSurface # None
  <2> PICK g : g = touchGrab'.focus
    OBVIOUS
  <2>1. GetSurface \in Surfaces \ dead
    BY <1>3, SurfaceLive
  <2>2. /\ touchGrab' = IF TouchGrabbed THEN [touchGrab EXCEPT !.points = @ + 1]
                        ELSE [focus |-> GetSurface, points |-> 1]
        /\ slotFocus' = [slotFocus EXCEPT ![k] = g]
    BY <1>3 DEF TouchDown
  <2>3. slotFocus'[k] = g /\ \A j \in Slots \ {k} : slotFocus'[j] = slotFocus[j]
    BY <1>1, <2>2 DEF TypeOK
  <2>4. \A s : /\ FingersOn(s)' = IF g = s THEN FingersOn(s) \cup {k} ELSE FingersOn(s)
               /\ Cardinality(FingersOn(s)') = IF g = s THEN Cardinality(FingersOn(s)) + 1
                                               ELSE Cardinality(FingersOn(s))
    <3>1. \A s : /\ FingersOn(s)' = IF slotFocus'[k] = s THEN FingersOn(s) \cup {k} ELSE FingersOn(s)
                 /\ Cardinality(FingersOn(s)') = IF slotFocus'[k] = s THEN Cardinality(FingersOn(s)) + 1
                                                 ELSE Cardinality(FingersOn(s))
      BY <1>1, <2>3, FingerAdded
    <3> QED
      BY <2>3, <3>1
  <2>5. touchGrab'.points = Cardinality(FingersOn(g)) + 1 /\ touchGrab' # None /\ g \in Surfaces \ dead
    <3>1. CASE TouchGrabbed
      <4>1. /\ touchGrab'.points = touchGrab.points + 1 /\ g = touchGrab.focus
            /\ touchGrab' \in [focus : Surfaces, points : Nat]
        BY <2>2, <3>1, GrabRecord
      <4>2. touchGrab.points = Cardinality(FingersOn(g)) /\ g \in Surfaces \ dead
        BY <3>1, <4>1, GrabRecord DEF GrabExact
      <4> QED
        BY <4>1, <4>2, NoneNoGrab
    <3>2. CASE ~ TouchGrabbed
      <4>1. /\ g = GetSurface /\ touchGrab'.points = 1
            /\ touchGrab' \in [focus : Surfaces, points : Nat]
        BY <2>1, <2>2, <3>2
      <4>2. FingersOn(g) = {} /\ Cardinality({}) = 0
        BY <2>1, <3>2, <4>1, FS_EmptySet DEF GrabExact
      <4> QED
        BY <2>1, <4>1, <4>2, NoneNoGrab
    <3> QED
      BY <3>1, <3>2
  <2>6. ASSUME NEW s \in Surfaces \ dead, FingersOn(s)' # {} PROVE s = g
    <3>1. CASE TouchGrabbed
      <4>1. g = touchGrab.focus
        BY <2>2, <3>1, GrabRecord
      <4> QED
        BY <2>4, <2>6, <4>1 DEF GrabExact
    <3>2. CASE ~ TouchGrabbed
      BY <2>4, <2>6, <3>2 DEF GrabExact
    <3> QED
      BY <3>1, <3>2
  <2>7. TouchGrabbed'
    BY <1>1, <2>5 DEF TouchGrabbed
  <2> QED
    BY <1>1, <2>4, <2>5, <2>6, <2>7 DEF GrabExact
<1> QED
  BY <1>2, <1>3

(* A finger that is lifted from the grab's surface is counted off, and with
   the last the grab is over. *)
LEMMA TouchUpExact ==
  ASSUME TypeOK, TouchTrue, GrabExact, NEW k \in Slots, TouchUp(k), lost' = lost,
         GetSurface # None /\ TouchGrabbed => slotFocus[k] = touchGrab.focus
  PROVE  GrabExact'
<1>1. k \in fingers /\ fingers' = fingers \ {k} /\ dead' = dead
  BY DEF TouchUp
<1>2. CASE GetSurface = None
  <2>1. UNCHANGED <<touchGrab, slotFocus>> /\ ~ Live(slotFocus[k])
    BY <1>2 DEF TouchUp, Lose, TypeOK
  <2>2. \A s \in Surfaces \ dead : FingersOn(s)' = FingersOn(s)
    BY <1>1, <2>1 DEF FingersOn
  <2>3. TouchGrabbed' <=> TouchGrabbed
    BY <1>1, <2>1 DEF TouchGrabbed
  <2> QED
    BY <1>1, <2>1, <2>2, <2>3, GrabRecord DEF GrabExact
<1>3. CASE GetSurface # None
  <2>1. touchGrab' = LeaveTouchGrab /\ slotFocus' = [slotFocus EXCEPT ![k] = None]
    BY <1>3 DEF TouchUp
  <2>2. \A s : /\ FingersOn(s)' = FingersOn(s) \ {k}
               /\ Cardinality(FingersOn(s)') = IF slotFocus[k] = s THEN Cardinality(FingersOn(s)) - 1
                                               ELSE Cardinality(FingersOn(s))
    BY <1>1, <2>1, FingerRemoved DEF TypeOK
  <2>3. CASE ~ TouchGrabbed
    <3>1. \A s \in Surfaces \ dead : FingersOn(s)' = {}
      BY <2>2, <2>3 DEF GrabExact
    <3>2. ~ TouchGrabbed'
      BY <2>1, <2>3 DEF LeaveTouchGrab, TouchGrabbed
    <3> QED
      BY <1>1, <3>1, <3>2 DEF GrabExact
  <2>4. CASE TouchGrabbed
    <3> PICK g : g = touchGrab.focus
      OBVIOUS
    <3>1. /\ slotFocus[k] = g /\ g \in Surfaces \ dead
          /\ touchGrab.points = Cardinality(FingersOn(g)) /\ touchGrab.points \in Nat
      BY <1>3, <2>4, GrabRecord DEF GrabExact
    <3>2. /\ Cardinality(FingersOn(g)') = touchGrab.points - 1
          /\ \A s \in Surfaces \ dead : FingersOn(s)' # {} => s = g
      BY <2>2, <2>4, <3>1 DEF GrabExact
    <3>3. CASE touchGrab.points > 1
      <4>1. touchGrab' = [touchGrab EXCEPT !.points = @ - 1]
        BY <2>1, <2>4, <3>3 DEF LeaveTouchGrab
      <4>2. /\ touchGrab'.points = touchGrab.points - 1 /\ touchGrab'.focus = g
            /\ touchGrab' \in [focus : Surfaces, points : Nat]
        BY <2>4, <3>3, <4>1, GrabRecord
      <4>3. TouchGrabbed'
        BY <1>1, <3>1, <4>2, NoneNoGrab DEF TouchGrabbed
      <4> QED
        BY <1>1, <3>2, <4>2, <4>3 DEF GrabExact
    <3>4. CASE ~ touchGrab.points > 1
      <4>1. ~ TouchGrabbed'
        BY <2>1, <3>4 DEF LeaveTouchGrab, TouchGrabbed
      <4>2. Cardinality(FingersOn(g)') = 0 /\ IsFiniteSet(FingersOn(g)')
        <5>1. IsFiniteSet(FingersOn(g)) /\ FingersOn(g)' = FingersOn(g) \ {k}
          BY <2>2, FingersFinite
        <5>2. IsFiniteSet(FingersOn(g)') /\ Cardinality(FingersOn(g)') \in Nat
          BY <5>1, FS_RemoveElement, FS_CardinalityType
        <5> QED
          BY <3>1, <3>2, <3>4, <5>2
      <4>3. FingersOn(g)' = {}
        BY <4>2, FS_EmptySet
      <4> QED
        BY <1>1, <3>2, <4>1, <4>3 DEF GrabExact
    <3> QED
      BY <3>3, <3>4
  <2> QED
    BY <2>3, <2>4
<1> QED
  BY <1>2, <1>3

(* What was lost stays lost, so nothing was before a step after which nothing is. *)
LEMMA LostStays ==
  ASSUME TypeOK, [Next]_vars, lost' = 0
  PROVE  lost = 0
  BY DEF TypeOK, Next, vars, GetToplevel, DestroyToplevel, DestroySurface, TouchDown,
         TouchUp, TouchMotion, TouchCancel, PointerMotion, MouseCancel, ButtonPress,
         ButtonRelease, KeyPress, KeyRepeat, KeyRelease, Lose

(* Which steps the touch screen has a part in. *)
LEMMA TouchSteps ==
  ASSUME [Next]_vars
  PROVE  \/ \E k \in Slots : TouchDown(k) \/ TouchUp(k)
         \/ TouchMotion \/ TouchCancel \/ UNCHANGED touchVars
  BY DEF Next, vars, GetToplevel, DestroyToplevel, DestroySurface, PointerMotion,
         MouseCancel, ButtonPress, ButtonRelease, KeyPress, KeyRepeat, KeyRelease

(* Without a finger there is no grab to count it. *)
LEMMA NoFingers ==
  ASSUME TypeOK', TouchTrue', fingers' = {}
  PROVE  GrabExact'
<1>1. \A s : FingersOn(s)' = {}
  BY DEF FingersOn
<1>2. Cardinality({}) = 0
  BY FS_EmptySet
<1>3. PICK g : g = touchGrab'.focus
  OBVIOUS
<1>4. TouchGrabbed' => touchGrab'.points \in 1 .. Cardinality(FingersOn(g)')
  BY <1>3 DEF TouchTrue, FingersOn
<1>5. ~ TouchGrabbed'
  BY <1>1, <1>2, <1>4
<1> QED
  BY <1>1, <1>5 DEF GrabExact

(* Every step leaves no focus in a slot without a finger. *)
LEMMA SlotsStep ==
  ASSUME TypeOK, ToplevelsLive, SlotsClear, [Next]_vars
  PROVE  SlotsClear'
<1> SUFFICES ASSUME lost' = 0, NEW j \in Slots \ fingers' PROVE ~ Live(slotFocus[j])'
  BY DEF SlotsClear
<1>0. lost = 0
  BY LostStays
<1>1. dead \subseteq dead'
  BY SurfacesStep
<1>2. \A k \in Slots \ fingers : ~ Live(slotFocus[k])
  BY <1>0 DEF SlotsClear
<1>3. ASSUME NEW k \in Slots, TouchDown(k) PROVE ~ Live(slotFocus[j])'
  <2>1. slotFocus'[j] = slotFocus[j] /\ j \notin fingers /\ dead' = dead
    BY <1>3 DEF TouchDown, TypeOK
  <2> QED
    BY <1>2, <2>1
<1>4. ASSUME NEW k \in Slots, TouchUp(k) PROVE ~ Live(slotFocus[j])'
  <2>1. CASE GetSurface = None
    BY <1>0, <1>2, <1>4, <2>1 DEF TouchUp, Lose, TypeOK
  <2>2. CASE GetSurface # None
    BY <1>2, <1>4, <2>2, NoneAssumption DEF TouchUp, TypeOK
  <2> QED
    BY <2>1, <2>2
<1>5. CASE TouchMotion
  BY <1>2, <1>5 DEF TouchMotion
<1>6. CASE TouchCancel
  BY <1>0, <1>2, <1>6 DEF TouchCancel, Lose
<1>7. CASE UNCHANGED touchVars
  BY <1>1, <1>2, <1>7
<1> QED
  BY <1>3, <1>4, <1>5, <1>6, <1>7, TouchSteps

(* All that touches the screen, and all else, keeps the grab honest. *)
LEMMA TouchStep ==
  ASSUME TypeOK, ToplevelsLive, SlotsClear, TouchHonest, [Next]_vars
  PROVE  TouchHonest'
<1> SUFFICES ASSUME lost' = 0 PROVE TouchTrue' /\ (~ stray' => GrabExact')
  BY DEF TouchHonest, TouchTrue, GrabExact
<1>1. lost = 0
  BY LostStays
<1>2. TouchTrue /\ (~ stray => GrabExact)
  BY <1>1 DEF TouchHonest, TouchTrue, GrabExact
<1>3. ASSUME NEW k \in Slots, TouchDown(k) PROVE TouchTrue' /\ (~ stray' => GrabExact')
  <2>1. stray' = stray
    BY <1>3 DEF TouchDown
  <2>2. \A j \in Slots \ fingers : ~ Live(slotFocus[j])
    BY <1>1 DEF SlotsClear
  <2>3. TouchTrue'
    BY <1>2, <1>3, TouchDownHonest
  <2>4. ASSUME GrabExact PROVE GrabExact'
    BY <1>3, <2>2, <2>4, TouchDownExact
  <2> QED
    BY <1>2, <2>1, <2>3, <2>4
<1>4. ASSUME NEW k \in Slots, TouchUp(k) PROVE TouchTrue' /\ (~ stray' => GrabExact')
  <2>1. TouchTrue'
    BY <1>1, <1>2, <1>4, TouchUpHonest
  <2>2. CASE fingers' = {}
    <3>1. TypeOK'
      BY TypeStep
    <3> QED
      BY <2>1, <2>2, <3>1, NoFingers
  <2>3. ASSUME fingers' # {}, ~ stray' PROVE GrabExact'
    <3>1. ~ stray /\ (GetSurface # None /\ TouchGrabbed => slotFocus[k] = touchGrab.focus)
      BY <1>4, <2>3 DEF TouchUp, NoteStray
    <3> QED
      BY <1>1, <1>2, <1>4, <3>1, TouchUpExact
  <2> QED
    BY <2>1, <2>2, <2>3
<1>5. CASE TouchMotion
  <2>1. UNCHANGED <<dead, fingers, slotFocus, touchSeen, stray>> /\ touchGrab' = KeptTouchGrab
    BY <1>5 DEF TouchMotion
  <2>2. (TouchGrabbed' <=> TouchGrabbed) /\ (TouchGrabbed => touchGrab' = touchGrab)
    BY <2>1 DEF KeptTouchGrab, TouchGrabbed
  <2> QED
    BY <1>2, <2>1, <2>2 DEF TouchTrue, GrabExact, FingersOn
\* A gesture that is cancelled at nobody's cost was on no surface.
<1>6. CASE TouchCancel
  <2>1. /\ UNCHANGED <<dead, slotFocus, touchSeen, touchGrab>> /\ fingers' = {}
        /\ \A k \in fingers : ~ Live(slotFocus[k])
    BY <1>1, <1>6 DEF TouchCancel, Lose
  <2>2. \A s \in Surfaces \ dead : FingersOn(s) = {} /\ FingersOn(s)' = {}
    BY <2>1 DEF FingersOn
  <2>3. ~ TouchGrabbed
    BY <1>2, <2>2, GrabRecord, FS_EmptySet DEF TouchTrue
  <2> QED
    BY <1>2, <2>1, <2>2, <2>3 DEF TouchTrue, GrabExact, TouchGrabbed
\* A surface that is destroyed is promised nothing any more.
<1>7. CASE UNCHANGED touchVars
  <2>1. dead \subseteq dead'
    BY SurfacesStep
  <2>2. TouchGrabbed' => TouchGrabbed
    BY <1>7, <2>1 DEF TouchGrabbed
  <2>3. TouchGrabbed /\ touchGrab.focus \notin dead' => TouchGrabbed'
    BY <1>7, GrabRecord DEF TouchGrabbed
  <2> QED
    BY <1>2, <1>7, <2>1, <2>2, <2>3 DEF TouchTrue, GrabExact, FingersOn
<1> QED
  BY <1>3, <1>4, <1>5, <1>6, <1>7, TouchSteps
-----------------------------------------------------------------------------
(* The mouse. *)

(* All that the mouse does, and all else, keeps the click grab honest. *)
LEMMA ButtonsStep ==
  ASSUME TypeOK, ToplevelsLive, ButtonsHonest, [Next]_vars
  PROVE  ButtonsHonest'
<1> USE DEF TypeOK, ButtonsHonest
<1>s. dead \subseteq dead'
  BY SurfacesStep
<1>l. lost' = 0 => lost = 0
  BY DEF Next, vars, GetToplevel, DestroyToplevel, DestroySurface, TouchDown,
         TouchUp, TouchMotion, TouchCancel, PointerMotion, MouseCancel, ButtonPress,
         ButtonRelease, KeyPress, KeyRepeat, KeyRelease, Lose
<1>1. CASE PointerMotion
  <2>1. UNCHANGED <<dead, held, pressed, lost>> /\ clickGrab' = KeptClickGrab
    BY <1>1 DEF PointerMotion
  <2>2. CASE UNCHANGED <<ptrFocus, buttonsSeen>>
    BY <2>1, <2>2 DEF KeptClickGrab
  <2>3. ASSUME NEW s, MovePointer(s) PROVE ButtonsHonest'
    <3>1. /\ ptrFocus' = s
          /\ \A t \in Surfaces : buttonsSeen'[t] = IF t = ptrFocus /\ s # ptrFocus
                                                   THEN {} ELSE buttonsSeen[t]
      BY <2>3 DEF MovePointer
    <3>2. pressed' = {} => clickGrab' = None
      BY <2>1 DEF KeptClickGrab
    <3> QED
      BY <2>1, <3>1, <3>2
  <2> QED
    BY <1>1, <2>2, <2>3 DEF PointerMotion
<1>2. ASSUME NEW b \in Buttons, ButtonPress(b) PROVE ButtonsHonest'
  <2>1. /\ UNCHANGED <<dead, ptrFocus, lost>>
        /\ held' = held \cup {b} /\ pressed' = pressed \cup {b}
        /\ \A t \in Surfaces : buttonsSeen'[t] = IF t = ptrFocus
                                 THEN buttonsSeen[t] \cup {b} ELSE buttonsSeen[t]
    BY <1>2 DEF ButtonPress
  <2> QED
    BY <2>1
<1>3. ASSUME NEW b, Release(b)
      PROVE  /\ pressed' = pressed \ {b} /\ (pressed' = {} => clickGrab' = None)
             /\ \A t \in Surfaces : buttonsSeen'[t] = IF t = ptrFocus
                                      THEN buttonsSeen[t] \ {b} ELSE buttonsSeen[t]
  BY <1>3 DEF Release
<1>4. ASSUME NEW b \in Buttons, ButtonRelease(b) PROVE ButtonsHonest'
  <2>1. UNCHANGED <<dead, ptrFocus, lost>> /\ held' = held \ {b} /\ Release(b)
    BY <1>4 DEF ButtonRelease
  <2>2. /\ pressed' = pressed \ {b} /\ (pressed' = {} => clickGrab' = None)
        /\ \A t \in Surfaces : buttonsSeen'[t] = IF t = ptrFocus
                                 THEN buttonsSeen[t] \ {b} ELSE buttonsSeen[t]
    BY <1>3, <2>1
  <2>3. \A s \in Surfaces \ dead' : s # ptrFocus' => buttonsSeen'[s] = {}
    BY <2>1, <2>2
  <2>4. lost' = 0 => /\ pressed' = held'
                     /\ \A s \in Surfaces \ dead' : buttonsSeen'[s] \subseteq held'
    BY <2>1, <2>2
  <2> QED
    BY <2>2, <2>3, <2>4
\* A cancelled drag that costs nothing leaves no button pressed.
<1>5. CASE MouseCancel
  <2>1. /\ UNCHANGED <<dead, ptrFocus>> /\ held' = {} /\ Release(Left)
        /\ lost' = 0 => pressed' = {} /\ lost = 0
    BY <1>5 DEF MouseCancel, Lose
  <2>2. /\ pressed' = pressed \ {Left} /\ (pressed' = {} => clickGrab' = None)
        /\ \A t \in Surfaces : buttonsSeen'[t] = IF t = ptrFocus
                                 THEN buttonsSeen[t] \ {Left} ELSE buttonsSeen[t]
    BY <1>3, <2>1
  <2>3. \A s \in Surfaces \ dead' : s # ptrFocus' => buttonsSeen'[s] = {}
    BY <2>1, <2>2
  <2>4. lost' = 0 => /\ pressed' = held'
                     /\ \A s \in Surfaces \ dead' : buttonsSeen'[s] \subseteq held'
    BY <2>1, <2>2
  <2> QED
    BY <2>2, <2>3, <2>4
<1>6. CASE UNCHANGED pointerVars
  BY <1>6, <1>s, <1>l
<1>7. [Next]_vars => \/ \E b \in Buttons : ButtonPress(b) \/ ButtonRelease(b)
                     \/ PointerMotion \/ MouseCancel \/ UNCHANGED pointerVars
  BY DEF Next, vars, GetToplevel, DestroyToplevel, DestroySurface, TouchDown, TouchUp,
         TouchMotion, TouchCancel, KeyPress, KeyRepeat, KeyRelease
<1> QED
  BY <1>1, <1>2, <1>4, <1>5, <1>6, <1>7

-----------------------------------------------------------------------------
(* The keyboard. *)

(* All that the keyboard does, and all else, keeps the focused client and the
   seat agreed on the keys. *)
LEMMA KeysStep ==
  ASSUME TypeOK, ToplevelsLive, IsFiniteSet(keys), KeysHonest, [Next]_vars
  PROVE  IsFiniteSet(keys') /\ KeysHonest'
<1> USE DEF TypeOK
<1>1. Cardinality(keys) \in Nat
  BY FS_CardinalityType
\* Whoever has the focus is told of the keys that are down.
<1>2. ASSUME UNCHANGED keyVars,
             UNCHANGED focusVars \/ \E s \in Focus : SetKbdFocus(s)
      PROVE  IsFiniteSet(keys') /\ KeysHonest'
  BY <1>2, FocusKept DEF KeysHonest
<1>3. ASSUME NEW k \in Keys, KeyPress(k) PROVE IsFiniteSet(keys') /\ KeysHonest'
  <2>1. /\ keys' = keys \cup {k} /\ k \notin keys /\ kbdFocus' = kbdFocus
        /\ keyCounter' = keyCounter + 1 /\ forwarded' = forwarded \cup {Code[k]}
        /\ \A s \in Surfaces : keysSeen'[s] = IF s = kbdFocus
                                 THEN keysSeen[s] \cup {Code[k]} ELSE keysSeen[s]
    BY <1>3 DEF KeyPress
  <2>2. IsFiniteSet(keys') /\ Cardinality(keys') = Cardinality(keys) + 1
    BY <2>1, FS_AddElement
  <2>3. \A s \in Surfaces : keysSeen'[s] = IF s = kbdFocus' THEN forwarded' ELSE {}
    BY <2>1 DEF KeysHonest
  <2>4. forwarded' \subseteq {Code[j] : j \in keys'}
    BY <2>1 DEF KeysHonest
  <2>5. keyCounter' <= Cardinality(keys')
    BY <1>1, <2>1, <2>2 DEF KeysHonest
  <2> QED
    BY <2>2, <2>3, <2>4, <2>5 DEF KeysHonest
<1>4. ASSUME NEW k \in Keys, KeyRepeat(k) PROVE IsFiniteSet(keys') /\ KeysHonest'
  <2>1. /\ keys' = keys \cup {k} /\ k \notin keys
        /\ UNCHANGED <<keyCounter, forwarded, kbdFocus, keysSeen>>
    BY <1>4 DEF KeyRepeat
  <2>2. IsFiniteSet(keys') /\ Cardinality(keys') = Cardinality(keys) + 1
    BY <2>1, FS_AddElement
  <2> QED
    BY <1>1, <2>1, <2>2 DEF KeysHonest
<1>5. ASSUME NEW k \in Keys, KeyRelease(k) PROVE IsFiniteSet(keys') /\ KeysHonest'
  <2>1. /\ keys' = keys \ {k} /\ k \in keys /\ kbdFocus' = kbdFocus
        /\ keyCounter' = IF keyCounter = 0 THEN 0 ELSE keyCounter - 1
        /\ forwarded' = forwarded \ {Code[k]}
        /\ \A s \in Surfaces : keysSeen'[s] = IF s = kbdFocus
                                 THEN keysSeen[s] \ {Code[k]} ELSE keysSeen[s]
    BY <1>5 DEF KeyRelease
  <2>2. IsFiniteSet(keys') /\ Cardinality(keys') = Cardinality(keys) - 1
    BY <2>1, FS_RemoveElement
  <2>3. Cardinality(keys') \in Nat
    BY <2>2, FS_CardinalityType
  <2>4. \A s \in Surfaces : keysSeen'[s] = IF s = kbdFocus' THEN forwarded' ELSE {}
    BY <2>1 DEF KeysHonest
  <2>5. forwarded' \subseteq {Code[j] : j \in keys'}
    BY <2>1 DEF KeysHonest
  <2>6. keyCounter' <= Cardinality(keys')
    BY <1>1, <2>1, <2>2, <2>3 DEF KeysHonest
  <2> QED
    BY <2>2, <2>4, <2>5, <2>6 DEF KeysHonest
<1>6. FocusOnClick => UNCHANGED focusVars \/ \E s \in Focus : SetKbdFocus(s)
  BY SurfaceLive DEF FocusOnClick
<1>7. [Next]_vars => \/ \E k \in Keys : KeyPress(k) \/ KeyRepeat(k) \/ KeyRelease(k)
                     \/ /\ UNCHANGED keyVars
                        /\ UNCHANGED focusVars \/ \E s \in Focus : SetKbdFocus(s)
  BY <1>6, SurfaceLive
  DEF Next, vars, GetToplevel, DestroyToplevel, DestroySurface, TouchDown, TouchUp,
      TouchMotion, TouchCancel, PointerMotion, MouseCancel, ButtonPress,
      ButtonRelease, Release
<1> QED
  BY <1>2, <1>3, <1>4, <1>5, <1>7

-----------------------------------------------------------------------------
(* The theorems. *)

(* Input and its clients: the inductive invariant of Seat holds in every
   reachable state. *)
THEOREM SeatInvariance == Spec => []SeatInv
<1>1. SeatInv /\ [Next]_vars => SeatInv'
  BY SurfacesStep, TypeStep, SlotsStep, TouchStep, ButtonsStep, KeysStep DEF SeatInv
<1> QED
  BY InitSeat, <1>1, PTL DEF Spec

(* Every variable of the seat, of Android and of the clients keeps its type. *)
THEOREM SeatTyped == Spec => []TypeOK
  BY SeatInvariance, PTL DEF SeatInv

(* With any number of fingers, surfaces and grabs in turn, no client that is
   alive takes a finger to be down that has left, and the grab counts none; it
   counts every finger on its surface until a stray one is counted off. *)
THEOREM TouchesComeUp == Spec => []TouchHonest
  BY SeatInvariance, PTL DEF SeatInv

(* Only the surface under the pointer has buttons pressed, and the click grab
   ends with the last of them. *)
THEOREM ButtonsComeUp == Spec => []ButtonsHonest
  BY SeatInvariance, PTL DEF SeatInv

(* The focused client and the seat agree on the keys, whatever keys share a
   scancode, and the key counter never runs ahead. *)
THEOREM KeysComeUp == Spec => []KeysHonest
  BY SeatInvariance, PTL DEF SeatInv

(* A finger that goes down reaches a client that is alive. *)
THEOREM TouchesReach == Spec => TouchReaches
<1>1. SeatInv /\ [Next]_vars =>
        [\A k \in Slots : k \in fingers' \ fingers /\ GetSurface # None =>
           /\ Live(slotFocus'[k])
           /\ slotFocus'[k] # GetSurface => TouchGrabbed]_vars
  <2> SUFFICES ASSUME SeatInv, [Next]_vars,
                      NEW k \in Slots, k \in fingers' \ fingers, GetSurface # None
               PROVE  /\ Live(slotFocus'[k])
                      /\ slotFocus'[k] # GetSurface => TouchGrabbed
    OBVIOUS
  <2>1. PICK j \in Slots : TouchDown(j)
    BY DEF Next, vars, GetToplevel, DestroyToplevel, DestroySurface, TouchUp,
           TouchMotion, TouchCancel, PointerMotion, MouseCancel, ButtonPress,
           ButtonRelease, KeyPress, KeyRepeat, KeyRelease
  <2>2. j = k /\ slotFocus'[k] = touchGrab'.focus
    BY <2>1 DEF TouchDown, SeatInv, TypeOK
  <2>3. GetSurface \in Surfaces \ dead
    BY SurfaceLive DEF SeatInv
  <2>4. touchGrab'.focus = IF TouchGrabbed THEN touchGrab.focus ELSE GetSurface
    BY <2>1, GrabRecord DEF TouchDown, SeatInv
  <2> QED
    BY <2>2, <2>3, <2>4, GrabRecord DEF SeatInv
<1> QED
  BY SeatInvariance, <1>1, PTL DEF Spec, TouchReaches

(* A drag stays on the surface it began on. *)
THEOREM DragsStay == Spec => DragStays
<1>1. [Next]_vars => [/\ clickGrab # None /\ ptrFocus = clickGrab.focus /\ ptrFocus \notin dead
                      /\ pressed' # {}
                      => ptrFocus' = ptrFocus]_vars
  BY DEF Next, vars, GetToplevel, DestroyToplevel, DestroySurface, TouchDown, TouchUp,
         TouchMotion, TouchCancel, PointerMotion, MovePointer, KeptClickGrab,
         MouseCancel, ButtonPress, ButtonRelease, KeyPress, KeyRepeat, KeyRelease
<1> QED
  BY <1>1, PTL DEF Spec, DragStays
=============================================================================
