------------------------------ MODULE XdgShell ------------------------------
(***************************************************************************)
(* Windows of the clients: smithay's xdg_shell, from the role object a     *)
(* client asks for over the configures it is sent and acknowledges to the  *)
(* commits that make them current, and what the app's handlers do on the   *)
(* way.  Requests are handled on the event loop's thread, one is one       *)
(* action; configures wait in the client's queue until it comes to them.   *)
(* The clients keep to the protocol.                                       *)
(***************************************************************************)
EXTENDS Serial, Retaining, Sequences, FiniteSets, SequencesExt

CONSTANTS
  Surfaces, \* the wl_surfaces
  Sizes,    \* the sizes a resumed window may have
  Start,    \* where the serial counter is
  MaxTaken  \* bound on the serials taken, for configures and for input

ASSUME SizesAssumption == Sizes \subseteq Nat \ {0}
ASSUME StartAssumption == Start \in 0 .. MaxValue
ASSUME MaxTakenAssumption == MaxTaken \in 0 .. Far - 2

VARIABLES
  size,    \* State.size
  counter, \* SERIAL_COUNTER
  taken,   \* how many serials were taken from it
  role,    \* the role of each wl_surface, given for good
  object,  \* whether its xdg_toplevel or xdg_popup exists
  att,     \* its role attributes
  drawn,   \* whether its RendererSurfaceState has a buffer: "unknown" before
  inbox,   \* the serials of the configures its client has not come to
  phase,   \* what its client is about
  ready,   \* whether the client acknowledged a configure since it last began
  stale,   \* the surfaces whose inbox may hold configures of an earlier object
  refused, \* the surfaces whose client was disconnected for an ack
  born     \* history: State.size and the next serial when it got its object

vars == <<size, counter, taken, role, object, att, drawn, inbox, phase, ready,
          stale, refused, born>>

Roles == {"toplevel", "popup"}
Phases == {"none", "new", "waiting", "mapped", "unmapped", "waiting again"}
Configure == [serial : 1 .. MaxValue, size : Sizes]
Nothing == [serial |-> 0, size |-> 0]

(* XdgToplevelSurfaceRoleAttributes and XdgPopupSurfaceRoleAttributes; what was
   acknowledged or is current is Nothing before there is any. *)
Attributes ==
  [initial_configure_sent : BOOLEAN, pending_configures : Seq(Configure),
   last_acked : Configure \cup {Nothing}, current : Configure \cup {Nothing},
   has_buffer : BOOLEAN]
DefaultAttributes ==
  [initial_configure_sent |-> FALSE, pending_configures |-> <<>>,
   last_acked |-> Nothing, current |-> Nothing, has_buffer |-> FALSE]

TypeOK ==
  /\ size \in Sizes /\ counter \in 0 .. MaxValue /\ taken \in 0 .. MaxTaken
  /\ role \in [Surfaces -> Roles \cup {"none"}] /\ object \in [Surfaces -> BOOLEAN]
  /\ att \in [Surfaces -> Attributes]
  /\ drawn \in [Surfaces -> {"unknown", "no", "yes"}]
  /\ inbox \in [Surfaces -> Seq(1 .. MaxValue)]
  /\ phase \in [Surfaces -> Phases] /\ ready \in [Surfaces -> BOOLEAN]
  /\ stale \subseteq Surfaces /\ refused \subseteq Surfaces
  /\ born \in [Surfaces -> [size : Sizes \cup {0}, serial : 0 .. MaxValue]]

Init ==
  /\ size \in Sizes /\ counter = Start /\ taken = 0
  /\ role = [s \in Surfaces |-> "none"] /\ object = [s \in Surfaces |-> FALSE]
  /\ att = [s \in Surfaces |-> DefaultAttributes]
  /\ drawn = [s \in Surfaces |-> "unknown"]
  /\ inbox = [s \in Surfaces |-> <<>>] /\ phase = [s \in Surfaces |-> "none"]
  /\ ready = [s \in Surfaces |-> FALSE] /\ stale = {} /\ refused = {}
  /\ born = [s \in Surfaces |-> [size |-> 0, serial |-> 0]]

-----------------------------------------------------------------------------
(* Configures. *)

(* Mutant: what was sent and not acknowledged is forgotten. *)
CurrentServerState_Acked(a) ==
  IF a.last_acked # Nothing THEN a.last_acked.size ELSE a.current.size

(* current_server_state(). *)
CurrentServerState(a) ==
  CASE a.pending_configures # <<>> -> Last(a.pending_configures).size
    [] a.pending_configures = <<>> /\ a.last_acked # Nothing -> a.last_acked.size
    [] OTHER -> a.current.size

(* ToplevelSurface::send_configure. *)
SendConfigure(s, x) ==
  /\ taken < MaxTaken /\ taken' = taken + 1
  /\ counter' = Advance(counter)
  /\ att' = [att EXCEPT
       ![s].pending_configures = Append(@, [serial |-> NextSerial(counter), size |-> x]),
       ![s].initial_configure_sent = TRUE]
  /\ inbox' = [inbox EXCEPT ![s] = Append(@, NextSerial(counter))]

(* The position of the first configure with the serial. *)
Find(q, n) ==
  CHOOSE i \in DOMAIN q : q[i].serial = n /\ \A j \in 1 .. i - 1 : q[j].serial # n

(* Mutant: acknowledging drops the newer ones. *)
AckConfigure_KeepsOlder(a, n) ==
  LET q == a.pending_configures
  IN [a EXCEPT !.last_acked = q[Find(q, n)],
               !.pending_configures = Retain(q, {i \in DOMAIN q : Older(q[i].serial, n)})]

(* ack_configure() of a serial that is pending. *)
AckConfigure(a, n) ==
  LET q == a.pending_configures
  IN [a EXCEPT !.last_acked = q[Find(q, n)],
               !.pending_configures = Retain(q, {i \in DOMAIN q : Older(n, q[i].serial)})]

(* Every touch, click and key takes a serial from the same counter. *)
TakeSerial ==
  /\ taken < MaxTaken /\ taken' = taken + 1
  /\ counter' = Advance(counter)
  /\ UNCHANGED <<size, role, object, att, drawn, inbox, phase, ready, stale,
                 refused, born>>

-----------------------------------------------------------------------------
(* Requests. *)

(* A client that was refused makes no more of them. *)
Connected(s) == s \notin refused

(* Mutant: only the first toplevel of a surface is configured. *)
NewToplevel_Once(s) ==
  IF role[s] = "none" THEN SendConfigure(s, size) ELSE UNCHANGED <<counter, taken, att, inbox>>

(* The app's new_toplevel. *)
NewToplevel(s) == SendConfigure(s, size)

(* A client gives a role to a surface without a buffer. *)
CanGetRole(s, r) ==
  Connected(s) /\ ~ object[s] /\ role[s] \in {"none", r} /\ drawn[s] # "yes"

GetToplevel(s) ==
  /\ CanGetRole(s, "toplevel")
  /\ NewToplevel(s)
  /\ role' = [role EXCEPT ![s] = "toplevel"]
  /\ object' = [object EXCEPT ![s] = TRUE]
  /\ phase' = [phase EXCEPT ![s] = "new"] /\ ready' = [ready EXCEPT ![s] = FALSE]
  /\ born' = [born EXCEPT ![s] = [size |-> size, serial |-> NextSerial(counter)]]
  /\ UNCHANGED <<size, drawn, stale, refused>>

(* The app's new_popup does nothing. *)
GetPopup(s) ==
  /\ CanGetRole(s, "popup") /\ \E p \in Surfaces \ {s} : object[p]
  /\ role' = [role EXCEPT ![s] = "popup"]
  /\ object' = [object EXCEPT ![s] = TRUE]
  /\ att' = [att EXCEPT ![s] = DefaultAttributes]
  /\ phase' = [phase EXCEPT ![s] = "new"] /\ ready' = [ready EXCEPT ![s] = FALSE]
  /\ UNCHANGED <<size, counter, taken, drawn, inbox, stale, refused, born>>

(* SetMaximized and SetFullscreen, which the app leaves to the defaults. *)
MaximizeRequest(s) ==
  /\ Connected(s) /\ role[s] = "toplevel" /\ object[s]
  /\ SendConfigure(s, CurrentServerState(att[s]))
  /\ UNCHANGED <<size, role, object, drawn, phase, ready, stale, refused, born>>

(* A client acknowledges a configure it has come to, and with it all before;
   one of an object that is gone is not among the pending. *)
Ack(s) ==
  \E i \in DOMAIN inbox[s] :
    /\ Connected(s)
    /\ inbox' = [inbox EXCEPT ![s] = SubSeq(@, i + 1, Len(@))]
    /\ ready' = [ready EXCEPT ![s] = TRUE]
    /\ IF \E j \in DOMAIN att[s].pending_configures :
            att[s].pending_configures[j].serial = inbox[s][i]
       THEN /\ att' = [att EXCEPT ![s] = AckConfigure(@, inbox[s][i])]
            /\ UNCHANGED refused
       ELSE refused' = refused \cup {s} /\ UNCHANGED att
    /\ UNCHANGED <<size, counter, taken, role, object, drawn, phase, stale, born>>

(* The role's hook.  It runs before the commit's own buffer gets to the renderer. *)
CommitHook(s) ==
  LET a == att[s]
      told == a.initial_configure_sent /\ ~ (a.has_buffer /\ drawn[s] = "no")
  IN [a EXCEPT
        !.initial_configure_sent = told,
        !.has_buffer = IF drawn[s] = "unknown" THEN @ ELSE drawn[s] = "yes",
        !.current = IF a.last_acked # Nothing /\ (role[s] = "toplevel" \/ told)
                    THEN a.last_acked ELSE @]

(* A commit; buffer says whether there is one from then on. *)
Commit(s, buffer) ==
  /\ Connected(s)
  /\ att' = [att EXCEPT ![s] = IF role[s] = "none" THEN @ ELSE CommitHook(s)]
  /\ drawn' = [drawn EXCEPT ![s] = buffer]
  /\ UNCHANGED <<size, counter, taken, role, object, inbox, stale, refused, born>>

(* The commit a client makes to be told its first configure. *)
CommitInitial(s) ==
  /\ phase[s] \in {"new", "unmapped"}
  /\ phase' = [phase EXCEPT ![s] = IF @ = "new" THEN "waiting" ELSE "waiting again"]
  /\ Commit(s, "no") /\ UNCHANGED ready

CommitBuffer(s) ==
  /\ phase[s] \in {"waiting", "waiting again", "mapped"} /\ ready[s]
  /\ phase' = [phase EXCEPT ![s] = "mapped"]
  /\ Commit(s, "yes") /\ UNCHANGED ready

CommitNoBuffer(s) ==
  /\ drawn[s] = "yes"
  /\ phase' = [phase EXCEPT ![s] = IF object[s] THEN "unmapped" ELSE @]
  /\ ready' = [ready EXCEPT ![s] = FALSE]
  /\ Commit(s, "no")

(* Mutant: the attributes outlive their object. *)
Destroyed_Keeps(s) == UNCHANGED att

(* The attributes go back to their defaults. *)
Destroyed(s) == att' = [att EXCEPT ![s] = DefaultAttributes]

(* The client may keep the xdg_surface, and with it the configures it has not
   come to. *)
DestroyRole(s, kept) ==
  /\ Connected(s) /\ object[s]
  /\ object' = [object EXCEPT ![s] = FALSE]
  /\ Destroyed(s)
  /\ inbox' = [inbox EXCEPT ![s] = IF kept THEN @ ELSE <<>>]
  /\ stale' = IF kept /\ inbox[s] # <<>> THEN stale \cup {s} ELSE stale \ {s}
  /\ phase' = [phase EXCEPT ![s] = "none"]
  /\ UNCHANGED <<size, counter, taken, role, drawn, ready, refused, born>>

(* It gives the xdg_surface up as well, or lets those configures pass. *)
Discard(s) ==
  /\ Connected(s) /\ ~ object[s] /\ inbox[s] # <<>>
  /\ inbox' = [inbox EXCEPT ![s] = <<>>] /\ stale' = stale \ {s}
  /\ UNCHANGED <<size, counter, taken, role, object, att, drawn, phase, ready,
                 refused, born>>

(* PolarBearApp::resumed: the toplevels that are there are not told. *)
Resumed(x) ==
  /\ x # size /\ size' = x
  /\ UNCHANGED <<counter, taken, role, object, att, drawn, inbox, phase, ready, stale, refused, born>>

Next ==
  \/ \E s \in Surfaces :
       \/ GetToplevel(s) \/ GetPopup(s) \/ MaximizeRequest(s) \/ Ack(s)
       \/ CommitInitial(s) \/ CommitBuffer(s) \/ CommitNoBuffer(s)
       \/ DestroyRole(s, TRUE) \/ DestroyRole(s, FALSE) \/ Discard(s)
  \/ TakeSerial \/ \E x \in Sizes : Resumed(x)

Spec == Init /\ [][Next]_vars

(* A client comes to its events and goes on as far as it may. *)
FairSpec ==
  Spec /\ \A s \in Surfaces : WF_vars(Ack(s)) /\ WF_vars(CommitInitial(s))
                                /\ WF_vars(CommitBuffer(s))

-----------------------------------------------------------------------------
(* Properties. *)

(* What is current was acknowledged no later than what is, and all that is
   pending was sent after it, in order (mod.rs:171-173, 220-245), also when the
   serials wrapped around in between. *)
ConfiguresOrdered ==
  \A s \in Surfaces :
    LET a == att[s]
        known == <<a.current, a.last_acked>> \o a.pending_configures
    IN \A i, j \in DOMAIN known :
         i < j /\ known[i] # Nothing =>
           \/ Older(known[i].serial, known[j].serial)
           \/ j = 2 /\ known[i] = known[j]

(* The configures a client may still acknowledge are those the server still
   waits for, so no client that keeps to the order is disconnected for it, save
   for one that kept an xdg_surface with configures of a role object it had
   destroyed: the server forgot those (toplevel.rs:170-187). *)
AcksAccepted ==
  /\ refused \subseteq stale
  /\ \A s \in Surfaces \ stale :
       inbox[s] = [i \in DOMAIN att[s].pending_configures |->
                     att[s].pending_configures[i].serial]

(* No configure loses the size told at creation, whether or not the ones before
   it were acknowledged (mod.rs:258-277), and a toplevel made anew takes nothing
   from the one its surface had before. *)
SizeKept ==
  \A s \in Surfaces :
    LET a == att[s]
        told == {a.current, a.last_acked} \cup ToSet(a.pending_configures)
    IN \A c \in told \ {Nothing} : c.size = born[s].size /\ ~ Older(c.serial, born[s].serial)

(* Every toplevel gets to show its first buffer, also one made anew on a surface
   that had one before: the one configure the app sends by itself, when it is
   made (compositor.rs:78-84), is enough for that, and for no more: a toplevel
   mapped again and a popup are not sent any.  One whose client was disconnected
   does not. *)
FirstMap ==
  \A s \in Surfaces :
    phase[s] = "new" /\ role[s] = "toplevel"
      ~> phase[s] \notin {"new", "waiting"} \/ s \in refused
=============================================================================
