---------------------------- MODULE SurfaceTree ----------------------------
(***************************************************************************)
(* What a client commits and what is shown: smithay's double-buffered      *)
(* surface state with its cache of commits, the transactions that make the *)
(* commits of synchronized subsurfaces wait for their parent's,            *)
(* on_commit_buffer_handler(), and the frame callbacks a Redraw answers.   *)
(* Every surface has buffers of its own, all of the client at first.       *)
(* A request is one action: all runs on the event loop's thread.  The      *)
(* tree is a toplevel, 1, its subsurface, 2, that one's subsurface, 3, and *)
(* so on; siblings take part one after the other in the same way.          *)
(***************************************************************************)
EXTENDS Naturals, Sequences, FiniteSets, SequencesExt

CONSTANTS
  Depth,       \* the length of the chain
  Buffers,     \* the buffers of a surface
  Unreadable,  \* those of which buffer_dimensions() makes nothing
  MaxRequests  \* bound on the requests of each kind

Kinds == {"content", "commit", "mode"}

ASSUME DepthAssumption == Depth \in Nat \ {0}
ASSUME BuffersAssumption ==
  Unreadable \subseteq Buffers /\ {"none", "removed"} \cap Buffers = {}
ASSUME BoundsAssumption == MaxRequests \in [Kinds -> Nat]

Surfaces == 1 .. Depth

VARIABLES
  requests, \* how many requests of each kind came so far
  asked,    \* how many frame callbacks, numbered as they come, came so far
  sync,     \* SubsurfaceState.sync; the toplevel has none
  pending,  \* CachedState.pending of SurfaceAttributes
  cache,    \* CachedState.cache: commits, by id, that are not applied
  current,  \* CachedState.current
  txid,     \* current_txid
  tx,       \* pending_transaction: surfaces and the id to apply up to
  shown,    \* RendererSurfaceState.buffer
  idle,     \* the client may draw into: not committed, or released since
  reused,   \* (history) the surfaces that committed a buffer that was not idle
  done      \* the frame callbacks answered

vars == <<requests, asked, sync, pending, cache, current, txid, tx, shown, idle, reused, done>>

(* SurfaceAttributes.buffer: None, Removed or a NewBuffer. *)
Assignments == Buffers \cup {"none", "removed"}
States == [buffer : Assignments, frames : Seq(Nat)]
Nothing == [buffer |-> "none", frames |-> <<>>]

TypeOK ==
  /\ requests \in [Kinds -> Nat] /\ asked \in [Surfaces -> Nat]
  /\ sync \in [Surfaces -> BOOLEAN]
  /\ pending \in [Surfaces -> States] /\ current \in [Surfaces -> States]
  /\ cache \in [Surfaces -> Seq([id : Nat, state : States])]
  /\ txid \in [Surfaces -> Nat] /\ tx \in [Surfaces -> Seq(Surfaces \X Nat)]
  /\ \A s \in Surfaces : IsInjective([i \in DOMAIN tx[s] |-> tx[s][i][1]])
  /\ shown \in [Surfaces -> Buffers \cup {"none"}]
  /\ idle \in [Surfaces -> SUBSET Buffers] /\ reused \subseteq Surfaces
  /\ done \in [Surfaces -> Seq(Nat)]

Init ==
  /\ requests = [k \in Kinds |-> 0] /\ asked = [s \in Surfaces |-> 0]
  /\ sync = [s \in Surfaces |-> s # 1]
  /\ pending = [s \in Surfaces |-> Nothing] /\ current = pending
  /\ cache = [s \in Surfaces |-> <<>>]
  /\ txid = [s \in Surfaces |-> 0] /\ tx = [s \in Surfaces |-> <<>>]
  /\ shown = [s \in Surfaces |-> "none"]
  /\ idle = [s \in Surfaces |-> Buffers] /\ reused = {}
  /\ done = [s \in Surfaces |-> <<>>]

(* is_effectively_sync(). *)
IsSync(s) == \E a \in 1 .. s : sync[a]

-----------------------------------------------------------------------------
(* Transactions. *)

(* Mutant: a surface is put into a transaction as often as it commits. *)
Insert_Again(t, s, id) == Append(t, <<s, id>>)

(* TransactionState::insert. *)
Insert(t, s, id) ==
  IF \E i \in DOMAIN t : t[i][1] = s
  THEN [i \in DOMAIN t |-> IF t[i][1] = s /\ t[i][2] < id THEN <<s, id>> ELSE t[i]]
  ELSE Append(t, <<s, id>>)

(* PendingTransaction::merge_into. *)
MergeTx(t, into) == FoldLeft(LAMBDA acc, e : Insert(acc, e[1], e[2]), into, t)

(* MultiCache::commit(Some(txid)): what is pending goes to the cache, and from
   here on the server has its buffer. *)
Snapshot(w, s) ==
  LET b == w.pending[s].buffer
  IN [w EXCEPT !.cache[s] = Append(@, [id |-> w.txid[s], state |-> w.pending[s]]),
               !.pending[s] = Nothing,
               !.idle[s] = @ \ {b},
               !.reused = @ \cup (IF b \in Buffers \ w.idle[s] THEN {s} ELSE {})]

(* The transaction of s becomes a part of its parent's. *)
HandUp(w, s) ==
  [w EXCEPT !.tx[s - 1] = MergeTx(w.tx[s], @), !.tx[s] = <<>>, !.txid[s] = @ + 1]

(* commit_sync_surface_tree() of s, its descendants being done. *)
CommitSync(w, s) ==
  HandUp([Snapshot(w, s) EXCEPT !.tx[s] = Insert(@, s, w.txid[s])], s)

(* Mutant: only the child is taken along, not what is below it. *)
TakeChildren_One(w, s) ==
  CASE s < Depth /\ IsSync(s) -> HandUp(w, s + 1)
    [] s < Depth /\ ~ IsSync(s) /\ sync[s + 1] -> CommitSync(w, s + 1)
    [] OTHER -> w

(* The loop over the children in commit(). *)
TakeChildren(w, s) ==
  CASE s < Depth /\ IsSync(s) -> HandUp(w, s + 1)
    [] s < Depth /\ ~ IsSync(s) /\ sync[s + 1] ->
         FoldLeft(CommitSync, w, [i \in 1 .. Depth - s |-> Depth + 1 - i])
    [] OTHER -> w

(* Mutant: the new callbacks replace those that wait. *)
Merge_DropsFrames(new, into) ==
  [buffer |-> IF new.buffer # "none" THEN new.buffer ELSE into.buffer,
   frames |-> new.frames]

(* SurfaceAttributes::merge_into. *)
Merge(new, into) ==
  [buffer |-> IF new.buffer # "none" THEN new.buffer ELSE into.buffer,
   frames |-> into.frames \o new.frames]

(* The oldest cached commit becomes current; a buffer it replaces by another one
   or by none is released. *)
MakeCurrent(w, s) ==
  LET new == Head(w.cache[s]).state
      old == w.current[s].buffer
  IN [w EXCEPT !.cache[s] = Tail(@), !.current[s] = Merge(new, @),
               !.idle[s] = IF new.buffer \in {"none", old} THEN @
                           ELSE @ \cup ({old} \cap Buffers)]

(* apply_state(): its loop ends at the first commit that is later than id. *)
ApplyState(w, s, id) ==
  FoldLeft(LAMBDA acc, c : IF acc.cache[s] = <<>> \/ Head(acc.cache[s]).id > id
                           THEN acc ELSE MakeCurrent(acc, s),
           w, w.cache[s])

(* What is shown once an assignment is taken: a buffer without dimensions resets
   the state as a removed one does, and is dropped without a release. *)
Show(assignment) == IF assignment \in Buffers \ Unreadable THEN assignment ELSE "none"

(* Mutant: a new buffer takes the old one's place and nothing is released. *)
UpdateBuffer_Leaks(w, tree) ==
  LET new == {s \in tree : w.current[s].buffer # "none"}
  IN [w EXCEPT
        !.shown = [s \in Surfaces |-> IF s \in new THEN Show(w.current[s].buffer) ELSE @[s]],
        !.current = [s \in Surfaces |-> IF s \in new THEN [@[s] EXCEPT !.buffer = "none"]
                                         ELSE @[s]]]

(* RendererSurfaceState::update_buffer of the surfaces of a tree: dropping the
   buffer that was shown releases it. *)
UpdateBuffer(w, tree) ==
  LET new == {s \in tree : w.current[s].buffer # "none"}
  IN [w EXCEPT
        !.shown = [s \in Surfaces |-> IF s \in new THEN Show(w.current[s].buffer) ELSE @[s]],
        !.idle = [s \in Surfaces |->
                    IF s \in new THEN @[s] \cup ({w.shown[s]} \ {"none", w.current[s].buffer})
                    ELSE @[s]],
        !.current = [s \in Surfaces |-> IF s \in new THEN [@[s] EXCEPT !.buffer = "none"]
                                         ELSE @[s]]]

(* on_commit_buffer_handler() updates s and all that is below it. *)
OnCommit(w, s) == IF IsSync(s) THEN w ELSE UpdateBuffer(w, s .. Depth)

(* Transaction::apply, of what nothing blocks. *)
ApplyTx(w, s) ==
  FoldLeft(LAMBDA acc, e : OnCommit(ApplyState(acc, e[1], e[2]), e[1]),
           [w EXCEPT !.tx[s] = <<>>], w.tx[s])

-----------------------------------------------------------------------------
(* Requests. *)

(* A request of a kind is counted: of what a commit brings ("content"), a commit, a
   change of a subsurface's mode. *)
Request(kind) ==
  /\ requests[kind] < MaxRequests[kind]
  /\ requests' = [requests EXCEPT ![kind] = @ + 1]

(* wl_surface.attach: the last one before a commit counts; the one it overwrites
   was never the server's. *)
Attach(s, assignment) ==
  /\ Request("content")
  /\ pending' = [pending EXCEPT ![s].buffer = assignment]
  /\ UNCHANGED <<asked, sync, cache, current, txid, tx, shown, idle, reused, done>>

(* wl_surface.frame. *)
Frame(s) ==
  /\ Request("content")
  /\ asked' = [asked EXCEPT ![s] = @ + 1]
  /\ pending' = [pending EXCEPT ![s].frames = Append(@, asked'[s])]
  /\ UNCHANGED <<sync, cache, current, txid, tx, shown, idle, reused, done>>

(* Mutant: a synchronized subsurface does not wait. *)
Settle_Always(w, s) == ApplyTx(w, s)

(* What is committed is applied at once unless it waits for the parent. *)
Settle(w, s) == IF IsSync(s) THEN w ELSE ApplyTx(w, s)

World == [pending |-> pending, cache |-> cache, current |-> current, txid |-> txid,
          tx |-> tx, shown |-> shown, idle |-> idle, reused |-> reused]

(* PrivateSurfaceData::commit. *)
Commit(s) ==
  /\ Request("commit")
  /\ LET id == txid[s]
         mine == TakeChildren(Snapshot(World, s), s)
         w == Settle([mine EXCEPT !.tx[s] = Insert(@, s, id), !.txid[s] = id + 1], s)
     IN /\ pending' = w.pending /\ cache' = w.cache /\ current' = w.current
        /\ txid' = w.txid /\ tx' = w.tx /\ shown' = w.shown /\ idle' = w.idle
        /\ reused' = w.reused
  /\ UNCHANGED <<asked, sync, done>>

SetSync(s, on) ==
  /\ Request("mode") /\ s # 1 /\ sync[s] # on
  /\ sync' = [sync EXCEPT ![s] = on]
  /\ UNCHANGED <<asked, pending, cache, current, txid, tx, shown, idle, reused, done>>

(* send_frames_surface_tree() of the toplevel. *)
Redraw ==
  /\ done' = [s \in Surfaces |-> done[s] \o current[s].frames]
  /\ current' = [s \in Surfaces |-> [current[s] EXCEPT !.frames = <<>>]]
  /\ UNCHANGED <<requests, asked, sync, pending, cache, txid, tx, shown, idle, reused>>

Next ==
  \/ \E s \in Surfaces :
       \/ \E b \in Buffers \cup {"removed"} : Attach(s, b)
       \/ Frame(s)
       \/ Commit(s)
       \/ \E on \in BOOLEAN : SetSync(s, on)
  \/ Redraw

Spec == Init /\ [][Next]_vars

-----------------------------------------------------------------------------
(* Properties. *)

FramesOf(states) == FlattenSeq([i \in DOMAIN states |-> states[i].state.frames])

(* On its way from the client through the cache to the answer no frame callback
   is lost, answered twice or overtaken, whichever surfaces wait for each other
   (handlers.rs:112-148, cache.rs:103-131). *)
CallbacksConserved ==
  \A s \in Surfaces :
    done[s] \o current[s].frames \o FramesOf(cache[s]) \o pending[s].frames
      = [i \in 1 .. asked[s] |-> i]

(* A buffer that can be read is never lost: once committed the server has it,
   cached, current or shown, until it is released.  And none is released that
   the server still has, as long as the client commits only buffers that it got
   back: it neither runs out of buffers nor draws into one that is on the screen
   (handlers.rs:126-138, wayland.rs:151-185). *)
BuffersAccounted ==
  \A s \in Surfaces :
    LET cached == {cache[s][i].state.buffer : i \in DOMAIN cache[s]}
        held == (cached \cup {current[s].buffer, shown[s]}) \cap Buffers
    IN /\ Buffers \ Unreadable \subseteq held \cup idle[s]
       /\ s \notin reused => held \cap idle[s] = {}

(* What a surface that is held back has to show changes only in a commit of an
   ancestor that is not, whatever the surface itself commits meanwhile
   (tree.rs:302-329, wayland.rs:370). *)
NoTearing ==
  [][\A s \in Surfaces :
       IsSync(s) /\ <<current[s].buffer, shown[s]>>' # <<current[s].buffer, shown[s]>> =>
         \E r \in 1 .. s - 1 : ~ IsSync(r) /\ Commit(r)]_vars

(* A commit of a surface nothing holds back leaves nothing in the caches of the
   subsurfaces that wait for it, whichever of them committed and however often
   (transaction.rs:11-27). *)
AppliedTogether ==
  [][\A r \in Surfaces :
       ~ IsSync(r) /\ Commit(r) =>
         \A d \in r .. Depth : (\A e \in r + 1 .. d : sync[e]) => cache'[d] = <<>>]_vars

=============================================================================
