---------------------------- MODULE MCSurfaceTree ----------------------------
(***************************************************************************)
(* The requests the run of SurfaceTree explores: three buffers for each    *)
(* surface, of which the renderer cannot read one, up to three attach and  *)
(* frame requests, three commits and two changes of a mode, in every       *)
(* order and spread over the surfaces in every way.                        *)
(***************************************************************************)
EXTENDS SurfaceTree

CONSTANTS b1, b2, bad

MCBuffers == {b1, b2, bad}
MCUnreadable == {bad}
MCMaxRequests == [content |-> 3, commit |-> 3, mode |-> 2]

(* The actions treat the readable buffers alike. *)
Symmetry == Permutations({b1, b2})
=============================================================================
