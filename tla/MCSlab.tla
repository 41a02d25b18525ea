------------------------------ MODULE MCSlab ------------------------------
(***************************************************************************)
(* A small instance of Slab: four frames of eight QWORDs, a header of      *)
(* six.  The kmalloc cache puts two objects in a frame; the caches that    *)
(* can be created need two frames for a slab, one because of its alignment *)
(* and one because of its size.  Two QWORDs and nine are kmalloc requests  *)
(* that take frames of their own, of order 0 and 1.                        *)
(***************************************************************************)
EXTENDS Slab

MCRequests == {<<3, 4>>, <<4, 1>>}
MCSizes == {1, 2, 9}
=============================================================================
