---------------------------- MODULE MCShadowControl ----------------------------
(* A small instance of ShadowControl: a deficit that takes both batteries,    *)
(* none, and a surplus that either could take.                              *)
EXTENDS ShadowControl

Scarce == {-3, 0, 2}
=============================================================================
