-------------------------- MODULE QuiescenceBufferMC --------------------------
(* Instances of QuiescenceBuffer for TLC. *)
EXTENDS QuiescenceBuffer
=============================================================================
