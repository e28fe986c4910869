----------------------------- MODULE MCDataPlane ----------------------------
(* A device with one queue of two descriptors (block, rng) or with an RX queue the
   dispatcher polls and a TX queue (net, console).  Indices wrap at four, so a
   few chains pass both the end of the ring and the end of the index. *)
EXTENDS DataPlane

NoPolled == {}
RxQueue == {0}
=============================================================================
