------------------------------ MODULE MCGpuNms ------------------------------
(* Three boxes in blocks of two threads, so that the last block is partly  *)
(* filled, and every overlap relation on earlier-later pairs.  The rest of *)
(* the relation is only ever read into mask words that the reduction skips.*)
EXTENDS GpuNms
Ordered == SUBSET {p \in Boxes \X Boxes : p[1] < p[2]}
=============================================================================
