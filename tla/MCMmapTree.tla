---------------------------- MODULE MCMmapTree ----------------------------
(* Four pages: room for two mappings side by side, a mapping that spans    *)
(* both, a partial unmap that leaves residuals on both sides, and an       *)
(* mremap that grows in place or moves.  The configurations choose whether *)
(* the application uses MAP_FIXED and MREMAP_MAYMOVE.                      *)
EXTENDS MmapTree
=============================================================================
