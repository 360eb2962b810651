------------------------- MODULE ReallocShadowCheck -------------------------
(***************************************************************************)
(* ReallocShadow on every shadow map over a few bytes and every placement  *)
(* of the old and new regions in them: disjoint either way, adjacent,      *)
(* overlapping either way, equal, and one inside the other.  Each state    *)
(* is one input; the spec is a single stuttering step.                     *)
(***************************************************************************)
EXTENDS Shadow

CONSTANT MaxAddr   \* the bytes are 0 .. MaxAddr

Mem == 0 .. MaxAddr

VARIABLES s, old_base, old_size, new_base, new_size

vars == <<s, old_base, old_size, new_base, new_size>>

(* Regions of at least one byte inside Mem.                                *)
Init ==
  /\ s \in [Mem -> Tags]
  /\ old_base \in Mem /\ old_size \in 1 .. (MaxAddr + 1 - old_base)
  /\ new_base \in Mem /\ new_size \in 1 .. (MaxAddr + 1 - new_base)

Spec == Init /\ [][UNCHANGED vars]_vars

(* What spec 4.6 says realloc does to the shadow: a byte of the new region *)
(* takes the tag of the old byte at the same offset while the old region   *)
(* lasts and is undefined beyond it, a byte only in the old region becomes *)
(* unaddressable, and every other byte keeps its tag.                      *)
ReallocReference ==
  [a \in Mem |->
     IF new_base <= a /\ a < new_base + new_size
       THEN IF a - new_base < old_size THEN s[old_base + (a - new_base)]
            ELSE SHADOW_UNDEFINED
     ELSE IF old_base <= a /\ a < old_base + old_size THEN SHADOW_UNADDRESSABLE
     ELSE s[a]]

(* client_handle_realloc's two independent tests and its copy compute the *)
(* reference for every placement of the two regions.                       *)
ReallocMatchesReference ==
  ReallocShadow(s, old_base, old_size, new_base, new_size) = ReallocReference
=============================================================================
