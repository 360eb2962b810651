------------------------------- MODULE Shadow -------------------------------
(***************************************************************************)
(* The shadow-memory facade alloc_drmem.c writes through (shadow.c, spec   *)
(* 4.1), as pure operators on a shadow map s from addresses to tags, and   *)
(* the shadow update of client_handle_realloc built from them.             *)
(***************************************************************************)
EXTENDS Naturals

SHADOW_UNADDRESSABLE == "unaddressable"
SHADOW_UNDEFINED == "undefined"
SHADOW_DEFINED == "defined"

Tags == {SHADOW_UNADDRESSABLE, SHADOW_UNDEFINED, SHADOW_DEFINED}

(* shadow_set_range(lo, hi, v)                                             *)
ShadowSetRange(s, lo, hi, v) ==
  [a \in DOMAIN s |-> IF lo <= a /\ a < hi THEN v ELSE s[a]]

(* shadow_copy_range(src, dst, n): the tags move as a block, so an         *)
(* overlapping copy reads the old tags.                                    *)
ShadowCopyRange(s, src, dst, n) ==
  [a \in DOMAIN s |-> IF dst <= a /\ a < dst + n THEN s[src + (a - dst)] ELSE s[a]]

(* Mutant: the end-of-old-region test made an else of the front test,     *)
(* which the comment at line 411 warns against.                            *)
ReallocShadowElse(s, old_base, old_size, new_base, new_size) ==
  LET s1 == IF new_size > old_size
              THEN ShadowSetRange(ShadowCopyRange(s, old_base, new_base, old_size),
                                  new_base + old_size, new_base + new_size,
                                  SHADOW_UNDEFINED)
              ELSE ShadowCopyRange(s, old_base, new_base, new_size)
      start == IF new_base + new_size < old_base THEN old_base
               ELSE new_base + new_size
  IN IF new_base > old_base
       THEN ShadowSetRange(s1, old_base,
                           IF new_base < old_base + old_size
                             THEN new_base ELSE old_base + old_size,
                           SHADOW_UNADDRESSABLE)
     ELSE IF new_base + new_size < old_base + old_size
       THEN ShadowSetRange(s1, start, old_base + old_size, SHADOW_UNADDRESSABLE)
     ELSE s1

(* The shadow update of client_handle_realloc (lines 388-421): copy the    *)
(* surviving bytes, mark a grown tail undefined, then mark unaddressable   *)
(* the front of the old region below a later new one and the end of the   *)
(* old region beyond an earlier-ending new one.  The two tests are not     *)
(* exclusive: the new region may lie inside the old one.                   *)
ReallocShadow(s, old_base, old_size, new_base, new_size) ==
  LET s1 == IF new_size > old_size
              THEN ShadowSetRange(ShadowCopyRange(s, old_base, new_base, old_size),
                                  new_base + old_size, new_base + new_size,
                                  SHADOW_UNDEFINED)
              ELSE ShadowCopyRange(s, old_base, new_base, new_size)
      s2 == IF new_base > old_base
              THEN ShadowSetRange(s1, old_base,
                                  IF new_base < old_base + old_size
                                    THEN new_base ELSE old_base + old_size,
                                  SHADOW_UNADDRESSABLE)
              ELSE s1
      start == IF new_base + new_size < old_base THEN old_base
               ELSE new_base + new_size
  IN IF new_base + new_size < old_base + old_size
       THEN ShadowSetRange(s2, start, old_base + old_size, SHADOW_UNADDRESSABLE)
       ELSE s2
=============================================================================
