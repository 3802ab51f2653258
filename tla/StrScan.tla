------------------------------- MODULE StrScan -------------------------------
(***************************************************************************)
(* str_find_special_byte (src/src/simd.rs): how many bytes at the front of *)
(* s a string reader or writer may take without looking at them one by     *)
(* one.  The loop over chunks_exact(8) is the least chunk at which it      *)
(* stops.                                                                  *)
(***************************************************************************)
EXTENDS Integers, Sequences

Quote == 34
Backslash == 92
Space == 32

\* A test without the control characters.
SpecialPrinting(b) == b = Backslash \/ b = Quote

Special(b) == b = Backslash \/ b = Quote \/ b < Space

\* A test that misses the last byte of a chunk.
HasSpecialButLast(s, pos, n) == \E i \in pos + 1 .. pos + n - 1 : Special(s[i])

\* simd_op: one of the n bytes of s after the first pos is special.
HasSpecial(s, pos, n) == \E i \in pos + 1 .. pos + n : Special(s[i])

\* How many chunks of 8 the loop skips.
SkippedChunks(s) ==
  LET chunks == Len(s) \div 8 IN
  CHOOSE k \in 0 .. chunks :
    /\ k = chunks \/ HasSpecial(s, 8 * k, 8)
    /\ \A j \in 0 .. k - 1 : ~HasSpecial(s, 8 * j, 8)

StrFindSpecialByte(s) ==
  LET pos == 8 * SkippedChunks(s) IN
  IF Len(s) - pos >= 4 /\ ~HasSpecial(s, pos, 4) THEN pos + 4 ELSE pos
=============================================================================
