--------------------------- MODULE MCLlmpChannel ---------------------------
(***************************************************************************)
(* Small instances of LlmpChannel for TLC: maps of 256 or 512 bytes instead *)
(* of 2^28, so that a few messages fill a page.                             *)
(***************************************************************************)
EXTENDS LlmpChannel

\* usize::next_power_of_two, for values up to 2^12
MCNextPowerOfTwo(n) ==
    LET k == CHOOSE k \in 0..12 : 2^k >= n /\ (k = 0 \/ 2^(k - 1) < n)
    IN  2^k

\* On 512-byte maps: an empty message, one of which a page holds two, and one
\* that no page of that size has room for.
MCLens == {0, 100, 300}

\* On 256-byte maps: an empty message and one of 40 bytes, which both fill a page to its
\* last byte but take different room further up a larger one, and one that does not fit.
MCClientLens == {0, 40, 300}
=============================================================================
