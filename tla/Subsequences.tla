---------------------------- MODULE Subsequences ----------------------------
(***************************************************************************)
(* What a comprehension over an ordered dict or a list keeps, and what a   *)
(* loop over a list comes to.                                              *)
(***************************************************************************)
EXTENDS Integers, Sequences

\* The elements of s that are in S, in their order.
Only(s, S) ==
  LET kept[n \in 0..Len(s)] ==
        IF n = 0 THEN <<>> ELSE IF s[n] \in S THEN Append(kept[n - 1], s[n]) ELSE kept[n - 1]
  IN  kept[Len(s)]

\* What the steps f[<<acc, element>>] make of a, over the elements of s in their order.
Accumulated(f, a, s) ==
  LET reached[n \in 0..Len(s)] == IF n = 0 THEN a ELSE f[<<reached[n - 1], s[n]>>]
  IN  reached[Len(s)]

=============================================================================
