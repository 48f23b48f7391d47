----------------------------- MODULE RunningSum ------------------------------
(***************************************************************************)
(* The sums of a sequence of sizes from its beginning on.  The size of a   *)
(* run of lines or words, as an optimal layout compares them, is a         *)
(* difference of two.                                                      *)
(***************************************************************************)
EXTENDS Naturals, Sequences

\* The sum of the first n numbers of s, for every n.
RunningSum(s) ==
    LET sum[n \in 0..Len(s)] == IF n = 0 THEN 0 ELSE sum[n - 1] + s[n]
    IN  sum

=============================================================================
