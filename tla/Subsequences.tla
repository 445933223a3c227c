---------------------------- MODULE Subsequences ----------------------------
(***************************************************************************)
(* Of a sequence: the items that are kept, their total weight, the set of   *)
(* its items.  The recursion is that of functions, so that what these       *)
(* operators do to every sequence can be proved.                            *)
(***************************************************************************)
EXTENDS Integers, Sequences

\* The items of s that are in S, after each of its items.
KeptSoFar(s, S) ==
  LET kept[i \in 0..Len(s)] ==
        IF i = 0 THEN <<>> ELSE IF s[i] \in S THEN Append(kept[i - 1], s[i]) ELSE kept[i - 1]
  IN  kept

\* The items of s that are in S, in the order of s.
Kept(s, S) == KeptSoFar(s, S)[Len(s)]

\* The sum of the weights w of the items of s, after each of its items.
TotalSoFar(s, w) ==
  LET sum[i \in 0..Len(s)] == IF i = 0 THEN 0 ELSE sum[i - 1] + w[s[i]]
  IN  sum

\* The sum of the weights w of the items of s.
Total(s, w) == TotalSoFar(s, w)[Len(s)]

Items(s) == {s[i] : i \in 1..Len(s)}
Distinct(s) == \A i, j \in 1..Len(s) : s[i] = s[j] => i = j
=============================================================================
