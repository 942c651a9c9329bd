-------------------------------- MODULE Rows --------------------------------
(***************************************************************************)
(* Rows of a table in the order of an index.                                *)
(***************************************************************************)
EXTENDS Integers, Sequences

\* The rows as a set.
Members(s) == {s[i] : i \in DOMAIN s}

\* The place of row e; the last row.
Place(s, e) == CHOOSE i \in DOMAIN s : s[i] = e
LastRow(s) == s[Len(s)]

\* No row occurs twice.
Distinct(s) == \A i, j \in DOMAIN s : s[i] = s[j] => i = j

\* d comes before e in s.
Before(s, d, e) == \E i, j \in DOMAIN s : i < j /\ s[i] = d /\ s[j] = e

\* The rows r, put into s behind its first k.
Insert(s, k, r) == SubSeq(s, 1, k) \o r \o SubSeq(s, k + 1, Len(s))

\* The rows of s and r, which share none, in one sequence that keeps their orders.
Interleavings(s, r) ==
  LET both == Members(s) \cup Members(r)
  IN  {n \in [1..(Len(s) + Len(r)) -> both] :
         /\ Distinct(n) /\ Members(n) = both
         /\ \A d, e \in both : Before(s, d, e) \/ Before(r, d, e) => Before(n, d, e)}

\* The rows of s that are not in S, in their order.  (A recursive function, where
\* SelectSeq would do: theorems can be proved about it.)
Without(s, S) ==
  LET kept[n \in 0..Len(s)] ==
        IF n = 0 THEN <<>>
        ELSE IF s[n] \in S THEN kept[n-1] ELSE Append(kept[n-1], s[n])
  IN  kept[Len(s)]

\* The sum of a column.  (A recursive function, as above.)
Total(column) ==
  LET sum[n \in 0..Len(column)] == IF n = 0 THEN 0 ELSE sum[n-1] + column[n]
  IN  sum[Len(column)]
=============================================================================
