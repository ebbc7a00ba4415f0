----------------------------- MODULE Intervals -----------------------------
(***************************************************************************)
(* The interval arithmetic behind whitelists (netpeekier/ipcalc.py):       *)
(* merging closed intervals of numbers and taking their complement within  *)
(* bounds.  An address is its number in its family, a port is a number.    *)
(***************************************************************************)
EXTENDS Integers, Sequences, FiniteSets, SequencesExt

Smaller(m, n) == IF m < n THEN m ELSE n
Larger(m, n) == IF m > n THEN m ELSE n

(* An interval <<lo, hi>> and the numbers in it. *)
Covers(i, n) == i[1] <= n /\ n <= i[2]

(* sorted() on a set of pairs. *)
Before(i, j) == i[1] < j[1] \/ (i[1] = j[1] /\ i[2] < j[2])

Sorted(intervals) ==
    CHOOSE s \in [1 .. Cardinality(intervals) -> intervals] :
       \A m, n \in DOMAIN s : m < n => Before(s[m], s[n])

(* One turn of the loop of _merge, which takes adjacent intervals together *)
(* with overlapping ones.                                                  *)
Absorb(merged, i) ==
    IF merged # <<>> /\ i[1] <= Last(merged)[2] + 1
      THEN [merged EXCEPT ![Len(merged)] = <<@[1], Larger(@[2], i[2])>>]
      ELSE Append(merged, i)

Merge(intervals) == FoldLeft(Absorb, <<>>, Sorted(intervals))

(* _complement: the gaps before each merged interval and after the last.   *)
(* (Its break only leaves out turns that would add nothing.)               *)
Clipped(intervals, low, high) ==
    {<<Larger(i[1], low), Smaller(i[2], high)>> :
        i \in {j \in intervals : j[2] >= low /\ j[1] <= high}}

Gap(s, i) ==
    [cur |-> Larger(s.cur, i[2] + 1),
     gaps |-> IF i[1] > s.cur THEN Append(s.gaps, <<s.cur, i[1] - 1>>) ELSE s.gaps]

ComplementTail(intervals, low, high) ==  \* mutant: a last gap in any case
    LET end == FoldLeft(Gap, [cur |-> low, gaps |-> <<>>],
                        Merge(Clipped(intervals, low, high)))
    IN  Append(end.gaps, <<end.cur, high>>)

Complement(intervals, low, high) ==
    LET end == FoldLeft(Gap, [cur |-> low, gaps |-> <<>>],
                        Merge(Clipped(intervals, low, high)))
    IN  IF end.cur <= high THEN Append(end.gaps, <<end.cur, high>>) ELSE end.gaps
=============================================================================
