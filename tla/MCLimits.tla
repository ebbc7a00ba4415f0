------------------------------ MODULE MCLimits ------------------------------
(* Two programs and two tags; the programs are interchangeable, and so are *)
(* the tags.  One part of the behaviours is about sequences of edits,      *)
(* kills and restarts, the other about packets and a last edit, with the   *)
(* rules of a settings file: a limited program that shares a limited tag   *)
(* with another one.                                                       *)
EXTENDS Throttle, TLC

CONSTANTS a, b, games, work

TwoExes == {a, b}
TwoTags == {games, work}
Symmetric == Permutations(TwoExes) \cup Permutations(TwoTags)

Shared(e, tag) ==
  [own |-> [x \in TwoExes |-> IF x = e THEN [up |-> 1, down |-> 1] ELSE Loose],
   tagOf |-> [x \in TwoExes |-> tag],
   cap |-> [t \in TwoTags |-> IF t = tag THEN [up |-> 2, down |-> 1] ELSE Loose]]

Edits == [disk |-> Fresh, left |-> [ops |-> 3, crashes |-> 1, boots |-> 2],
          load |-> [packets |-> 0, ticks |-> 0]]
Traffic(e, tag) == [disk |-> Shared(e, tag), left |-> [ops |-> 1, crashes |-> 0, boots |-> 1],
                    load |-> [packets |-> 3, ticks |-> 2]]

TwoStarts == {Edits} \cup {Traffic(e, tag) : e \in TwoExes, tag \in TwoTags}

=============================================================================
