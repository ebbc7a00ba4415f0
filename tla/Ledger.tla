------------------------------- MODULE Ledger -------------------------------
(***************************************************************************)
(* What the accounting of traffic promises about each process id, without  *)
(* ticks, tables and locks: a byte that was counted waits until it is      *)
(* either logged or dropped, and is so once.                               *)
(***************************************************************************)
EXTENDS Naturals

CONSTANT Pid

VARIABLES
    fresh,  \* bytes counted and neither logged nor dropped
    logged  \* bytes given to the activity log

ledgerVars == <<fresh, logged>>

Init ==
    /\ fresh = [p \in Pid |-> 0]
    /\ logged = [p \in Pid |-> 0]

(* A packet of one byte is attributed to p. *)
Count(p) ==
    /\ fresh' = [fresh EXCEPT ![p] = @ + 1]
    /\ UNCHANGED logged

(* Bytes of p that wait are logged. *)
Log(p) ==
    \E n \in 1 .. fresh[p] :
       /\ fresh' = [fresh EXCEPT ![p] = @ - n]
       /\ logged' = [logged EXCEPT ![p] = @ + n]

(* Bytes that wait are dropped. *)
Drop ==
    /\ fresh' \in [Pid -> Nat]
    /\ \A p \in Pid : fresh'[p] <= fresh[p]
    /\ UNCHANGED logged

Next ==
    \/ \E p \in Pid : Count(p) \/ Log(p)
    \/ Drop

Spec == Init /\ [][Next]_ledgerVars
=============================================================================
