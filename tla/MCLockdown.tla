----------------------------- MODULE MCLockdown -----------------------------
(* Instances of Lockdown for TLC: the settings files a run starts from and *)
(* the kinds of user action it considers.                                  *)
EXTENDS Lockdown

CONSTANTS a, b, work

(* A first start, with the two switches as given.                          *)
Fresh(fw, lock) ==
  [blocked |-> {}, allowed |-> {}, tagOf |-> [e \in Exes |-> NoTag],
   tagBlocked |-> {}, tagAllowed |-> {}, fw |-> fw, lock |-> lock]

FreshLocked == {Fresh(TRUE, TRUE)}
FreshOpen == {Fresh(TRUE, FALSE)}
FreshOff == {Fresh(fw, FALSE) : fw \in BOOLEAN}
TaggedOpen == {[Fresh(TRUE, FALSE) EXCEPT !.tagOf[a] = work]}

=============================================================================
