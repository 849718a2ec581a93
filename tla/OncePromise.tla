----------------------------- MODULE OncePromise -----------------------------
(***************************************************************************)
(* An effect outside the database that cannot be taken back: a photo's     *)
(* bytes go to a model, a message goes to a person.  What both promise is  *)
(* the same.  A row gives the permission once and for ever, before the     *)
(* effect; the effect follows at most once, and perhaps never, because a   *)
(* process may die in between and a permission is not given again.         *)
(* ImageDescription and VipAnswer implement it.                            *)
(***************************************************************************)
EXTENDS Naturals

CONSTANT Items

VARIABLES
  permitted,   \* the items whose permission was given
  done         \* how often the effect took place, for each item

Init == permitted = {} /\ done = [i \in Items |-> 0]

Permit(i) ==
  /\ i \notin permitted
  /\ permitted' = permitted \cup {i}
  /\ UNCHANGED done

Perform(i) ==
  /\ i \in permitted /\ done[i] = 0
  /\ done' = [done EXCEPT ![i] = 1]
  /\ UNCHANGED permitted

Next == \E i \in Items : Permit(i) \/ Perform(i)

Spec == Init /\ [][Next]_<<permitted, done>>
=============================================================================
