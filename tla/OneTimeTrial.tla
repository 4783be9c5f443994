----------------------------- MODULE OneTimeTrial -----------------------------
(***************************************************************************)
(* What the free trial of a user promises: it is given away once.  A       *)
(* request reserves it, and then gives it or gives it back; a trial that   *)
(* was taken elsewhere is recorded, and whoever holds the reservation then *)
(* may still give it, or lose it.                                          *)
(***************************************************************************)
CONSTANT Requests    \* whoever may give the trial

VARIABLES
  trial,   \* "unused", "reserved" or "used"
  holder,  \* the request, if any, that can give it or has given it
  given    \* the requests that have given it

vars == <<trial, holder, given>>

Init == trial = "unused" /\ holder = {} /\ given = {}

Reserve(r) ==
  /\ trial = "unused" /\ trial' = "reserved"
  /\ holder' = {r} /\ UNCHANGED given

GiveBack ==
  /\ trial = "reserved" /\ trial' = "unused"
  /\ holder' = {} /\ UNCHANGED given

Give(r) ==
  /\ holder = {r} /\ given = {} /\ given' = {r}
  /\ trial' = "used" /\ UNCHANGED holder

Record ==
  /\ trial' = "used"
  /\ holder' \in {holder, given} /\ UNCHANGED given

Next == GiveBack \/ Record \/ \E r \in Requests : Reserve(r) \/ Give(r)

Spec == Init /\ [][Next]_vars
=============================================================================
