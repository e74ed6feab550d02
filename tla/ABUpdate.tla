------------------------------ MODULE ABUpdate ------------------------------
(***************************************************************************)
(* What A/B update promises (docs/AB-UPDATE.md), with slots, records,      *)
(* sessions and flash abstracted away.                                     *)
(*                                                                         *)
(*   launches   the application a reset at this instant would start        *)
(*   held       the application the device answers for: the one the reset  *)
(*              path found, or the last one a COMMIT answered OK for       *)
(*   offer      the image of the COMMIT being carried out                  *)
(*                                                                         *)
(* A reset always finds the held application or, between an E_FLASH and    *)
(* the next mutation, the attested image whose record landed all the same. *)
(* What is held moves in one step, to the image that was offered; nothing  *)
(* else ever starts.                                                       *)
(***************************************************************************)
CONSTANTS Images, NoImage

VARIABLES launches, held, offer

vars == <<launches, held, offer>>

Init ==
  /\ launches \in Images \union {NoImage}
  /\ held = launches
  /\ offer = NoImage

\* A COMMIT passes attestation.
Offer == offer = NoImage /\ offer' \in Images /\ UNCHANGED <<launches, held>>

\* Its record landed and was verified: the one step that moves `held'.
Install ==
  /\ offer # NoImage
  /\ launches' = offer /\ held' = offer /\ offer' = NoImage

\* Its record could not be stored.  What is held stays; what would start is
\* what would have started before, or what is held, or the attested image.
Fail ==
  /\ offer # NoImage
  /\ launches' \in {launches, held, offer} /\ UNCHANGED held /\ offer' = NoImage

\* A mutation, or the next COMMIT, takes back a record that failed to verify.
Withdraw == launches' = held /\ UNCHANGED <<held, offer>>

\* A reset, with or without power: what would start becomes what is held.
Restart ==
  /\ \/ launches' \in {launches, held}
     \/ offer # NoImage /\ launches' = offer
  /\ held' = launches'
  /\ offer' = NoImage

Next == Offer \/ Install \/ Fail \/ Withdraw \/ Restart

Spec == Init /\ [][Next]_vars

\* The promise in one line: a device that answers for an application has one.
NeverStranded == held # NoImage => launches # NoImage
=============================================================================
