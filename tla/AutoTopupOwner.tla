-------------------------- MODULE AutoTopupOwner --------------------------
(***************************************************************************)
(* Automatic top-up, with a note of the owner's last word on the switch.   *)
(***************************************************************************)
EXTENDS AutoTopup

VARIABLE wanted  \* history: the owner's last word

InitNoted == Init /\ wanted = FALSE

NextNoted ==
  \/ OwnerTurnsOn /\ wanted' = TRUE
  \/ OwnerTurnsOff /\ wanted' = FALSE
  \/ Automatic /\ UNCHANGED wanted

SpecNoted == InitNoted /\ [][NextNoted]_<<vars, wanted>>

(* An owner who turned auto top-up off finds it off, whatever happens to the payments of an attempt
   that was under way and to those made by hand later. *)
DeliberateOffStays == ~wanted => ~org.on
=============================================================================
