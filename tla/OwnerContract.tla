---------------------------- MODULE OwnerContract ----------------------------
(***************************************************************************)
(* What the cooperative API promises the owner of the bus about one job,   *)
(* whatever its kind and whatever the bus does: an admitted request holds  *)
(* the only slot until its one result has been taken, the result bears the *)
(* request's identity, and the HardwareEffect in it does not hide a write  *)
(* that reached the device, nor claim one that did not.                    *)
(***************************************************************************)
EXTENDS Naturals

CONSTANT RequestIds

VARIABLES
  phase,    \* "FREE", "ACTIVE" or "PENDING"
  request,  \* the request that holds the slot
  effect,   \* the effect its pending result reports
  touched   \* a write of the request has reached the device

contractVars == <<phase, request, effect, touched>>

Honest(e, t) ==
  /\ e = "NONE" => ~t
  /\ e \in {"CONFIRMED", "PARTIAL"} => t

ContractInit ==
  /\ phase = "FREE"
  /\ request = 0
  /\ effect = "NONE"
  /\ touched = FALSE

Accept ==
  /\ phase = "FREE"
  /\ phase' = "ACTIVE"
  /\ request' \in RequestIds
  /\ touched' = FALSE
  /\ UNCHANGED effect

(* A write of the active request reaches the device. *)
Touch ==
  /\ phase = "ACTIVE"
  /\ touched' = TRUE
  /\ UNCHANGED <<phase, request, effect>>

(* The request ends, possibly with the very write that makes it fail. *)
Conclude ==
  /\ phase = "ACTIVE"
  /\ phase' = "PENDING"
  /\ touched' \in {touched, TRUE}
  /\ effect' \in {"NONE", "CONFIRMED", "PARTIAL", "INDETERMINATE"}
  /\ Honest(effect', touched')
  /\ UNCHANGED request

(* Take the result, or give up the binding with everything it holds. *)
Release ==
  /\ phase' = "FREE"
  /\ request' = 0
  /\ effect' = "NONE"
  /\ touched' = FALSE

ContractNext == Accept \/ Touch \/ Conclude \/ Release

ContractSpec == ContractInit /\ [][ContractNext]_contractVars
=============================================================================
