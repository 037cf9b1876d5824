----------------------------- MODULE MCSmsRentals -----------------------------
(***************************************************************************)
(* Instances of SmsRentals for TLC.                                        *)
(***************************************************************************)
EXTENDS SmsRentals

CONSTANTS alice, bob

\* A rental of RentSim and one of AutoSMS; in the order of their ids.
MCSource == [r \in Rental |-> IF r = 2 THEN "autosms" ELSE "rentsim"]
MCOwner == [r \in Rental |-> IF r = 3 THEN bob ELSE alice]
=============================================================================
