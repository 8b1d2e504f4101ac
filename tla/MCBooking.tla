------------------------------ MODULE MCBooking ------------------------------
(* Constants for the model-checking runs of Booking. *)
EXTENDS Booking, TLC

CONSTANTS i1, i2, u1, u2  \* two interviews, and the students they are for

MCApplicant == i1 :> u1 @@ i2 :> u2
==============================================================================
