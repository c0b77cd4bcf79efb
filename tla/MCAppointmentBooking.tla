----------------------- MODULE MCAppointmentBooking -----------------------
(* Instances of AppointmentBooking for TLC. *)
EXTENDS AppointmentBooking, TLC

CONSTANTS s1, s2

Interchangeable == Permutations({s1, s2})
===========================================================================
