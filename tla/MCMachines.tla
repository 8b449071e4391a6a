------------------------------ MODULE MCMachines ------------------------------
(* Small instances of Machines for TLC: two services, two or three faults,  *)
(* time for two renewals, one of them to a certificate without CA.          *)
EXTENDS Machines
=============================================================================
