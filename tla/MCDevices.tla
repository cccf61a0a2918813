------------------------------ MODULE MCDevices ------------------------------
(* Instances of Devices. *)
EXTENDS Devices

Machine(timer, withLine, sectors) == [timer |-> timer, acia |-> withLine, sectors |-> sectors]

\* All sectors, with time slices of either kind or none; the serial line beside
\* a disk with two sectors in use.
MCMachines == {Machine("none", FALSE, Sectors), Machine("random", FALSE, Sectors),
               Machine("fixed", TRUE, {0}), Machine("none", TRUE, {1})}


=============================================================================
