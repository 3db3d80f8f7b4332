------------------------------ MODULE Companion ------------------------------
(* What the protocols of a companion host, Pairing and Capture, have in common. *)

CONSTANTS
    Listeners,  \* `mora companion serve` processes over one state directory
    None,
    MaxFaults   \* bound on crashes and failed operations

=============================================================================
