--------------------------- MODULE MCRtosFirmware ---------------------------
(* An instance of RtosFirmware for TLC. *)
EXTENDS RtosFirmware

CONSTANTS s1, s2

Senders2 == {s1, s2}

=============================================================================
