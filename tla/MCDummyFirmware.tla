-------------------------- MODULE MCDummyFirmware --------------------------
(* An instance of DummyFirmware for TLC. *)
EXTENDS DummyFirmware

CONSTANTS l1, l2

Loops2 == {l1, l2}

=============================================================================
