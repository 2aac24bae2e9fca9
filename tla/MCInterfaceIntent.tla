------------------------- MODULE MCInterfaceIntent --------------------------
(* Instances of InterfaceIntent: two drainers and two Interfaces.          *)
EXTENDS InterfaceIntent

CONSTANTS d1, d2
=============================================================================
