-------------------------------- MODULE MCPage --------------------------------
EXTENDS Page, TLC

CONSTANTS e1, e2, l1, l2

\* One callback for each of two events.
MCEventOf == (l1 :> e1) @@ (l2 :> e2)
==============================================================================
