------------------------------ MODULE MCSetup ------------------------------
(* One machine, the two roles it may be set up for, and two access levels.  *)
EXTENDS Setup

CONSTANTS root, user

TwoAccesses == {root, user}

=============================================================================
