---------------------------- MODULE MCInstallation ----------------------------
(* One host, two requests at a time from one address.                      *)
EXTENDS Installation, TLC

CONSTANTS h1, h2, a1, byHand

=============================================================================
