--------------------------- MODULE MCPushToDeploy ---------------------------
(***************************************************************************)
(* Instances of PushToDeploy for TLC.                                      *)
(***************************************************************************)
EXTENDS PushToDeploy

CONSTANTS main, dev, p1, p2, browser

TwoBranches == {main, dev}
MainOrEmpty == {main, None}
SomeDeliveries == {p1, p2}
FirstDelivery == {p1}
OneStream == {browser}

=============================================================================
