----------------------------- MODULE MCChannel -----------------------------
(* Instances of Channel for TLC.                                            *)
EXTENDS Channel

CONSTANTS s1, r1, r2

OneSender == {s1}
OneReceiver == {r1}
TwoReceivers == {r1, r2}
=============================================================================
