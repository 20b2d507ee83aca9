------------------------ MODULE MCWalletCommittee ------------------------
(* One worker with crashes, or two that overlap; committees of two or three *)
(* shares of which two sign.                                                *)
EXTENDS WalletCommittee, TLC

\* Workers are interchangeable: no property of the overlap run names one.
Workers == Permutations(Ops)
=============================================================================
