--------------------------- MODULE MCTrustedClock ---------------------------
(* Three servers, one of them wrong, around the end of an NTP era. *)
EXTENDS TrustedClock

MCHonest == {1, 2}
MCWrong == {-6}
MCDelays == {0, 3}
MCEpochs == {4, 9}
MCSteps == {-3, 1}
=============================================================================
