-------------------------- MODULE MCDialHandshake --------------------------
(***************************************************************************)
(* The nodes of the configuration of DialHandshake: an initiator, a        *)
(* responder, and a third node that is compromised.                        *)
(***************************************************************************)
EXTENDS DialHandshake

CONSTANTS na, nb, nc, n1

MCInitiators == {na}

MCResponders == {nb}

MCCompromised == {nc}

MCNoiseMsgs == {n1}

=============================================================================
