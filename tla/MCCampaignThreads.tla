------------------------ MODULE MCCampaignThreads ------------------------
(***************************************************************************)
(* Instances of CampaignThreads for TLC.                                   *)
(***************************************************************************)
EXTENDS CampaignThreads

CONSTANTS cpu, logs
==========================================================================
