---------------------------- MODULE MCCampaignPods ----------------------------
(* CampaignPods on a small instance: two campaigns whose launches, monitor and  *)
(* commands interleave.                                                         *)
EXTENDS CampaignPods
===============================================================================
