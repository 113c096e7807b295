---------------------------- MODULE MCAuthClient ----------------------------
(***************************************************************************)
(* AuthClient with sessions that allow a code and a confirmation, or only  *)
(* a confirmation.                                                         *)
(***************************************************************************)
EXTENDS AuthClient

MCOffers == {{"EmailConfirmation", "DeviceCode"}, {"DeviceConfirmation"}}
MCOneOffer == {{"EmailConfirmation", "DeviceCode"}}
=============================================================================
