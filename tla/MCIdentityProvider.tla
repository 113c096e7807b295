------------------------- MODULE MCIdentityProvider -------------------------
(***************************************************************************)
(* IdentityProvider with sessions that allow one code, one confirmation,   *)
(* several of each kind, or nothing the provider can use.                  *)
(***************************************************************************)
EXTENDS IdentityProvider

MCOffers == {{"EmailCode"}, {"EmailConfirmation", "DeviceCode"}, {"None"}}
=============================================================================
