----------------------------- MODULE MCListings -----------------------------
(* Every reading, with pages of two rows and listings of up to three. *)
EXTENDS Listings

AllReadings == DOMAIN Requests
=============================================================================
