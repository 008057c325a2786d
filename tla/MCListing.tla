------------------------------ MODULE MCListing ------------------------------
(***************************************************************************)
(* A small instance of Listing.                                            *)
(***************************************************************************)
EXTENDS Listing
=============================================================================
