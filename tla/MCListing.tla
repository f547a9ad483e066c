------------------------------ MODULE MCListing ------------------------------
(***************************************************************************)
(* Listing on a small instance; the constants are in the .cfg file.        *)
(***************************************************************************)
EXTENDS Listing
=============================================================================
