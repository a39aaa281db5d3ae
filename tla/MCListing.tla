------------------------------ MODULE MCListing -----------------------------
(***************************************************************************)
(* A small instance of Listing.                                            *)
(***************************************************************************)
EXTENDS Listing

CONSTANT a          \* the loader

OneLoader == {a}
=============================================================================
