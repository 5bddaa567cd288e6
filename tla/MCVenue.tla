------------------------------ MODULE MCVenue ------------------------------
(***************************************************************************)
(* Venue for TLC.                                                          *)
(***************************************************************************)
EXTENDS Venue, TLC

\* Nothing distinguishes the accounts, nor the connections.
VenueSymmetry == Permutations(Accounts) \cup Permutations(Connections)
=============================================================================
