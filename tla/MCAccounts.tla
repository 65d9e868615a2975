------------------------------ MODULE MCAccounts ------------------------------
(***************************************************************************)
(* An instance of Accounts for TLC.                                        *)
(***************************************************************************)
EXTENDS Accounts

\* Two spellings of one address.
MCLower == [e \in Emails |-> "mail"]
=============================================================================
