------------------------------- MODULE Accounts -------------------------------
(***************************************************************************)
(* What the models of modules/auth have in common.  Membership follows the *)
(* rows of accounts and invitations, Sessions the tokens of accounts and   *)
(* the keys in Redis; AuthProofs extends both, so apart from these three   *)
(* they share no name.                                                     *)
(***************************************************************************)
CONSTANTS
    Users,          \* ids of users
    Requests,       \* requests that can be in flight at a time
    NONE            \* no row, no token, no key, nothing
===============================================================================
