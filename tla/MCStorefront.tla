---------------------------- MODULE MCStorefront ----------------------------
(***************************************************************************)
(* One shopper and two products, a pool of one worker.                     *)
(***************************************************************************)
EXTENDS Storefront
=============================================================================
