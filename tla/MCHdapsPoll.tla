----------------------------- MODULE MCHdapsPoll ----------------------------
(* Rates whose period is below, at and above the prefetch timeout of 2.    *)
EXTENDS HdapsPoll

MCRates == {20, 10, 5}
=============================================================================
