---------------------------- MODULE MCHdapsReadout --------------------------
(* The orientations of two models in hdaps_whitelist: plain and W520. *)
EXTENDS HdapsReadout

MCOrientations == {{}, {"SWAP", "INVERT_XY", "INVERT_X"}}
=============================================================================
