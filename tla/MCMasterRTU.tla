---------------------------- MODULE MCMasterRTU ----------------------------
(* MasterRTU on small instances.                                           *)
EXTENDS MasterRTU

MCBytes  == {0, 1, 2}
MCFrames == {<<0, 1>>, <<1, 2>>, <<1, 1, 1>>}
MCShortFrames == {<<0>>, <<1>>, <<1, 1>>}
=============================================================================
