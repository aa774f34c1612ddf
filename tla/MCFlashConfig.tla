--------------------------- MODULE MCFlashConfig ---------------------------
(* FlashConfig with two addresses, the empty one included, one port and    *)
(* one channel that can be set.                                            *)
EXTENDS FlashConfig

MCIps == {<<1, 2>>, <<FFFF, FFFF>>}
MCDefIp == <<3, 4>>
MCHalf == {0, 1, 2, 3, 4, FFFF, AAAA, H5555}
=============================================================================
