----------------------------- MODULE MCIapTftp -----------------------------
(* An image that ends in a short block and one that does not fit.          *)
EXTENDS IapTftp, TLC

CONSTANTS a, b
Lengths == (a :> 3) @@ (b :> 5)
OneLength == a :> 3
=============================================================================
