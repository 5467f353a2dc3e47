----------------------------- MODULE MCPxeboot -----------------------------
(***************************************************************************)
(* Values for the constants of Pxeboot that a .cfg cannot write.           *)
(***************************************************************************)
EXTENDS Pxeboot

CONSTANTS m1, m2

\* DPUs with one and with two interfaces; the first one has the random address.
MenusOfTwo == {<<m1>>, <<m2>>, <<m1, m2>>, <<m2, m1>>}
=============================================================================
