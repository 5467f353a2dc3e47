--------------------------- MODULE MCUefiBootMenu ---------------------------
(***************************************************************************)
(* Values for the constants of UefiBootMenu that a .cfg cannot write.      *)
(***************************************************************************)
EXTENDS UefiBootMenu

\* Every key is answered within 0.80 s, and what it highlights comes at once.
Prompt == {"first", "more", "guard"}
\* Answers may come at any time.
AnyLatency == {}
\* Every key is answered within the 0.80 s and the 0.5 s the code waits, but a
\* second answer may come behind the 0.0 s of the re-read.
Trickling == {"first", "guard"}
=============================================================================
