----------------------------- MODULE MCInstallWait -----------------------------
(* One start, or one create, of every guest; a LAN of two addresses.          *)
EXTENDS InstallWait

CONSTANTS want, other, nowhere
=============================================================================
