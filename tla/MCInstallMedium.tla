---------------------------- MODULE MCInstallMedium ----------------------------
(* One cluster's boot medium, on either host, with and without a baked store. *)
EXTENDS InstallMedium
=============================================================================
