----------------------------- MODULE MCODFInstall -----------------------------
(* One cluster's install-odf, with and without a status that lags. *)
EXTENDS ODFInstall
=============================================================================
