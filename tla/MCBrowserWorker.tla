--------------------------- MODULE MCBrowserWorker ---------------------------
(* An instance of BrowserWorker for TLC.                                   *)
EXTENDS BrowserWorker
=============================================================================
