--------------------------- MODULE MCBrowserManager ---------------------------
(* An instance of BrowserManager for TLC.                                  *)
EXTENDS BrowserManager
=============================================================================
