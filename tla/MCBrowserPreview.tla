--------------------------- MODULE MCBrowserPreview ---------------------------
EXTENDS BrowserPreview
=============================================================================
