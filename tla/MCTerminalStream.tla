-------------------------- MODULE MCTerminalStream --------------------------
EXTENDS TerminalStream
=============================================================================
