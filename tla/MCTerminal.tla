----------------------------- MODULE MCTerminal -----------------------------
EXTENDS TerminalProperties
=============================================================================
