----------------------------- MODULE MCShellUpdater -----------------------------
EXTENDS ShellUpdater
=============================================================================
