-------------------------- MODULE MCCodexAppServer --------------------------
\* Instances of CodexAppServerRuntime for TLC.
EXTENDS CodexAppServerRuntime
=============================================================================
