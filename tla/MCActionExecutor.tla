-------------------------- MODULE MCActionExecutor --------------------------
EXTENDS ActionExecutor
=============================================================================
