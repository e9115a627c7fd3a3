--------------------------- MODULE MCCallbackTimer ---------------------------
\* Instances of CallbackTimer for TLC.
EXTENDS CallbackTimer
===============================================================================
