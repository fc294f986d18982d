----------------------------- MODULE MCLogStream -----------------------------
EXTENDS LogStream
=============================================================================
