------------------------- MODULE MCRequestLifecycle -------------------------
EXTENDS RequestLifecycle

CONSTANT client

MCClientChain == <<client>>
=============================================================================
