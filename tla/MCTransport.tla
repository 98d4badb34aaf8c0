---------------------------- MODULE MCTransport ----------------------------
EXTENDS Transport

MCWindows == {1, 2}

=============================================================================
