------------------------------ MODULE MCADB ------------------------------
EXTENDS ADB
MCMoves == {<<70, -66>>}
MCCommands == {0, 44, 59, 60}
=============================================================================
