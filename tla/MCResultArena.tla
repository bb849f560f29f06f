--------------------------- MODULE MCResultArena ---------------------------
\* Small instances of ResultArena: nodes of two or three elements, DirErrs that
\* start with room for one, and listings of none up to two more than a node.
EXTENDS ResultArena
=============================================================================
