--------------------------- MODULE MCGenericStore ---------------------------
\* Small instances of GenericStore: nodes of a few elements, and requests of
\* none, of less than a node, of exactly a node, and of more than one.
EXTENDS GenericStore
=============================================================================
