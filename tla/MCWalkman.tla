----------------------------- MODULE MCWalkman -----------------------------
\* Instances of Walkman; the trees it walks are those of Trees.
EXTENDS Walkman, Trees
=============================================================================
