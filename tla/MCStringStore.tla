--------------------------- MODULE MCStringStore ---------------------------
\* A small instance of StringStore: nodes of six bytes, names and paths that end
\* before, at, and one or more bytes behind the end of a node, one of them the
\* beginning of another.
EXTENDS StringStore

a == 97
b == 98

MCTexts == {<< a >>, << b, a >>, << a, b, a, b, b >>}
MCParents == {<< Separator >>, << a >>, << Separator, b, a, b >>}
=============================================================================
