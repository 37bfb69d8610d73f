---------------------------- MODULE MCSharedAlloc ----------------------------
EXTENDS SharedAlloc

\* The shared globals and the hash table, or a buffer for interned strings
\* that is larger than an unsigned int can say.
OneStructure == <<5>>
HugeStructure == <<20>>
=============================================================================
