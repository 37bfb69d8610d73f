------------------------- MODULE MCInternedStrings -------------------------
EXTENDS InternedStrings

CONSTANTS w, x, y, z

Hashes == [s \in String |-> IF s \in {w, x, y} THEN 0 ELSE 1]
Sizes == [s \in String |-> IF s \in {x, z} THEN 2 ELSE 1]
AtStartup == <<w, x, w>>
ScriptStrings == {<<x, y>>, <<z, w>>, <<y, z>>}
=============================================================================
