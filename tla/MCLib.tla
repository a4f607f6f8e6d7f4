------------------------------- MODULE MCLib --------------------------------
EXTENDS Lib
MCMemories == {m \in [0 .. 7 -> {0, 1, 3}] : m[7] = 0}
MCPaths == UNION {[1 .. n -> {1, 2, SLASH}] : n \in 0 .. 4}
MCFormats == UNION {[1 .. n -> {"%", "l", "d", "p", "s", "z"}] : n \in 0 .. 4}
MCLongs == (0 .. 20) \cup (250 .. 260) \cup {2 ^ k : k \in 4 .. 15} \cup (65530 .. 65535)
MCTexts == {<<>>}
MCUserBytes == {[va \in 0 .. 15 |-> 0]}
MCSizes == {0}
MCTargets == {0}
=============================================================================
