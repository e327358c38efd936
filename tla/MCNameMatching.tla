--------------------------- MODULE MCNameMatching ---------------------------
(***************************************************************************)
(* Labels "a", "b" and "xb", whose text ends with that of "b".  Zones     *)
(* "b.", "a.b." and "xb."; locations of up to two labels, wildcards         *)
(* included; questions of up to four labels.                               *)
(***************************************************************************)
EXTENDS NameMatching, FiniteSets, FiniteSetsExt

CONSTANTS a, b, x

Plain == {<<a>>, <<b>>, <<x, b>>}
Under(names) == {l \o <<Dot>> \o n : l \in Plain, n \in names}
UpToTwo == Plain \cup Under(Plain)
Absolute(names) == {n \o <<Dot>> : n \in names}

ZoneSets == {{<<b, Dot>>}, {<<b, Dot>>, <<a, Dot, b, Dot>>}, {<<x, b, Dot>>, <<a, Dot, b, Dot>>}}
Stars == {<<Star>>} \cup {<<Star, Dot>> \o n : n \in Plain}
LocationSets == UNION {kSubset(k, UpToTwo \cup Stars) : k \in 0 .. 3}
Asked == Absolute(UpToTwo \cup Under(Under(Plain)) \cup Under(Under(Under({<<b>>, <<x, b>>}))))
=============================================================================
