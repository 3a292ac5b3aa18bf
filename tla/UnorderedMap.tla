----------------------------- MODULE UnorderedMap -----------------------------
(* The std::unordered_map operations the managers keep their state with; a map *)
(* is a function from its keys.                                                *)
EXTENDS Functions

\* insert, once per entry of g: a key that is there keeps its value.
insert(m, g) ==
    [k \in DOMAIN m \cup DOMAIN g |-> IF k \in DOMAIN m THEN m[k] ELSE g[k]]

\* insert_or_assign, and assignment through operator[].
insert_or_assign(m, k, v) ==
    [j \in DOMAIN m \cup {k} |-> IF j = k THEN v ELSE m[j]]

erase(m, k) == Restrict(m, DOMAIN m \ {k})
===============================================================================
