--------------------------- MODULE MCConfinedBoot ---------------------------
(* ConfinedBoot with containers that lack at most one control, or both of a *)
(* pair that a check takes for one another.                                *)
EXTENDS ConfinedBoot

MCShortfalls ==
  {{}} \cup {{c} : c \in Controls}
    \cup {{"read_only", "user"}, {"source_ro", "no_new_privileges"}, {"sitecustomize", "spawn_guard"}}
=============================================================================
