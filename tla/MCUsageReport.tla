---- MODULE MCUsageReport ----
EXTENDS UsageReport, TLC

CONSTANTS w1, w2, r1, r2

MCWriters == {w1, w2}
MCReaders == {r1, r2}
Symmetry == Permutations(MCWriters) \cup Permutations(MCReaders)

At(wall, offset) == {[wall |-> wall, offset |-> offset]}

(* Two ticks a second: bounds at whole and half seconds, in two zones, and *)
(* none at all.                                                            *)
MCFilters ==
    {[service |-> "any", from |-> {}, to |-> {}],
     [service |-> "any", from |-> At(0, -3), to |-> {}],
     [service |-> "any", from |-> {}, to |-> At(0, -2)],
     [service |-> "anthropic", from |-> At(4, 3), to |-> At(3, 0)],
     [service |-> "openai", from |-> {}, to |-> {}]}
====
