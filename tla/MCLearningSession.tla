------------------------- MODULE MCLearningSession -------------------------
EXTENDS LearningSession

\* Bound: commands and events under way at the same time, in the run with three
\* windows; the run with two does without it.
FewInTransit == Cardinality(commands) + Len(events) <= 2
=============================================================================
