----------------------------- MODULE MCSchedule -----------------------------
(* Small instances of Schedule for TLC. *)
EXTENDS Schedule

CONSTANTS s1, s2

Misfires == [misfire : MisfirePolicies \ {"RUN_UP_TO_N"}, limit : {0}]
            \cup [misfire : {"RUN_UP_TO_N"}, limit : {0, 1, 2, MissedLimit}]
Overlaps == [overlap : {"QUEUE", "SKIP", "REPLACE"}, max : {0}] \cup [overlap : {"ALLOW"}, max : 0..2]
Combine(ms, os) ==
    {[misfire |-> m.misfire, limit |-> m.limit, overlap |-> o.overlap, max |-> o.max] : m \in ms, o \in os}
Def(misfire, limit, overlap, max) ==
    [misfire |-> misfire, limit |-> limit, overlap |-> overlap, max |-> max]

\* every pair of policies, with limits at and around the boundaries
AllDefinitions == Combine(Misfires, Overlaps)
\* a schedule that can be blocked by its runs and one that drops triggers
LiveDefinitions == {Def("RUN_ALL", 0, "QUEUE", 0), Def("RUN_LATEST", 0, "SKIP", 0)}
\* edits between keeping every occurrence and keeping the newest
EditDefinitions == {Def("RUN_ALL", 0, "QUEUE", 0), Def("RUN_LATEST", 0, "ALLOW", 2)}

SkipOnly == {Def("RUN_ALL", 0, "SKIP", 0)}
UpToOne == {Def("RUN_UP_TO_N", 1, "ALLOW", 0)}
=============================================================================
