\* Two sessions, a change, four requests of saves and renames, and a failure, a
\* crash or a power loss.
SPECIFICATION Spec
CONSTANTS
    s1 = s1
    s2 = s2
    Sessions = {s1, s2}
    MaxChanges = 2
    MaxRequests = 4
    MaxFaults = 1
SYMMETRY TwoAlike
INVARIANTS
    AcknowledgedSurvives
    RevisionKnown
    SavedUnlessOvertaken
PROPERTIES
    DurableReferencesFlushed
\* The environment is bounded: a behaviour past its bounds stops.
CHECK_DEADLOCK FALSE
