------------------------- MODULE OperationLifecycle -------------------------
(***************************************************************************)
(* What a browser that posts commands may rely on, whatever happens to the *)
(* owner, the helper's streams and the requests between them.  Every       *)
(* operation that the helper accepted is started at most once; it is       *)
(* reported completed only if it was started; the helper gives up on it by *)
(* itself only once, and only as far as it can know: "failed" if it is     *)
(* idempotent, "uncertain" otherwise; after that only the owner's own      *)
(* verdict can replace the report, and nothing replaces the owner's.       *)
(***************************************************************************)
EXTENDS Naturals

CONSTANTS
    Operations,  \* the operation ids
    Idempotent   \* a subset of them: those that may be repeated

VARIABLES
    report,  \* what the helper says of each operation
    judge,   \* who said so: "none", "helper" or "owner"
    starts   \* how often the owner started it

vars == <<report, judge, starts>>

Verdicts == {"completed", "failed", "uncertain"}
Final == Verdicts \cup {"forgotten"}

Init ==
    /\ report = [o \in Operations |-> "unknown"]
    /\ judge = [o \in Operations |-> "none"]
    /\ starts = [o \in Operations |-> 0]

Report(o, by, verdict) == report'[o] = verdict /\ judge'[o] = by /\ starts'[o] = starts[o]

Accept(o) == report[o] = "unknown" /\ Report(o, "none", "accepted")

\* Starting does not depend on the report: the helper may have given up.
Start(o) ==
    /\ report[o] # "unknown" /\ starts[o] = 0 /\ starts'[o] = 1
    /\ report'[o] = report[o] /\ judge'[o] = judge[o]

HelperGivesUp(o) ==
    /\ report[o] = "accepted"
    /\ Report(o, "helper", IF o \in Idempotent THEN "failed" ELSE "uncertain")

OwnerDecides(o) ==
    /\ report[o] = "accepted" \/ judge[o] = "helper"
    /\ \/ starts[o] = 1 /\ Report(o, "owner", "completed")
       \/ Report(o, "owner", "failed")

\* A terminal record leaves the helper's deduplication table.
Forget(o) == report[o] \in Verdicts /\ Report(o, "none", "forgotten")

Unchanged(o) == Report(o, judge[o], report[o])

Step(o) ==
    \/ Accept(o)
    \/ Start(o)
    \/ HelperGivesUp(o)
    \/ OwnerDecides(o)
    \/ Forget(o)
    \/ Unchanged(o)

\* One handler may touch several operations (a drain gives up on all), so
\* the next-state relation is a conjunction over the operations.
Next ==
    /\ \A o \in Operations : Step(o)
    /\ report' = [o \in Operations |-> report'[o]]
    /\ judge' = [o \in Operations |-> judge'[o]]
    /\ starts' = [o \in Operations |-> starts'[o]]

Spec == Init /\ [][Next]_vars
=============================================================================
