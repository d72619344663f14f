\* Two delegated writers whose paths overlap, fair scheduling; nobody asks or stops anything.
SPECIFICATION FairSpec
CONSTANTS
    Root = r
    c1 = c1
    c2 = c2
    f1 = f1
    f2 = f2
    Children = {c1, c2}
    Files = {f1, f2}
    Owned <- OwnedOverlapping
    MaxGeneration = 1
    Budgets <- OneRevert
PROPERTIES
    WaitersServed
