\* Four rows, one change, pages of one and two; three names of fields, one of a relation.
CONSTANTS
    f1 = f1
    f2 = f2
    f3 = f3
    RowId = {1, 2, 3, 4}
    SortValue = {0, 1, 2}
    PerMs = 2
    Field = {f1, f2}
    Removed = {3}
    Hits <- HitsC
    Owned = {1, 2, 3}
    MaxChanges = 1
    MaxPages = 5
    Name = {f1, f2, f3}
    Relation = {f1}
    Taken = {f1, f3}
    Hidden = {f2}
    Undefined = Undefined
SPECIFICATION ListsSpec
INVARIANTS
    NoRowTwice
    NoRowMissed
    WhitelistHolds
CHECK_DEADLOCK FALSE
