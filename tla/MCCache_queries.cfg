\* Two queries in flight; a result of three batches outgrows the limit.
SPECIFICATION Spec
CONSTANTS
    a = a
    b = b
    aName = aName
    aQualified = aQualified
    bName = bName
    join = join
    system = system
    q1 = q1
    q2 = q2
    Queries = {q1, q2}
    Plans = {join, system}
    Cacheable = {join}
    Datasets = {a, b}
    References = {aName, aQualified, bName}
    TableOf <- MCTableOf
    NameOf <- MCNameOf
    RefsOf <- MCRefsOf
    MaxSize = 2
    TTL = 2
    MaxVersion = 2
    MaxBatches = 3
INVARIANTS
    CachedResultsComplete
    StaleEntryExplained
PROPERTIES
    StaleEntriesLeave
