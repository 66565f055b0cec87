SPECIFICATION Spec
CONSTANTS
    None = None
    p1 = p1  p2 = p2  s1 = s1  s2 = s2  o1 = o1  o2 = o2  meter = meter
    ra = ra  rb = rb  rc = rc  rx = rx  rz = rz  ra2 = ra2
    Width = 3
    Removable <- RemovableTables
    KeyOf <- RowKeys
    Capacity = 2
    MaxFaults = 0
    Uncastable <- NoRows
    Tables <- AllTables
    Puts <- AllPuts
    Subscribers <- AllSubscribers
    Exports <- AllExports
    Writers <- AllWriters
    Exporter = meter
    MetricsTable = "metrics"
    MetricsSchema <- MetricsColumns
    Cases <- TeeCase
CHECK_DEADLOCK FALSE
INVARIANT InsertReachesBoth
