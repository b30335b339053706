SPECIFICATION Spec
CONSTANTS
    d1 = d1
    d2 = d2
    d3 = d3
    plain = plain
    filtered = filtered
    p1 = p1
    p2 = p2
    r1 = r1
    r2 = r2
    Device = {d1, d2}
    Channel = {plain}
    Filtered = {}
    Partition = {p1, p2}
    PartitionOf <- OnePartition
    Request = {r1, r2}
    MaxInFlight = 2
    MaxList = 2
    MaxOverlaps = 1
SYMMETRY Requests
INVARIANTS
    MembersAreIndexed
