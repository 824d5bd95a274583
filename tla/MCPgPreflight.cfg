\* Three processes, three configurations, two namespaces of one database.
CONSTANTS
    small = small
    other = other
    large = large
    s1536 = s1536
    s3072 = s3072
    n1 = n1
    n2 = n2
    p1 = p1
    p2 = p2
    p3 = p3
    None = None
    Configs = {small, other, large}
    Shapes = {s1536, s3072}
    ShapeOf <- MCShapeOf
    Adoptable = {small}
    Procs = {p1, p2, p3}
    NamespaceOf <- MCNamespaceOf
    Namespaces = {n1, n2}
    Observed = n1
    Large = {large}
    Package = "new"
    MayUpdate = {p3}
    Leftovers = TRUE
SPECIFICATION Spec
SYMMETRY MCSymmetry
INVARIANTS OneWriter LargeNeedsNew NothingHalfDone
PROPERTIES ImplementsStore
