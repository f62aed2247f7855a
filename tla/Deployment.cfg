SPECIFICATION Spec
CONSTANTS
    Tenants = {axerra, acme}
    Root = axerra
    Procs = {p1, p2}
    Releases = 2
    MaxBorn = 2
SYMMETRY Symm
INVARIANT TypeOK
INVARIANT LiveIsWhole
INVARIANT Rebuilt
