\* Two processes, two keys, two addresses; removals are forced.
CONSTANTS
    Procs = {p1, p2}
    Keys = {k1, k2}
    Addresses = {ip1, ip2}
    MustBeCoherent = FALSE
    None = None
SPECIFICATION Spec
INVARIANTS TypeOK CoherentAtRest KnownHostHasQuality AddressesHaveKeys
SYMMETRY Symmetry
CONSTRAINT Claimed
