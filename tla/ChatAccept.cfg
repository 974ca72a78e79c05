SPECIFICATION Spec
CONSTANTS
    m1 = m1
    m2 = m2
    k1 = k1
    alice = alice
    bob = bob
    a1 = a1
    b1 = b1
    NoCall = NoCall
    NoMsg = NoMsg
    Absent = Absent
    Pending = Pending
    Convs = {k1}
    Users = {alice, bob}
    Devices = {a1, b1}
    Movers = {alice}
    ConvOf <- MCConvOf
    Sender <- MCSender
    UserOf <- MCUserOf
    Calls = {c1, c2}
    Msgs = {m1, m2}
    Windowed = {m2}
    MaxFaults = 1
SYMMETRY Symmetry
INVARIANTS
    DurableFirst
    SeqsDense
    AtMostOnce
