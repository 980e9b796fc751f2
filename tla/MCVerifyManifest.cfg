SPECIFICATION Spec
CONSTANTS
    tdd = tdd
    readme = readme
    outside = outside
    good = good
    same = same
    long = long
    Paths = {tdd, readme}
    Refused = {outside}
    Bodies = {good, same, long}
    Size <- MCSize
    Governing = good
    TDD = tdd
    NoDigest = NoDigest
    BadDigest = BadDigest
    Garbled = Garbled
    Absent = Absent
    Obstacle = Obstacle
    Unreadable = Unreadable
    Undecodable = Undecodable
    Worlds <- MCWorlds
    Commands <- MCCommands
    MaxEdits = 2
CHECK_DEADLOCK FALSE
INVARIANTS TypeOK StatusesWitnessed UnfailedMatched QuietVerdict
PROPERTIES VerificationEnds
