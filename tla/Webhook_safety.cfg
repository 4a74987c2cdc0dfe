SPECIFICATION Spec
CONSTANTS
    Workers = {w1, w2}
    Nobody = nobody
    e1 = e1
    e2 = e2
    Events = {e1, e2}
    Mutating = {e1, e2}
    Users = {1, 2}
    Participants <- MCParticipants
    MaxTrouble = 2
SYMMETRY MCSymmetry
INVARIANTS SuccessMeansReconciled AckMeansAudited
PROPERTIES TerminalAuditFinal LockOwned
