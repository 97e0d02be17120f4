\* Two tickets and one technician.
SPECIFICATION WindowSpec
CONSTANTS
    Tickets = {k1, k2}
    Agents = {g1}
    Forms = {"comment"}
    MaxActs = 4
INVARIANT AssignedByChoice
CHECK_DEADLOCK FALSE
