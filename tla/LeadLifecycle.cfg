CONSTANTS
    u1 = u1  u2 = u2  o1 = o1  o2 = o2  ph1 = ph1  ph2 = ph2
    new = new  contacting = contacting  closed = closed  out = out  lost = lost
    Statuses = {"pending", "completed"}
    None = None  Keep = Keep  Absent = Absent
    Leads = {l1, l2}
    Users = {u1, u2}
    Admins = {u1}
    Orgs = {o1, o2}
    Maps <- MCMaps
    Phones = {ph1, ph2}
    Stages <- MCStages
    FollowStages = {contacting}
    New = new
    Out = out
    Outcomes = {lost}
    OutcomeStage <- MCOutcomeStage
    NeedsComment = {lost}
    Entries <- MCEntries
    Bodies <- MCBodies
    MaxByHand = 1
    MaxDue = 1
    MaxRows = 2
    MaxWrites = 4
    MaxOpen = 2
SPECIFICATION Spec
INVARIANT TypeOK
PROPERTIES NoLostUpdate OutcomeIsNeverDropped FollowUpsMoveWithLead
CHECK_DEADLOCK FALSE
