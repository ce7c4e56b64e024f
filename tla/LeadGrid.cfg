\* One lead, shown to a branch head or a counsellor; one change by another user,
\* two saves, one other filter, two lists on their way at a time.  Nothing has to
\* go on once these are used up.
SPECIFICATION Spec
CONSTANTS
  l1 = l1
  new = new  contacting = contacting  lost = lost
  Leads = {l1}
  Stages = {new, contacting, lost}
  Needs = {contacting}
  Rejected = {lost}
  Me = me
  rep = rep
  Others = {rep}
  None = None
  Filters <- MCFilters
  Starts <- MCStarts
  TheirEdits <- MCTheirEdits
  MaxEdits = 1
  MaxPresses = 2
  MaxPicks = 1
  MaxFetches = 2
INVARIANTS TypeOK InStep
PROPERTIES FollowUpOnce
CHECK_DEADLOCK FALSE
