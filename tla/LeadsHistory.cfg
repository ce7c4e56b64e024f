\* One person with two branches, their desk and their report: two leads in one branch, one in
\* the other; two requests, one change by others.
SPECIFICATION HistorySpec
CONSTANTS
  ann = ann  bob = bob  l1 = l1  l2 = l2  l3 = l3  x = x  y = y
  None = None
  Unassigned = Unassigned
  People = {ann, bob}
  Leads = {l1, l2, l3}
  Orgs = {x, y}
  OrgOf <- MCOrgOf
  Desks = {ann}
  At <- MCAt
  Wide = {}
  Grant <- MCGrant
  Rank <- MCRank
  ADMIN = 3
  BulkMax = 2
  FirstLeads <- MCFirst
  FirstMembers <- MCMembers
  MaxCalls = 2
  MaxEdits = 1
  Standings <- MCStandings
  FirstStanding <- MCFirstStanding
  Readable <- MCReadable
PROPERTIES WithinReach SaysWhatWasAsked
