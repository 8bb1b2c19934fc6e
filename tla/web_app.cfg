\* Twenty-two tours of the application by one tab, every request answered, refused
\* or lost in any order.
SPECIFICATION Spec
CONSTANTS
    None = None
    d1 = d1  d2 = d2  t1 = t1  t2 = t2  org1 = org1  org2 = org2
    owner = owner  admin = admin  member = member
    Docs = {d1, d2}
    Templates = {t1, t2}
    Users = {owner, admin, member}
    Orgs = {org1, org2}
    Ranges = {"old"}
    Quotas = {0, 1, 2}
    MaxRows = 3
    MaxCalls = 3
    Faulty = TRUE
    Tours <- MCTours
INVARIANTS TypeOK ViewerShowsItsDocument SpinnersAreReal OneProviderCall
           RunIsUniform OfferedIsAllowed NoQuestionDropped
           ExpandedAreHits PagesMatchToken
PROPERTIES OwnerStays SelectionIsShown ConversationGrows ComesToRest
CHECK_DEADLOCK FALSE
