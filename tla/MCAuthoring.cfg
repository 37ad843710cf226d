SPECIFICATION FairSpec
CONSTANTS
    r1 = r1
    r2 = r2
    r3 = r3
    Requests = {r1, r2, r3}
    MaxConcurrent = 2
    Forms <- MCForms
    FirstLanguages = {1, 2, 3}
    Assigned = {1}
    Null = Null
INVARIANTS TypeOK ImagesExist OrphansAreFailures TextsHaveLanguages
PROPERTIES RefinesCatalogue RequestsEnd
