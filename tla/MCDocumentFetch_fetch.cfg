\* Two hosts and three redirects; two files of two types, put up to three times.
SPECIFICATION Spec
CONSTANTS
    Hosts = {h1, h2}
    MaxRedirects = 3
    MinChars = 2
    Lengths = {0, 1, 2}
    Keys = {k1, k2}
    Types = {"pdf", "docx", "xlsx", "text"}
    Contents <- MCContents
    MaxFiles = 2
    MaxPuts = 3
    MaxFetches = 2
CHECK_DEADLOCK FALSE
INVARIANTS
    
    FilesWhole
