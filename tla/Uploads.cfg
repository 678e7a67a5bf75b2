\* Two browsers, two addresses, two workspaces, and two uploads of files of one name.
SPECIFICATION UploadsSpec
CONSTANTS
    lower = lower
    upper = upper
    other = other
    Browsers = {b1, b2}
    Typed = {lower, upper, other}
    Normalized <- Spellings
    Slugs = {s1, s2}
    MaxUsers = 2
    MaxWorkspaces = 2
    Uploads = {p1, p2}
    NoKey = NoKey
SYMMETRY UploadSymmetry
INVARIANTS
    AccountsTypeOK
    SignInOwn
    WorkspaceOwned
    DocumentHoldsItsFile
    DocumentInItsScope
