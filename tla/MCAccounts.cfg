SPECIFICATION FairSpec
CONSTANTS
    Emails = {ann, bob}
    DevEmails = {ann}
    Handlers = {h1, h2}
    SubjectSigned = FALSE
    NoHandler = nohandler
    NoEmail = noemail
    NoRow = norow
    MaxRequests = 5
INVARIANT TypeOK
INVARIANT Attributable
INVARIANT RemovedOrReferenced
INVARIANT AdminUnlessOusted
PROPERTY OnlyFirstIsAdmin
PROPERTY RequestsEnd
CHECK_DEADLOCK FALSE
