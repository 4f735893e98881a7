SPECIFICATION Spec
CONSTANTS
    Topics = {t1, t2}
    a = a
    b = b
    Names = {a, b}
    Repos = {x, y}
    NoRepo = none
    Facts = {f, g}
    draft = draft
    edited = edited
    Contents = {draft, edited}
    NoContent = none
    Title <- TitleOf
    Mentioned <- MentionedIn
    Promoted <- PromotedBy
    NoCandidate = none
    Readers = {r1}
    NoSnapshot = none
    QueueLimit = 2
    MaxRule = 2
    MaxRevision = 3
INVARIANTS
    TypeOK
    LinksHaveCandidates
    PrivateIsWithdrawn
    QuietCacheIsCurrent
    DecidedAtSuccess
PROPERTY
    RevisionMoves
SYMMETRY Symmetric
CHECK_DEADLOCK FALSE
