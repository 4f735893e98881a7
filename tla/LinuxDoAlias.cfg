SPECIFICATION Spec
CONSTANTS
    Topics = {t1}
    a = a
    b = b
    Names = {a, b}
    Repos = {x, y}
    NoRepo = none
    Facts = {f, g}
    draft = draft
    edited = edited
    Contents = {edited}
    NoContent = none
    Title <- TitleOf
    Mentioned <- MentionedIn
    Promoted <- AllPromoted
    NoCandidate = none
    Readers = {r1}
    NoSnapshot = none
    QueueLimit = 2
    MaxRule = 1
    MaxRevision = 4
INVARIANT PublishedIsLinked
CHECK_DEADLOCK FALSE
