SPECIFICATION Spec
CONSTANTS
    fine = fine
    clash = clash
    oddName = oddName
    secret = secret
    r1 = r1
    r2 = r2
    p1 = p1
    p2 = p2
    NoOne = NoOne
    Cands <- MCPair
    Attr <- MCAttr
    Reviewers <- MCReviewers
    Promoters <- MCPromoters
PROPERTY TerminalIsFinal
