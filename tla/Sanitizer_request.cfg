\* What is replaced: two calls about one text in a world with one edit.  By which
\* labels: three originals in up to three pairs, with any of three labels typed by
\* the user, on the ChatGPT bridge (bare aliases on).
SPECIFICATION SanitizerSpec
CONSTANTS
    Fold <- MCFold
    Finds <- MCFinds
    Segments <- MCSegments
    NetworkDetectors = {"corp"}
    MaxExtendsDepth = 2
    Unrestricted = Unrestricted
    Requests = {r1, r2}
    First = r1
    Inputs <- MCInputs
    Pods = {"p1", "p2", "p3", "p4", "p5"}
    Core <- MCCore
    Teams = {"t1", "t2"}
    Selected <- MCSelected
    DefaultIds <- MCDefaultIds
    RuleFiles <- MCRuleFiles
    Roots <- MCRoots
    TermFinds <- MCTermFinds
    Oracle <- MCOracle
    Sampled <- MCSampled
    Unsigned = {"broken"}
    None = None
    MaxEdits = 1
    o1 = o1
    o2 = o2
    Originals <- MCOriginals
    Names <- MCNames
    Texts <- MCTexts
    Typed <- MCTyped
    Fallback = "REDACTED"
    BareAliases = TRUE
    MaxPairs = 3
CHECK_DEADLOCK FALSE
INVARIANTS
    PlanFits
    CacheTransparent
    NothingInClear
    DeliveredIsClean
    ExtendsSound
    NoForeignShare
    RestoresOnlyRedactions
