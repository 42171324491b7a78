CONSTANTS
    plain = plain
    risky = risky
    Threads = {t1, t2}
    Queries = {plain, risky}
    Workflows = {plain, risky}
    QueryOf <- MCQueryOf
    IntentOf <- MCIntentOf
    Sensitive <- MCSensitive
    Decisions <- AllDecisions
    TicketIds = {i1, i2, i3}
    OtherVerdict = OtherVerdict
    MaxRetries = 3
    None = None
SPECIFICATION FairSpec
INVARIANTS HeldUnderTicket AnswersAreApproved
PROPERTIES NeverReopened DecisionTakesEffect
