CONSTANTS
    Chunks <- MCChunks
    Texts <- MCTexts
    Content <- MCContent
    Dense <- MCDense
    Keywords <- MCKeywords
    Overlap <- MCOverlap
    TitleHit <- MCTitleHit
    Tokens <- MCTokens
    Scopes <- MCScopes
    TopK = 3
    RerankTopK = 3
    Budget = 5
    MaxAdds = 3
    Seeded <- MCSeeded
    Absent = Absent
SPECIFICATION RetrievalSpec
INVARIANTS OnlyVisible EvidenceFits ConfidenceOfEvidence
PROPERTIES NewestFound
