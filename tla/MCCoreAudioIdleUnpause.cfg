CONSTANTS
    Rates = {1}
    DefaultRate = 1
    Tracks = 1
    Plans <- UnpausePlans
SPECIFICATION FairSpec
PROPERTIES
    Resumes
