SPECIFICATION FairSpec
CONSTANT Families <- MCFamilies
INVARIANTS TypeOK FilledAsCounted ParsesAsWritten AllFreed
PROPERTY ParseEnds
