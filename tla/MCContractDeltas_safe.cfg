SPECIFICATION Spec
CONSTANTS
  Repos <- MCRepos
  Tokens <- MCTokens
  Host <- MCHost
  Names <- MCNames
  Offers <- MCOffers
  Absent = Absent
  Contained <- MCContained
  MaxUpdates = 2
  MaxLines = 5
INVARIANTS TypeOK InStep CredentialsServed CredentialsGone
CHECK_DEADLOCK FALSE
