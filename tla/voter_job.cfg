\* A job of four votes, a limit of three writes, up to three startups.
SPECIFICATION FairVoter
CONSTANTS
  VoteCount = 4
  MaxConsecutiveWrites = 3
  MaxStartups = 3
  MaxVotes = 8
INVARIANTS
  VoterTypeOK
  ExitIsEarned
  NeverStopsShort
PROPERTY JobEnds
\* The process exits or crashes.
CHECK_DEADLOCK FALSE
