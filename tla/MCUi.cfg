\* Two analyses of two daemons, an analysis with a viewer and a web user, an
\* analysis beside a tuning, two tunings of one project, and web users alone.
SPECIFICATION FairSpec
CONSTANTS
  PageSize = 1
  Analyses <- A
  Tunings <- T
  Ips <- Addresses
  IpOf <- Address
  ColsOf <- Columns
  ParamsOf <- Parameters
  Samples = 1
  Rounds = 2
  Webs <- W
  Uids <- U
  Emails <- E
  Pwds = {"x"}
  Descs = {"d"}
  Workloads <- Loads
INVARIANTS TypeOK OneCommandPerRun RowsOfOneRun EndedIsExact LogReaderExact ListsAgree UniqueEmail FinishedHasLastRound
PROPERTIES TotalGrows AnalysisEnds
CHECK_DEADLOCK FALSE
