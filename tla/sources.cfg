SPECIFICATION Spec
CONSTANTS
  Location = {"site"}
  Credential = {"k1"}
  Connection = {"c1"}
  Schedule = {"daily"}
  Profile = {"auto", "manual"}
  Nothing = Nothing
  ProfileOf <- MCProfileOf
  Page <- MCPage
  StartOf <- MCStartOf
  FilesOf <- MCFilesOf
  OwnHost = {"a", "b", "c", "d"}
  Html = {"a", "b", "c"}
  Parseable = {"a", "b", "c", "d"}
  NameOf <- MCNameOf
  Limit = 5
  Depth = 2
  Column <- MCColumn
  Cell = {"v"}
  ExactField <- MCExactField
  PartialFields <- MCPartialFields
  MaxRows = 4
  Server = {s1, s2}
  Worker = worker
  Bodies <- MCBodies
  Requested = {"approved"}
  FirstLocation = "site"
  FirstProfile = "auto"
  Sites <- MCSites
  TableOf <- MCTableOf
  MaxSaves = 2
  MaxSyncs = 1
  MaxFaults = 1
SYMMETRY Servers
CHECK_DEADLOCK FALSE
INVARIANTS  CrawlIsComplete ApprovedWasTrusted ValidRowsAreFilled
