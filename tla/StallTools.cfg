\* Stall summaries of every job of the families of MCStallTools, damaged
\* directories, and comparisons of three versions.
SPECIFICATION Spec
CONSTANTS
  NoOverride = NoOverride
  NoSummary = NoSummary
  Missing = Missing
  Host <- NineHosts
  Row <- NineRows
  Col <- NineCols
  Resolve <- Resolved
  Calls <- AllCalls
INVARIANTS
  StallsAreTheJobs
  LocalityIsTheJobs
  PhasesAreTheJobs
  VersionsAreTheJobs
  MatrixIsComplete
  AllOrNoReport
