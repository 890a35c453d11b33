\* Migrations at once and beside reports, and every command of the analyzer on
\* the bundles of MCResultTools.
SPECIFICATION Spec
CONSTANTS
  m1 = m1
  m2 = m2
  Migrations <- Both
  Commands <- AllCommands
  NodesIn <- WordNodes
  RanksIn <- WordRanks
  Alphabet <- Ascii
  Labels <- AllLabels
INVARIANTS
  TypeOK
  CopiesAreWhole
  CopyReadsLikeOriginal
  NodesAreEvidenced
  RunsInOrder
  AggregatesAddUp
  PairsAreComparable
  CategoriesMakeUpExchange
  AllAccountedFor
  FilesAreOfOneReport
PROPERTIES
  NeverOverwrites
