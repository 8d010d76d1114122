SPECIFICATION MCSpec
CONSTANTS
  Absent = Absent
  Link = Link
  NoName = NoName
  Nothing = Nothing
  Rejected = Rejected
  FormatByte <- MCFormatByte
  EndOfFile <- MCEndOfFile
  Others <- MCOthers
  Rank <- MCRank
  Atoms <- MCAtoms
  Contents <- MCContents
  Hash <- MCHash
  Digests <- MCDigests
  MetadataOf <- MCMetadataOf
  DeclaredHash <- MCDeclaredHash
  NamespacesOf <- MCNamespacesOf
  HashNamespaces <- MCHashNamespaces
  IsRecord <- MCIsRecord
  KeyOf <- MCKeyOf
  OrderKey <- MCOrderKey
  Directories <- MCDirectories
  Changes <- MCChanges
INVARIANTS
  SnapshotHashBindsAll
  WalkAgreed
  DeliversAsCounted
  KeysDistinct
  NoLastingDifference
  
CHECK_DEADLOCK FALSE
