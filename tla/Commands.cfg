SPECIFICATION Spec
CONSTANTS
  NoEqual = NoEqual
  Nowhere = Nowhere
  None = None
  Name <- MCName
  Identifier <- MCIdentifier
  Text <- MCText
  Path <- MCPath
  Link <- MCLink
  Dir = {d1, d2}
  Inherited <- MCInherited
  ExportArgs <- MCExportArgs
  UnsetArgs <- MCUnsetArgs
  Assignments <- MCAssignments
  CdArgs <- MCCdArgs
INVARIANTS TypeOK NamesUnique ExportTells UnsetTells CdTells
PROPERTIES IsMap CdLeavesTrail
