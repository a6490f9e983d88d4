\* FAT entries in their bytes: two sectors of eight bytes.
SPECIFICATION Spec
CONSTANTS
  Types <- MCTypes
  SectorSize = 8
  Sectors = 2
  Value <- MCValue
INVARIANTS TypeOK WritesOneEntry ReadsBack MarksEnd
