SPECIFICATION Spec
CONSTANTS
  Block = 1
  Bytes <- MCBytes
  Controls <- MCControls
  Images <- MCImages
  Roms <- MCRoms
  Orgs <- MCOrgs
  Boots <- MCBoots
  MaxWrites = 1
PROPERTY ImplementsRamDisk
