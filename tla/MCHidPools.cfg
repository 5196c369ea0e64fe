SPECIFICATION Spec
CONSTANTS
  Instances = {0, 1}
  DeviceCount = 2
  CollectionCount = 3
  MemberCount = 4
  Descriptors <- AllDescriptors
  Fields <- AllFields
  NoField = NoField
  NoDescriptor = NoDescriptor
CONSTRAINT ReadUnspoiled
INVARIANTS
  TypeOK
  ListsSeparate
  NoLeak
PROPERTIES
  ReadsDeclared
