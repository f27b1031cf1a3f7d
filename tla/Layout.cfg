SPECIFICATION Spec
CONSTANTS
  Member <- NarrowMember
  Written <- NarrowWritten
  Values <- NarrowValues
INVARIANT ReadsBack
