SPECIFICATION Spec
CONSTANTS
  NsPrefixes = {"p", "q"}
  Names = {"x", "y"}
  URIs = {"u", "v"}
  MaxAttrs = 3
INVARIANTS TypeOK PrefixesBound OnlyRefusalTears TagRebuilt
CHECK_DEADLOCK FALSE
