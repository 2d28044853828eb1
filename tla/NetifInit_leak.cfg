\* Either init function of the repository, with or without initializeRules().
CONSTANTS
  MEM_SIZE = 3000
  Inits = {"schc_if_init", "virtualloraif_init"}
CHECK_DEADLOCK FALSE
SPECIFICATION Spec
INVARIANTS
  NoLeakedRequest
