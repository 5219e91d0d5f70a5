CONSTANTS
  MaxFacts = 2
  MaxDamage = 1
  DamageKinds = {"text", "metadata", "owner", "slot", "structure", "component", "name"}
SPECIFICATION SalvageSpec
INVARIANTS SalvageIsClean
CHECK_DEADLOCK FALSE
