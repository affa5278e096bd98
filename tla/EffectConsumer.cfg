CONSTANTS
  MaxLog = 4
  BatchSize = 2
  MaxFaults = 2
SPECIFICATION FairSpec
INVARIANTS TypeOK NoEffectSkipped SuccessNotRepeated
PROPERTIES EffectsHappen
