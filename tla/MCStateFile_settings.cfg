SPECIFICATION Spec
CONSTANTS
  agent_cfg = agent_cfg
  autonomy = autonomy
  props = props
  Saved <- SavedStores
  Unsaved <- UnsavedStores
  V1Keys <- FirstSchema
  Faults <- EveryFault
  MaxEdits = 3
PROPERTIES KeepsSettingsPromise BootsFromOneMoment
