SPECIFICATION SettingsSpec
CONSTANTS
  promptType = promptType
  beepSoundName = beepSoundName
  recognitionTimeout = recognitionTimeout
  initial = initial
  other = other
  LiveKeys = {promptType}
  LookedKeys = {beepSoundName}
  CopiedKeys = {recognitionTimeout}
  Values = {initial, other}
  Default = initial
  Absent = Absent
  MaxSaves = 2
  Ports = {8765, 8766}
  DefaultPort = 8765
  Taken = {8766}
  MaxStarts = 3
INVARIANTS
  SettingsTypeOK
  ServesWhenRunning
  NothingLeaks
  ShownIsKept
  WakeUsesShown
  AppliedPortServes
