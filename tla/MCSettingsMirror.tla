-------------------------- MODULE MCSettingsMirror --------------------------
(* An instance of SettingsMirror for TLC.                                  *)
EXTENDS SettingsMirror

\* A setting of each kind, the values, and the lack of one.
CONSTANTS promptType, beepSoundName, recognitionTimeout, initial, other

=============================================================================
