SPECIFICATION ConsoleSpec
CONSTANTS
  Keys <- MCKeys
  Blocks <- MCBlocks
  TinyKeys <- MCTinyKeys
  TinyCipher <- MCTinyCipher
  TinyDecrypt <- MCTinyDecrypt
  MbedKeys <- MCMbedKeys
  MbedCipher <- MCMbedCipher
  Xor <- MCXor
  UserEnc <- MCUserEnc
  Fips <- MCFips
  ZeroKey <- MCZeroKey
  ZeroSchedule <- MCZeroSchedule
  NoKey <- MCNoKey
  Garbage <- MCGarbage
  Passwords <- MCPasswords
  PasswordOf <- MCPasswordOf
  Menus <- MCMenus
  N = 2
  Every = 2
  MaxGlitches = 2
INVARIANTS CmdInv EnginesAreAes TriggerLowWhenIdle
PROPERTIES UnlockedOnlyByPassword ImplementsCipherService ReportsGlitches
