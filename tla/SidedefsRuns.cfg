SPECIFICATION FairSpec
CONSTANTS
  NoIndex = 5
  Levels <- SomeLevels
  Commands <- SomeCommands
INVARIANTS TypeOK KeepsEveryLine OnlyAlikeShare FullyPacked FullyUnpacked Repeatable RefsInArrays VanillaStaysVanilla
PROPERTIES RunsEnd
