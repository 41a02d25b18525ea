SPECIFICATION ShellSpec
CONSTANTS
  Width = 3
  Height = 3
  TabStop = 2
  BufSize = 4
  ParamSize = 2
  Prompt <- MCPrompt
  Letters = {"a"}
  Commands <- MCCommands
  Cls <- MCCls
  Outputs <- MCOutputs
  OtherTexts <- MCOtherTexts
  StartRows <- MCStartRows
  Junk <- MCJunk
  MaxLines = 2
  MaxOthers = 1
INVARIANTS
  CursorOnScreen
  LineShown
  RunsWhatWasTyped
