CONSTANTS
  Reader = {h1}
  Writer = {h2}
  None = None
  INPUT_BUF = 2
  UART_TX_BUF_SIZE = 2
  WRAP = 4
  Script <- MCScript
  Start = {3}
  MAXARGS = 3
  Letter = {"e", "c"}
  Word <- Words
  MaxTokens = 5
SPECIFICATION MCSpec
INVARIANTS OutputInOrder LocksSafe ParseExact
PROPERTIES LineDiscipline ConsoleProgress
CHECK_DEADLOCK FALSE
