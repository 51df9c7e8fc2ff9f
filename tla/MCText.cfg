CONSTANTS
  Name = {"a"}
  Kind = {"internal", "file_sd", "pipe_sd", "unix_sd", "inet_sd", "streams_sd",
          "file_dd", "pipe_dd", "unix_dd", "inet_dd", "user_dd", "program_dd"}
  YYMAXDEPTH = 14
  MaxDrivers = 2
  MaxStatements = 2
  MaxWritten = 2
  MaxParses = 2
  Char = {"n", "_", "-", "dq", "sq", "bs", "nl", "#", ";"}
  Keyword <- Keywords
  YY_BUF_SIZE = 3
  MaxChars = 4
  MaxFiles = 2
  Leaf <- Leaves
  Rule <- Rules
  Message <- Messages
  MaxWords = 5
  Token <- Tokens
  Line <- Lines
  Hop <- Sources
  Number = {"13", "5", "43", "0"}
  KernPri = {"0", "5"}
  BadHostname <- BadHostnames
  TokenLen <- TokenLens
  MaxHostname = 6
  Lower <- Lowers
  MaxHops = 3
  Letter = {"M", "N"}
  DigitValue <- Digits
  Text = {"t"}
  MacroValue <- MacroValues
  ReMatches <- Matches
  MaxTemplateChars = 5
SPECIFICATION Spec
INVARIANTS ConfigurationAsWritten TokensAsWritten FilterAsWritten RelayKeepsMessage TemplateAsWritten
CHECK_DEADLOCK FALSE
