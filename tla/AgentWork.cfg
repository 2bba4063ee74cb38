CONSTANTS
  Ordinary = {a, b}
  Delegations = {d}
  Slots = 1
  MaxAsks = 2
  MaxChild = 1
  MaxRuns = 2
  Window = 200
  Reserve = 20
  Fixed = 1
  Sizes = {1, 60}
  SummarySizes = {2, 50}
  Measured = {0, 170}
  MaxContents = 6
  SummaryWindow = 9000
  InputWindow = 8000
  SummaryOutput = 512
  InstructionTokens = 240
  SectionLengths = {300, 7000}
  MaxSections = 3
  ReplyLengths = {0, 900, 3000, 6000}
  Authors = {n, s, x}
  Internal = {x}
  Texts = {"t", "u"}
  MaxRevision = 3
  DelegationIds = {1, 2, 3}
  Plain = 0
  Limit = 2
  MaxItems = 6
  Streams = {"root", "d"}
  MaxResponses = 2
  MaxPartials = 2
  AcpTools = {t, n}
  NotesTools = {n}
  MessageIds = {m}
  MaxChunks = 2
  MaxWrites = 1
  PromptSessions = {"s", "z"}
  Terminals = {"t", "u"}
  MaxPrompts = 2
  Spellings = {"a", "./a", "b"}
  FileOf <- SpellingOf
  MaxChanges = 2
  MaxOtherWrites = 1
  MaxFaults = 1
  Places = {"p", "q"}
  Programs = {"x", "y"}
  Directories = {"d", "e"}
  MaxChangesOfWorld = 3
  Addresses = {"a", "b", "c", "d"}
  AllowedByRule = {"a"}
  MaxRedirects = 2
  MaxAttempts = 4
  Servers = {"x"}
  SettingsSessions = {"s"}
  Rules = {"ask", "allow"}
  PermissionSets = {"p", "q"}
  MaxVersion = 2
SPECIFICATION WorkSpec
SYMMETRY Symmetry
CHECK_DEADLOCK FALSE
INVARIANTS
  
  PromptsFit
  BatchesAreFinished
  LogIsUsable
  PagesKeepDelegations
  TimelineIsTranscript
  
  TerminalsAreOwned
  AnswersMatchDecisions
  
  CommandRunsAsApproved
  OnlyApprovedAddresses
  
PROPERTIES
  CompactionSuffices
  UpdatesReplaceWhatWasRead
