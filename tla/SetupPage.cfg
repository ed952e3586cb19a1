CONSTANTS
  Entries <- MCEntries
  Secrets <- MCSecrets
  Settings <- MCSettings
  Default <- MCDefault
SPECIFICATION SetupSpec
PROPERTY UntouchedStays
PROPERTY TypedIsSaved
