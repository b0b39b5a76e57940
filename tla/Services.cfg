\* Two calls of any kind, at once or in turn, each sent up to twice.
CONSTANTS
  NoClient = NoClient
  NoName = NoName
  Environments <- MCEnvironments
  AddonKeys = {"x"}
  MaxCalls = 2
  MaxAttempts = 2
  Topics = {"t1"}
  Stored <- MCStored
  Folders <- MCFolders
  Images = {"a.png", "c.png"}
  ContactLists = {"list"}
  Contacts = {}
  Templates = {"old", "older"}
  SesPage = 2
  S3Page = 2
  Tables = {NoName, "mine"}
  TopicArgs = {NoName}
  BucketArgs = {NoName, "b2"}
  TemplateNames = {"new"}
  Keys = {"b.txt"}
  Bodies = {"json"}
SPECIFICATION Spec
INVARIANTS
  TypeOK
  OneClient
  NamesFound
  OkIsDone
  ListsWhole
  ReadsTrue
PROPERTIES
  CallsReturn
CHECK_DEADLOCK FALSE
