\* Direct uploads, access to files, and what comes in: checks, containers, fetches, paths.
CONSTANTS
  Parts = {"s3", "local", "managed", "access", "checked", "container", "addresses", "chains", "path"}
  Rest = Rest  p1 = p1  p2 = p2  w1 = w1  w2 = w2
  \* DirectUpload
  Clients = {p1, p2}  Sweepers = {p1, p2}  Instances = {p1, p2}  Versions = {w1, w2}
  InstanceOf <- EachItsOwn
  Kind = "s3"  Temporary = TRUE  UrlTtl = 2  ActivationLease = 2  ClaimLease = 2  Backoff = 1  TempLife = 2
  ManagedCalls = {FALSE}  Outlive = FALSE  PromptSweeps = FALSE  TickMs = 1
  MaxTime = 7  LastRequest = 3  MaxAhead = 3  MaxFaults = 1
  \* FileAccess
  None = None  Bad = Bad  Files = {"f1"}  Requests = {"r1"}  Attachments = {None, "a1", "a2"}
  FileRows <- SomeRows  Contexts <- SomeContexts
  PublicFiles = TRUE  DownloadTtl = 1  Lifetime = 3  SignDelay = 2  MaxClock = 6
  \* UploadValidation
  Unset = None  Rejected = Rejected
  Mimes = {"png", "zip", "docx", "txt", "json"}  Zip = "zip"  Ooxml = {"docx"}  Texts = {"txt", "json"}  Json = "json"
  AbsoluteMax = 3  DefaultMax = 2  Chunks = {1, 2}
  RawConfigs <- UploadConfigs  Calls <- UploadCalls  Contents <- UploadContents
SPECIFICATION PartsSpec
SYMMETRY UploadSymmetry
INVARIANTS
  TypeOK
  ReadyIsVerified
  CompletionsRespected
  NoOrphanFinal
  DeploymentsAlike
  FileAnswers
  StoredIsChecked
PROPERTIES
  InputsConfined
CHECK_DEADLOCK FALSE
