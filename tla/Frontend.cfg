SPECIFICATION Spec
CONSTANT Parts = {"nav", "selection", "desk", "run", "tasks", "cancel", "retry", "brief", "files", "titles", "guide",
    "chat", "session", "users", "poll", "form", "page", "store", "load", "traces", "notebook",
    "sides", "tabs", "traceview", "compare", "framed", "panel", "canvas", "blocks", "cells", "drawer",
    "members", "notices", "door", "dialogs", "places", "snippets", "choice", "keys", "lists",
    "reports", "probe", "platform", "accounts", "addresses"}
CONSTANTS
    f1 = f1  f2 = f2  colA = colA  colB = colB  t1 = t1  u1 = u1  k1 = k1  k2 = k2
    Projects = {p1}  NewProjects = {n1}  None = None  MaxLoads = 2  MaxSaves = 2
    Files = {f1, f2}  Columns = {colA, colB}  ColumnsOf <- MCColumnsOf  NoFile = NoFile  NoColumn = NoColumn
    MaxUploads = 2  MaxAsked = 2
    DataFiles = {f1}  NoData = NoData  MaxRuns = 2  MaxTicks = 1
    FirstJobs = {j1}  RetryJobs = {r1}  NoJob = NoJob  MaxLogAsks = 2
    MaxInFlight = 2
    Briefs = {b1, b2}  NoBrief = NoBrief
    MaxMessages = 3
    Tabs = {t1, t2}  Users = {u1, u2}  NoUser = NoUser  MaxTokens = 2  MaxTries = 2
    MaxFails = 2
    Cells = {c1, c2}  NoCell = NoCell  CellTypes = {"prompt", "code"}  MaxCellRuns = 2
    MaxEdits = 5
    Tables = {f1, f2}  NoTable = NoTable
    MaxTraces = 3  KeepLocal = 2  AskServer = 1
    Sheets = {s1, s2}  SheetKinds = {"prompt"}  MaxPrompts = 2
    Width <- MCWidth  Reach = 2  MaxEvents = 2
    Value <- MCValue  LowerIsBetter = {"loss"}  MaxListed = 4
    PhaseCount = 1  RecordsKept = 1  MaxCanvasRuns = 2
    AssistedBlocks = {"data"}  EditedFields = {"title"}  Outputs <- MCOutputs  DynCells = {c1, c2}
    NoAction = NoAction  MaxAnswers = 2
    Members = {u1}  NoticeIds = {a1, a2}  NoNotice = NoNotice  MaxAdminAsks = 3
    OpenedActivities = {"define.goal", "data.ingest"}  MaxDeskAsks = 2  MaxVisits = 2
    AiTabs = {t1, t2}  ChatChoices = {"openai", "gemini", "bedrock"}  MaxChoices = 3
    Lists = {"models", "jobs", "home", "knowledge"}  MaxVersions = 2  MaxListLoads = 2  MaxLost = 1
    Reports = {f1, f2}  NoReport = NoReport  MaxPageAsks = 2
    Emails = {m1, m2}  Master = m1  UserIds = {k1, k2, k3}  Requests = {q1, q2}  NaiveExpiry = FALSE
CHECK_DEADLOCK FALSE
INVARIANTS
    FrontendTypeOK ScreenFitsSession SettledAgree RequestsMakeSense 
    TabIsItsUsers  BannerIsFounded AdminSeesServer
     AccountsAgree
PROPERTIES LockHolds  ListsCatchUp NothingIsWrittenBack
