SPECIFICATION Spec
CONSTANTS
  Pingers = {"ping1", "ping2"}
  Savers = {"save1", "save2"}
  Deadlines = {1, 2}
  MaxSeconds = 3
  MaxTokens = 2
  Checks = {"check1", "check2"}
  Sidecars = {"sidecar1", "sidecar2"}
  NoJob = "no job"
  MaxDeaths = 1
  AggRegions = {"east", "west"}
  ConfirmationThreshold = 2
  WindowExpiry = 1
  MaxMinutes = 3
  MaxFlying = 2
  Receivers = {"pager", "chat"}
  MaxRetries = 2
  Statuses = {200, 404, 429, 503}
  CatOrgs = {"acme", "blue"}
  MonitorIds = {"site", "mail"}
  WindowIds = {"upgrade"}
  ServiceIds = {"shop"}
  NoService = "no service"
  Labels = {"DB", "  "}
  MaxEdits = 4
  Authors = {"ann", "bob", "cy"}
  DepSavers = {"save1", "save2", "save3"}
  Parents = {"router", "database"}
  PageIds = {"page1", "page2"}
  Slugs = {"x", "y"}
  Domains = {"none", "d"}
  NoDomain = "none"
  Components = {"web", "api"}
  LinkedComponents = {"web"}
  Emails = {"eve", "fay"}
  Announcements = {"outage"}
  DayTicks = 4
  YearDays = 9
  MonthStarts = {0, 5}
  ReportLimit = 10
  LastSecond = 9
  TLSWarnDays = 14
  ClerkUsers = {"user"}
  ClerkOrgs = {"acme", "blue"}
  NoOrg = "no organization"
  ClerkMaxEvents = 3
  ClerkMaxFaults = 1
  Tolerance = 5
  Skews = {0, 6}
  AccOrgs = {"acme", "blue"}
  BootstrapOrg = "acme"
  Keys = {"key"}
  Agents = {"agent"}
  Requests = {"request1", "request2"}
  UserRoles = {"admin", "member"}
  AccMonitors = {"site"}
  AccRegions = {"east", "west"}
  AgentRegion <- AllEast
  AgentLimit = 1
  Phones = {"phone"}
  MaxRegistrations = 3
INVARIANTS
  VerdictFollowsPings
  LastTokenWorks
  BrowserVerdictsOwn
  WindowLosesNothing
  AuditIsTrue
  MailFollowsChoices
  RecordsAgree
  WindowHours
  RoutingAgrees
  ReportsAgree
  OutcomesAgree
  EventsAccounted
  MirrorAgrees
  EntitlementsHold
PROPERTIES
  CoverageGrows
CHECK_DEADLOCK FALSE
