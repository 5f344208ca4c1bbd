SPECIFICATION FairSpec
CONSTANTS
  Url <- Urls
  Scope <- InScope
  Template <- Users
  Content <- Site
  Seeds <- Home
  Robots <- RobotsTxt
  Sitemaps <- SitemapXml
  ApiDocs <- OpenApi
  MaxDepth = 2
  MaxPages = 7
  MaxEndpoints = 7
  MaxConcurrency = 2
  MaxSitemaps = 2
  MaxSitemapURLs = 2
  Faults = {"fail", "status", "cancel"}
INVARIANTS LinksWithinBudget EndpointsMerged CrawlComplete
PROPERTIES CrawlEnds
CHECK_DEADLOCK FALSE
