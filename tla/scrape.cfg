CONSTANTS
  site = site
  page = page
  pdf = pdf
  post = post
  r1 = r1
  r2 = r2
  r3 = r3
  reddit = reddit
  NoRow = NoRow
  Requests = {r1, r2, r3}
  Urls = {page, pdf, post}
  Domains = {site, reddit}
  DomainOf <- MCDomainOf
  KindOf <- MCKindOf
  Jobs <- MCJobs
  MAX_CONCURRENT = 2
  MAX_BROWSERS = 1
  THRESHOLD = 2
  CRAWL4AI_RETRIES = 2
  SELENIUM_RETRIES = 1
  Window = 0
  DaysOld = 0
  MaxTime = 1
SPECIFICATION Spec
CHECK_DEADLOCK FALSE
INVARIANTS
  TypeOK
  PermitsConserved
  BlacklistEarned
PROPERTIES
  EveryScrapeAnswered
