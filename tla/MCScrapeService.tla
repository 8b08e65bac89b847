-------------------------- MODULE MCScrapeService --------------------------
(* Instances of ScrapeService: a site with a page and a PDF, and Reddit.    *)
EXTENDS ScrapeService

CONSTANTS site, reddit, page, pdf, post, r1, r2, r3

MCDomainOf == [u \in Urls |-> IF u = post THEN reddit ELSE site]
MCKindOf ==
  [u \in Urls |-> CASE u = pdf -> "pdf" [] u = post -> "reddit" [] OTHER -> "page"]
\* Two requests for the page beside a third of any kind.
MCJobs ==
  [r \in Requests |->
     IF r = r3 THEN [url : Urls, force : {"none"}] \cup {[url |-> page, force |-> "crawl4ai"]}
               ELSE {[url |-> page, force |-> "none"]}]
=============================================================================
