----------------------------- MODULE MCCrawler -----------------------------
(* Instance of Crawler for TLC. *)
EXTENDS CrawlerContract
=============================================================================
