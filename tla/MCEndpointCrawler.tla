-------------------------- MODULE MCEndpointCrawler --------------------------
(* A small site for TLC: pages that refer to each other, two users behind  *)
(* one template, a form, a sitemap that names itself and another, an API   *)
(* document, and a host out of scope.                                      *)
EXTENDS EndpointCrawler, TLC

Html(u) == [url |-> u, method |-> "GET", source |-> "html", documented |-> FALSE]
Form(u) == [url |-> u, method |-> "POST", source |-> "html", documented |-> FALSE]
Listed(u, source) == [url |-> u, method |-> "GET", source |-> source, documented |-> FALSE]
Operation(u) == [url |-> u, method |-> "GET", source |-> "openapi", documented |-> TRUE]
Doc(links, sitemaps) == [links |-> links, sitemaps |-> sitemaps]

Urls == {"/robots", "/sitemap", "/sitemap2", "/openapi", "/", "/user1", "/user2", "/login", "/help", "other"}
InScope == Urls \ {"other"}
Users == [u \in Urls |-> IF u = "/user2" THEN "/user1" ELSE u]
Site == [u \in Urls |->
    CASE u = "/robots" -> Doc(<<Listed("/login", "robots"), Listed("/help", "robots")>>, <<"/sitemap2", "other">>)
      [] u = "/sitemap" -> Doc(<<Listed("/user2", "sitemap")>>, <<"/sitemap">>)
      [] u = "/sitemap2" -> Doc(<<Listed("/", "sitemap")>>, <<"/sitemap">>)
      [] u = "/openapi" -> Doc(<<Operation("/user1"), Operation("other")>>, <<>>)
      [] u = "/" -> Doc(<<Html("/user1"), Html("other"), Form("/login")>>, <<>>)
      [] u = "/user1" -> Doc(<<Html("/user2"), Html("/")>>, <<>>)
      [] u = "/user2" -> Doc(<<Html("/sitemap")>>, <<>>)
      [] OTHER -> Doc(<<>>, <<>>)]
Home == <<"/">>
RobotsTxt == <<"/robots">>
SitemapXml == <<"/sitemap">>
OpenApi == <<"/openapi">>
None == <<>>
=============================================================================
