----------------------------- MODULE MCCrawlRun -----------------------------
(* Instances of CrawlRun for TLC: two or three requests, a link, a redirect. *)
EXTENDS CrawlRun

CONSTANTS a, b, c

MCRequests == {a, b, c}
TwoRequests == {a, b}

\* a links to b, and a fetch of a may also end at b: the target of a redirect can
\* be absent, pending, in flight, failed or done when the redirect is delivered.
MCLinks == [u \in Requests |-> IF u = a THEN {b} ELSE {}]
MCRedirects == [u \in Requests |-> IF u = a THEN {b} ELSE {}]

\* a and b share a host.
MCScopeOf == [u \in Requests |-> IF u = c THEN 2 ELSE 1]
=============================================================================
