------------------------------ MODULE MCFeeds ------------------------------
(***************************************************************************)
(* A small instance of Feeds: two subscribers of one feed, two checks side *)
(* by side of which one may hang, and a timer that is due while the lock   *)
(* holds (Interval < Ttl), as with rss.checkIntervalMin below 30.          *)
(***************************************************************************)
EXTENDS Feeds

CONSTANTS ann, bob, news, slow, quick

MCSubscribers == {ann, bob}
MCItems == {news}
MCRuns == {slow, quick}

=============================================================================
