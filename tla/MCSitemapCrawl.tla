--------------------------- MODULE MCSitemapCrawl ---------------------------
(* Instances of SitemapCrawl for TLC. *)
EXTENDS SitemapCrawl

CONSTANTS root, blog, guide, u1, u2, u3, u4, u5

\* No index, one URL twice.
MCFlat ==
    [nested |-> [s \in Sitemaps |-> <<>>],
     listed |-> [s \in Sitemaps |-> IF s = root THEN <<u1, u2, u5, u1>> ELSE <<>>]]

\* An index of an index and a list.
MCNested ==
    [nested |-> [s \in Sitemaps |-> CASE s = root -> <<blog, guide>>
                                       [] OTHER -> <<>>],
     listed |-> [s \in Sitemaps |-> CASE s = blog -> <<u1, u5, u4>>
                                       [] s = guide -> <<u3, u2>>
                                       [] OTHER -> <<>>]]

\* A list and an index that names its parent.
MCCircle ==
    [nested |-> [s \in Sitemaps |-> CASE s = root -> <<guide, blog>>
                                       [] s = blog -> <<root>>
                                       [] OTHER -> <<>>],
     listed |-> [s \in Sitemaps |-> IF s = guide THEN <<u1>> ELSE <<>>]]

\* Nothing the patterns leave.
MCForeign ==
    [nested |-> [s \in Sitemaps |-> <<>>],
     listed |-> [s \in Sitemaps |-> IF s = root THEN <<u5>> ELSE <<>>]]

MCSites == {MCFlat, MCNested, MCCircle, MCForeign}

=============================================================================
