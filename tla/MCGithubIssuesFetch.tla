------------------------- MODULE MCGithubIssuesFetch -------------------------
(* Instances of GithubIssuesFetch for TLC. *)
EXTENDS GithubIssuesFetch, TLC

CONSTANTS i1, i2, i3, i4, pr

\* Three issues with comments (one has two pages of them), a pull request, an
\* issue without comments on the second page, and an empty third page.
MCPages == <<{i1, i2, i3, pr}, {i4}, {}>>
MCCommentPages == (i1 :> 2) @@ (i2 :> 1) @@ (i3 :> 1) @@ (i4 :> 0) @@ (pr :> 1)

=============================================================================
