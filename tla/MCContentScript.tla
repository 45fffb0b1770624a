--------------------------- MODULE MCContentScript ---------------------------
(* ContentScript on two sites.  A feed has an element with two addresses, and *)
(* no URL of a token.  A catalogue has pages of tokens, and nothing else on   *)
(* them.  A page that leaves its site is loaded anew, and the script with it. *)
EXTENDS ContentScript
CONSTANTS
  h, a, b,
  Feed,            \* the URLs of the feed
  MaxFeedEvents    \* MaxEvents on the feed

MCCandidates == {<<h, a>>, <<h, b>>}

MCInit == Init /\ (url \in Feed \/ here = {})

\* Only what the page and the user do is restricted, and how often questions fail: the steps
\* that fairness is about never leave the site.
MCNext ==
  /\ Next
  /\ \/ url \in Feed /\ url' \in Feed /\ events' <= MaxFeedEvents
     \/ url \notin Feed /\ url' \notin Feed /\ here' = {}

MCSpec == MCInit /\ [][MCNext]_vars /\ Fairness
=============================================================================
