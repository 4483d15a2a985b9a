------------------------------- MODULE MCMenu ----------------------------------
(***************************************************************************)
(* Menu.tla with one command of each kind: an answer of a type of its own, *)
(* an acknowledgment or an error, an answer that is a notification, and a  *)
(* command of several requests.                                            *)
(***************************************************************************)
EXTENDS Menu

\* Once a thread has read parts of the message of another one, anything can come
\* of it: the behaviour is not followed further.
WholeMessages == ~torn

\* Either there are challenges, and this player makes two requests, or there are
\* none and it watches a game, where it makes two more.
FewAtATime ==
  /\ sent > 2 => at \notin Commands
  /\ sent > 2 \/ others.notices > 0 \/ at = "list_games" => others.challenges = 0 /\ ~asked
=============================================================================
