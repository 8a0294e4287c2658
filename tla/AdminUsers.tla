----------------------------- MODULE AdminUsers -----------------------------
(***************************************************************************)
(* The users table of the admin dashboard: pages of the users who have     *)
(* voted, in the order of their ids, each page completed with what the     *)
(* identity provider says of its users.  Composed with MachineToken, whose *)
(* calls are the pages being made, one per tab.                            *)
(***************************************************************************)
EXTENDS MachineToken, FiniteSets

CONSTANTS
  User,            \* users.id, version 7: the order of creation
  InitialVoters,   \* those with a vote at the start
  Sizes            \* values of the size parameter, 50 where it is absent

ASSUME UsersAssumption ==
  /\ User \subseteq Nat \ {0} /\ IsFiniteSet(User)
  /\ InitialVoters \subseteq User
  /\ Sizes \subseteq Nat \ {0}

VARIABLES
  voters,    \* users with a row in votes
  table      \* [Fetch -> the table of users in a tab]

vars == <<tokenVars, voters, table>>

(* A table: the cursor, the page being made, the users shown, and, for the *)
(* properties, the voters there were when it was opened.                   *)
NoTable == [pc |-> "closed", size |-> 0, cursor |-> 0, page |-> {}, shown |-> {}, from |-> {}]

Init == TokenInit /\ voters = InitialVoters /\ table = [r \in Fetch |-> NoTable]

(* ListUsersWithVotes: the first size users beyond the cursor that join    *)
(* with a vote.  uuid.Nil, before every id, is the cursor of the first page. *)
IsPage(page, cursor, size) ==
  LET beyond == {u \in voters : u > cursor}
  IN  /\ page \subseteq beyond
      /\ Cardinality(page) = IF Cardinality(beyond) < size THEN Cardinality(beyond) ELSE size
      /\ \A u \in page, v \in beyond \ page : u < v

(* GetUsersPaginated: a page without users ends the table and asks nobody; *)
(* any other needs the authorizations of its users.                        *)
GetUsersPaginated(r, t) ==
  \E page \in SUBSET voters :
    /\ IsPage(page, t.cursor, t.size)
    /\ table' = [table EXCEPT ![r] =
                   [t EXCEPT !.page = page, !.pc = IF page = {} THEN "ended" ELSE "asking"]]
    /\ IF page = {} THEN UNCHANGED tokenVars ELSE Ask(r)
    /\ UNCHANGED voters

OpenTable(r, size) ==
  /\ table[r].pc # "asking"
  /\ GetUsersPaginated(r, [NoTable EXCEPT !.size = size, !.from = voters])

(* The sentinel row scrolls into view. *)
ScrollOn(r) == table[r].pc = "scrolling" /\ GetUsersPaginated(r, table[r])

(* The last user of the page becomes the cursor of the next one. *)
PageShown(r) ==
  /\ call[r].pc = "done" /\ Taken(r)
  /\ \E last \in table[r].page :
       /\ \A u \in table[r].page : u <= last
       /\ table' = [table EXCEPT ![r] =
            [table[r] EXCEPT !.pc = "scrolling", !.cursor = last, !.page = {},
                             !.shown = @ \cup table[r].page]]
  /\ UNCHANGED voters

PageLostSkipping(r) ==
  /\ call[r].pc = "failed" /\ Taken(r)
  /\ \E last \in table[r].page :
       /\ \A u \in table[r].page : u <= last
       /\ table' = [table EXCEPT ![r] = [table[r] EXCEPT !.pc = "scrolling", !.cursor = last, !.page = {}]]
  /\ UNCHANGED voters

(* One failure of the provider and the whole page is a 500: the rows stay  *)
(* unshown and the sentinel, once revealed, does not ask again.            *)
PageLost(r) ==
  /\ call[r].pc = "failed" /\ Taken(r)
  /\ table' = [table EXCEPT ![r].pc = "broken", ![r].page = {}]
  /\ UNCHANGED voters

(* A user votes for the first time. *)
FirstVote(u) ==
  /\ u \notin voters
  /\ voters' = voters \cup {u}
  /\ UNCHANGED <<tokenVars, table>>

Next ==
  \/ \E r \in Fetch, size \in Sizes : OpenTable(r, size)
  \/ \E r \in Fetch : ScrollOn(r) \/ PageShown(r) \/ PageLost(r)
  \/ \E r \in Fetch : Step(r) /\ UNCHANGED <<voters, table>>
  \/ Tick /\ UNCHANGED <<voters, table>>
  \/ \E u \in User : FirstVote(u)

Spec == Init /\ [][Next]_vars

(***************************************************************************)
(* sync.Mutex starves nobody, so a call that waits for the token gets its  *)
(* turn; the provider, or the end of the client's patience, answers every  *)
(* request; and the handler goes on when it is answered.                   *)
(***************************************************************************)
Fairness ==
  \A r \in Fetch : /\ SF_vars(Step(r) /\ UNCHANGED <<voters, table>>)
                   /\ WF_vars(PageShown(r) \/ PageLost(r))

FairSpec == Spec /\ Fairness

-----------------------------------------------------------------------------
Table == [pc : {"closed", "asking", "scrolling", "ended", "broken"}, size : Nat, cursor : Nat,
          page : SUBSET User, shown : SUBSET User, from : SUBSET User]

(* Type invariant. *)
TypeOK ==
  /\ TokenTypeOK
  /\ voters \subseteq User
  /\ table \in [Fetch -> Table]

(* A table read to its end has shown every user who had voted when it was  *)
(* opened, whoever voted for the first time meanwhile and whatever pages   *)
(* failed; and no page repeats a user.                                     *)
EveryVoterListed ==
  \A r \in Fetch : /\ table[r].pc = "ended" => table[r].from \subseteq table[r].shown
                   /\ table[r].page \cap table[r].shown = {}

(* No page waits for ever, for the mutex or for the provider: a renewal    *)
(* that fails leaves the next caller free to try.                          *)
PagesAnswered == \A r \in Fetch : table[r].pc = "asking" ~> table[r].pc # "asking"
=============================================================================
