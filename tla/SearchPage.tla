----------------------------- MODULE SearchPage -----------------------------
(***************************************************************************)
(* The search page people use, with the server behind it: the search form  *)
(* and the fragments swapped into #results (api/templates,                 *)
(* static/kiln-app.js), POST /search (api/web.py), GET /search             *)
(* (api/web_url_state.py), POST /feedback (api/web_feedback.py), and the   *)
(* rows they leave in rag_queries and rag_feedback.                        *)
(*                                                                         *)
(* A response is on its way before get_session commits what the handler    *)
(* wrote, so a card may be voted on before its search is in the database,  *)
(* or when it never will be.  The search form has one request in flight    *)
(* and one in the queue, as htmx does it; the widening forms, which are    *)
(* part of a fragment, send theirs beside it.                              *)
(*                                                                         *)
(* What is typed is left open, so that any search of the form may turn out *)
(* empty or over-long; the filter rail is one bit: whether it names the    *)
(* one repository.  A definition whose name starts with Mut is the         *)
(* definition after it with a plausible bug; the properties are shown to   *)
(* catch it.                                                               *)
(***************************************************************************)
EXTENDS Naturals

CONSTANTS
  Cards,            \* chunks
  StatusOf,         \* the status of a chunk's document
  InRepo,           \* the chunks of the repository the rail can name
  ValidStatuses, DefaultStatuses,
  Unknown,          \* a value of ?status= that is no status
  Widenings,        \* widen_options of _results.html
  MaxSearches,      \* bound of the model
  Unset

ASSUME PageAssumption ==
  /\ StatusOf \in [Cards -> ValidStatuses] /\ InRepo \subseteq Cards
  /\ DefaultStatuses \subseteq ValidStatuses /\ Unknown \notin ValidStatuses
  /\ Widenings \subseteq SUBSET ValidStatuses
  /\ MaxSearches \in Nat
  /\ Unset \notin Cards \cup Nat /\ \A s \in SUBSET ValidStatuses : Unset # s

VARIABLES
  form,     \* ticked statuses and rail; Unset on a page without one
  sent,     \* the request in flight, of each kind of form
  queued,   \* the one that waits for it: "keyup" or "submit"
  shown,    \* the fragment in #results
  vote,     \* a POST /feedback under way
  live,     \* rows of document_chunks
  log,      \* rows of rag_queries, by number of the search
  notes,    \* rows of rag_feedback
  searches  \* searches so far

page == <<form, sent, queued, shown>>
searchpage == <<page, vote, live, log, notes, searches>>

Forms == {"search", "widen"}
Form  == [ticked : SUBSET ValidStatuses, rail : BOOLEAN]
Link  == [rail : BOOLEAN,
          status : {Unset} \cup (SUBSET (ValidStatuses \cup {Unknown}) \ {{}})]

(* asked is the request; row is query_id, and carries and selected are     *)
(* what the template gets as filters and selected_statuses.                *)
Fragment(kind, r, cards, row, carries, selected) ==
  [kind |-> kind, asked |-> r, cards |-> cards, row |-> row,
   carries |-> carries, selected |-> selected]
(* meant is the rail the user had set.                                     *)
Search(ticked, rail, meant, keyup) ==
  [ticked |-> ticked, rail |-> rail, meant |-> meant, keyup |-> keyup]
Notice(kind) == Fragment(kind, Search({}, FALSE, FALSE, FALSE), {}, Unset, FALSE, {})
NoRow == [cards |-> {}, state |-> "absent"]

(* GET /: the shell, with the default statuses ticked.                     *)
PageInit ==
  /\ form = [ticked |-> DefaultStatuses, rail |-> FALSE]
  /\ sent = [f \in Forms |-> Unset] /\ queued = Unset
  /\ shown = Notice("invite")
  /\ vote = Unset /\ live = Cards
  /\ log = [n \in 1..MaxSearches |-> NoRow] /\ notes = {} /\ searches = 0

----------------------------------------------------------------------------
(* From the form to the SELECT.                                            *)

SelectedStatuses(named) == named \cap ValidStatuses

(* marked: the form's own filters came along (_filters_set, or ?status=).  *)
FiltersFromForm(named, marked) ==
  LET selected == SelectedStatuses(IF marked THEN named ELSE DefaultStatuses)
  IN IF selected = {} THEN Unset ELSE selected

(* No statuses, and an empty list of them, are no constraint.              *)
Matching(statuses, rail) ==
  {c \in live : /\ statuses \notin {Unset, {}} => StatusOf[c] \in statuses
                /\ rail => c \in InRepo}

----------------------------------------------------------------------------
(* The browser.                                                            *)

Send(f, r) ==
  sent' = [sent EXCEPT ![f] = [number |-> searches + 1, asks |-> r, status |-> Unset, body |-> Unset]]
OfForm(event) == Search(form.ticked, form.rail, form.rail, event = "keyup")

(* htmx: a form with a request in flight keeps the last of those to come.  *)
Issue(event) ==
  /\ searches < MaxSearches
  /\ IF sent["search"] = Unset
       THEN Send("search", OfForm(event)) /\ searches' = searches + 1 /\ UNCHANGED queued
       ELSE queued' = event /\ UNCHANGED <<sent, searches>>
  /\ UNCHANGED <<form, shown, vote, live, log, notes>>

Tick ==
  /\ form # Unset
  /\ form' \in Form
  /\ UNCHANGED <<sent, queued, shown, vote, live, log, notes, searches>>
(* Typing, once it pauses.                                                 *)
Debounced == form # Unset /\ Issue("keyup")
Submit == form # Unset /\ Issue("submit")

(* The buttons below "No results", with the hidden fields rendered there.  *)
Widen ==
  /\ shown.kind = "nothing" /\ form # Unset
  /\ searches < MaxSearches /\ sent["widen"] = Unset
  /\ \E s \in Widenings :
       /\ ~(s \subseteq shown.selected)
       /\ Send("widen", Search(s, shown.carries, shown.asked.meant, FALSE))
  /\ searches' = searches + 1
  /\ UNCHANGED <<form, queued, shown, vote, live, log, notes>>

(* htmx:beforeSwap lets an error fragment in for these.                    *)
Swapped == {200, 400, 404, 429, 500, 502, 503, 504}

Receive(f) ==
  /\ sent[f] # Unset /\ sent[f].status # Unset
  /\ shown' = IF sent[f].status \in Swapped THEN sent[f].body ELSE shown
  /\ IF f = "search" /\ queued # Unset /\ searches < MaxSearches
       THEN Send(f, OfForm(queued)) /\ searches' = searches + 1
       ELSE sent' = [sent EXCEPT ![f] = Unset] /\ UNCHANGED searches
  /\ queued' = IF f = "search" THEN Unset ELSE queued
  /\ UNCHANGED <<form, vote, live, log, notes>>

----------------------------------------------------------------------------
(* POST /search.                                                           *)

Asking(f) == sent[f] # Unset /\ sent[f].status = Unset
Answer(f, status, body) ==
  /\ sent' = [sent EXCEPT ![f].status = status, ![f].body = body]
  /\ UNCHANGED <<form, queued, shown, vote, live, notes, searches>>

(* The limiter has no token, or the search raises.                         *)
PostFails(f) ==
  /\ Asking(f)
  /\ \/ Answer(f, 429, Notice("error"))
     \/ SelectedStatuses(sent[f].asks.ticked) # {} /\ Answer(f, 503, Notice("error"))
  /\ UNCHANGED log

(* The template's hidden query is neither empty nor too long.              *)
PostBlank ==
  /\ Asking("search")
  /\ Answer("search", 200, Notice("blank"))
  /\ UNCHANGED log
PostOverlong ==
  /\ Asking("search")
  /\ Answer("search", 413, Notice("error"))
  /\ UNCHANGED log

(* Every status unticked: the retriever is not asked, and the template is  *)
(* not given the filters.                                                  *)
PostNothingTicked(f) ==
  /\ Asking(f) /\ SelectedStatuses(sent[f].asks.ticked) = {}
  /\ Answer(f, 200, Fragment("nothing", sent[f].asks, {}, Unset, FALSE, {}))
  /\ UNCHANGED log

(* log_human_query, in a savepoint: a failure costs the widgets only.      *)
Logged(hits) == [cards |-> hits, state |-> "open"]
KindOf(hits) == IF hits = {} THEN "nothing" ELSE "results"

MutPostFound(f) ==
  /\ Asking(f)
  /\ LET r == sent[f].asks
         filter == FiltersFromForm(r.ticked, TRUE)
     IN \E hits \in SUBSET Matching(filter, r.rail), saved \in BOOLEAN :
          LET row == IF r.keyup \/ ~saved THEN Unset ELSE sent[f].number
          IN /\ log' = IF row = Unset THEN log ELSE [log EXCEPT ![row] = Logged(hits)]
             /\ Answer(f, 200, Fragment(KindOf(hits), r, hits, row, r.rail, r.ticked))
PostFound(f) ==
  /\ Asking(f) /\ SelectedStatuses(sent[f].asks.ticked) # {}
  /\ LET r == sent[f].asks
         filter == FiltersFromForm(r.ticked, TRUE)
     IN \E hits \in SUBSET Matching(filter, r.rail), saved \in BOOLEAN :
          LET row == IF r.keyup \/ ~saved THEN Unset ELSE sent[f].number
          IN /\ log' = IF row = Unset THEN log ELSE [log EXCEPT ![row] = Logged(hits)]
             /\ Answer(f, 200, Fragment(KindOf(hits), r, hits, row, r.rail, filter))

(* The exit of get_session, after the response.                            *)
EndSearch(n) ==
  /\ log[n].state = "open"
  /\ \E end \in {"kept", "lost"} : log' = [log EXCEPT ![n].state = end]
  /\ UNCHANGED <<page, vote, live, notes, searches>>

----------------------------------------------------------------------------
(* GET /search: a link, a reload, or the form without JavaScript.  The     *)
(* answer is a whole page; what the old one had in flight is not waited    *)
(* for, and whatever the server still does with it no page will show.      *)

Turn(newform, body) ==
  /\ searches < MaxSearches /\ searches' = searches + 1
  /\ form' = newform /\ shown' = body
  /\ sent' = [f \in Forms |-> Unset] /\ queued' = Unset
  /\ UNCHANGED <<vote, live, log, notes>>

Marked(l) == l.status # Unset
Selection(l) == IF Marked(l) THEN SelectedStatuses(l.status) ELSE DefaultStatuses
FormOf(l) == [ticked |-> Selection(l), rail |-> l.rail]
AskOf(l) == Search(Selection(l), l.rail, l.rail, FALSE)

(* The limiter, an over-long query, or the search.                         *)
GetFails == Turn(Unset, Notice("error"))
GetBlank(l) == Turn(FormOf(l), Notice("invite"))
GetNothingTicked(l) ==
  /\ Selection(l) = {}
  /\ Turn(FormOf(l), Fragment("nothing", AskOf(l), {}, Unset, l.rail, {}))
GetFound(l) ==
  /\ Selection(l) # {}
  /\ LET filter == FiltersFromForm(l.status, Marked(l)) IN
     \E hits \in SUBSET Matching(filter, l.rail) :
       Turn(FormOf(l), Fragment(KindOf(hits), AskOf(l), hits, Unset, l.rail, filter))

----------------------------------------------------------------------------
(* POST /feedback, and a re-ingestion in between.                          *)

(* A card has its widget when the search has its row.                      *)
Vote ==
  /\ vote = Unset /\ shown.row # Unset
  /\ \E c \in shown.cards : vote' = [row |-> shown.row, card |-> c, state |-> "sent"]
  /\ UNCHANGED <<page, live, log, notes, searches>>

(* The limiter, the form checks or the database refuse it.                 *)
RefuseVote ==
  /\ vote # Unset /\ vote.state = "sent"
  /\ vote' = Unset
  /\ UNCHANGED <<page, live, log, notes, searches>>

(* The foreign keys see what is committed.                                 *)
MutKeysHold == vote.card \in live
KeysHold == log[vote.row].state = "kept" /\ vote.card \in live
InsertVote ==
  /\ vote # Unset /\ vote.state = "sent" /\ KeysHold
  /\ vote' = [vote EXCEPT !.state = "noted"]
  /\ UNCHANGED <<page, live, log, notes, searches>>
EndVote ==
  /\ vote # Unset /\ vote.state = "noted"
  /\ \E kept \in BOOLEAN :
       notes' = IF kept THEN notes \cup {[row |-> vote.row, card |-> vote.card]} ELSE notes
  /\ vote' = Unset
  /\ UNCHANGED <<page, live, log, searches>>

(* ON DELETE SET NULL; the insert above locks the chunk it names.          *)
Reingest ==
  /\ \E c \in live :
       /\ ~(vote # Unset /\ vote.state = "noted" /\ vote.card = c)
       /\ live' = live \ {c}
       /\ notes' = {[v EXCEPT !.card = IF v.card = c THEN Unset ELSE v.card] : v \in notes}
  /\ UNCHANGED <<page, vote, log, searches>>

PageNext ==
  \/ Tick \/ Debounced \/ Submit \/ Widen
  \/ \E f \in Forms :
       Receive(f) \/ PostFails(f) \/ PostNothingTicked(f) \/ PostFound(f)
  \/ PostBlank \/ PostOverlong \/ GetFails
  \/ \E n \in 1..MaxSearches : EndSearch(n)
  \/ \E l \in Link : GetBlank(l) \/ GetNothingTicked(l) \/ GetFound(l)
  \/ Vote \/ RefuseVote \/ InsertVote \/ EndVote \/ Reingest
PageSpec == PageInit /\ [][PageNext]_searchpage

----------------------------------------------------------------------------
(* Properties.                                                             *)

(* What is on the page has a status the search was asked for, and is from  *)
(* the repository it was limited to; a search for no status shows nothing, *)
(* although to the SELECT an empty list is no constraint.                  *)
OnlyWhatWasAsked ==
  \A c \in shown.cards :
    StatusOf[c] \in shown.asked.ticked /\ (shown.asked.rail => c \in InRepo)

(* A recorded vote is about a search that is on record, and about a chunk  *)
(* which that search found and which still exists, or no longer about any: *)
(* whichever of the search's commit, the vote and a re-ingestion came      *)
(* first, or failed.                                                       *)
FeedbackIsAboutItsSearch ==
  \A v \in notes :
    /\ log[v.row].state = "kept"
    /\ v.card # Unset => v.card \in live \cap log[v.row].cards

(* _results.html, of the widening buttons: "preserve the rest of the       *)
(* filter rail so widening status doesn't silently drop repo / owner /     *)
(* tags / etc. constraints the user set up".                               *)
WideningKeepsTheRail ==
  shown.asked.meant => shown.cards \subseteq InRepo

=============================================================================
