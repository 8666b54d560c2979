------------------------------- MODULE Browser -------------------------------
(***************************************************************************)
(* One visit to one page: the router shows the page of files or one of the *)
(* pages of lists.  A page's state lives as long as it is mounted, so a    *)
(* visit begins with nothing but the query library's cache.                *)
(***************************************************************************)
EXTENDS Editor, Pages

VARIABLE route   \* "files", or "lists" for one of the other pages

vars == <<route, editorVars, pagesVars>>

Route == {"files", "lists"}

\* The page that is not shown is left as a page that was never opened.
Init ==
  /\ route \in Route
  /\ EditorInit /\ PagesInit
  /\ route = "files" => page = "volumes" /\ data = Unloaded
  /\ route = "lists" => \A f \in File : files[f] = Absent

Next ==
  \/ route = "files" /\ EditorNext /\ UNCHANGED <<route, pagesVars>>
  \/ route = "lists" /\ PagesNext /\ UNCHANGED <<route, editorVars>>

\* The server answers every call, and the browser runs the handler of every answer.  An answer
\* to a fetch is dropped when the fetch is started anew; it is enough that not all of them are.
OnFiles(A) == route = "files" /\ A /\ UNCHANGED <<route, pagesVars>>
OnLists(A) == route = "lists" /\ A /\ UNCHANGED <<route, editorVars>>

Fairness ==
  /\ \A s \in Slot : WF_vars(OnFiles(Serve(s) \/ Answer(s)))
  /\ WF_vars(OnLists(FetchServe)) /\ SF_vars(OnLists(FetchAnswer))
  /\ \A m \in Mutation : WF_vars(OnLists(MutServe(m) \/ MutAnswer(m) \/ MutSettle(m)))

Spec == Init /\ [][Next]_vars /\ Fairness

\* No button stays disabled for ever: neither Save and Apply of the edit dialog, nor the
\* buttons that wait for a call of their page.
ButtonsComeBack ==
  /\ saving ~> (~saving \/ file = Closed)
  /\ \A m \in Mutation : muts[m].kind # "none" ~> muts[m].kind = "none"

\* The invariants of both pages.
IInv == EditorInv /\ ShapeInv /\ PagesInv
=============================================================================
