-------------------------------- MODULE Pages --------------------------------
(***************************************************************************)
(* The pages that list what Podman has and change it: VolumesPage.tsx,     *)
(* NetworksPage.tsx, ImagesPage.tsx and ContainersPage.tsx over the hooks  *)
(* in hooks/ and the query library they use.                               *)
(*                                                                         *)
(* A page shows the last list that was fetched.  Lists are fetched by a    *)
(* timer, by the Refresh button and after calls that succeed.  One fetch is*)
(* under way at most: starting it anew drops the other, whose answer then  *)
(* counts for nothing - except while the page has no list at all, when the *)
(* library goes on waiting for the fetch that is under way.                *)
(*                                                                         *)
(* The states of the server are numbered, and a list is the number of the  *)
(* state it was made from: which objects are in it is left open, so a row  *)
(* may be there for any of them and a call on it may fail.  What is typed  *)
(* into a dialog is chosen when it is sent.                                *)
(***************************************************************************)
EXTENDS Naturals

CONSTANTS
  Item,       \* names of volumes, networks, images or containers
  MaxMuts,    \* bound on the calls under way at once
  MaxPresses, \* bound, for each page, on clicks that open a dialog, refresh or call the server
  MaxChanges, \* bound, for each page, on the changes made by others
  Unloaded,   \* stands for the list before the first one has come
  Shut,       \* stands for the target of a dialog that is not open
  Blank       \* stands for the target of a dialog that is about no row

VARIABLES
  page,     \* the page that was opened
  mounted,  \* it is still shown
  ver,      \* the server: number of changes so far
  data,     \* the list shown, or Unloaded
  fetch,    \* the fetch that counts
  muts,     \* the calls under way
  open,     \* the target of each dialog
  presses,  \* bound: presses left
  changes   \* bound: changes by others left

pagesVars == <<page, mounted, ver, data, fetch, muts, open, presses, changes>>

Dialog   == {"create", "delete", "import", "connect", "disconnect", "compose", "convert"}
Mutation == 1 .. MaxMuts

\* The calls of each page, with the dialogs that are closed when one has succeeded.
VolumesCalls ==
  [create |-> {"create"}, remove |-> {"delete"}, import |-> {"import"},
   export |-> {}, prune |-> {}]

NetworksCalls ==
  [create |-> {"create"}, remove |-> {"delete"}, connect |-> {"connect"},
   disconnect |-> {"disconnect"}, prune |-> {}]

ImagesCalls == [pull |-> {"create"}, update |-> {}, remove |-> {"delete"}]

ContainersCalls ==
  [act |-> {}, remove |-> {}, autostart |-> {}, terminal |-> {}, convert |-> {},
   compose |-> {"compose"}, apply |-> {"create"}, applyAll |-> {"convert"}]

Calls ==
  [volumes |-> VolumesCalls, networks |-> NetworksCalls, images |-> ImagesCalls,
   containers |-> ContainersCalls]

Page == DOMAIN Calls
MutKind == UNION {DOMAIN Calls[p] : p \in Page}

ASSUME PagesAssumption ==
  /\ Shut \notin Item \cup {Blank} /\ Blank \notin Item /\ Unloaded \notin Nat
  /\ MaxMuts \in Nat /\ MaxPresses \in [Page -> Nat] /\ MaxChanges \in [Page -> Nat]

\* The hooks whose success has the page's list fetched again and waits for it.  Importing a
\* volume and switching autostart are not among them.
VolumeHooks    == {"create", "remove", "prune"}
NetworkHooks   == {"create", "remove", "connect", "disconnect", "prune"}
ImageHooks     == {"pull", "update", "remove"}
ContainerHooks == {"act", "remove"}

Invalidates ==
  [volumes |-> VolumeHooks, networks |-> NetworkHooks, images |-> ImageHooks,
   containers |-> ContainerHooks]

\* A fetch: none, asked, or served with a list or an error.
Fetch(phase, list, ok) == [phase |-> phase, list |-> list, ok |-> ok]
NoFetch  == Fetch("none", Unloaded, FALSE)
NewFetch == Fetch("asked", Unloaded, FALSE)

\* A call: its kind and object, how far it is, whether it succeeded, the state of the server
\* it made, and whether the fetch it waits for was asked for before or brings no list.
Mut(kind, item) ==
  [kind |-> kind, item |-> item, phase |-> "asked", ok |-> FALSE, since |-> 0, stale |-> FALSE]
Idle == Mut("none", Shut)

PagesTypeOK ==
  /\ page \in Page /\ mounted \in BOOLEAN
  /\ ver \in Nat
  /\ data \in Nat \cup {Unloaded}
  /\ fetch \in [phase : {"none", "asked", "served"}, list : Nat \cup {Unloaded}, ok : BOOLEAN]
  /\ muts \in [Mutation -> [kind : MutKind \cup {"none"}, item : Item \cup {Shut, Blank},
                            phase : {"asked", "served", "refetching", "settled"},
                            ok : BOOLEAN, since : Nat, stale : BOOLEAN]]
  /\ open \in [Dialog -> Item \cup {Shut, Blank}]

\* The list may be left from an earlier visit; the page fetches it in any case.
PagesInit ==
  /\ page \in Page /\ mounted = TRUE
  /\ ver = 0 /\ data \in {Unloaded, 0}
  /\ fetch = NewFetch
  /\ muts = [m \in Mutation |-> Idle]
  /\ open = [d \in Dialog |-> Shut]
  /\ presses = MaxPresses[page] /\ changes = MaxChanges[page]

-----------------------------------------------------------------------------
(* The query library.                                                      *)

\* Only the first fetch is not dropped for a new one.
FirstLoad == fetch.phase # "none" /\ data = Unloaded

Refetching_Join == IF fetch.phase # "none" THEN fetch ELSE NewFetch

Refetching == IF FirstLoad THEN fetch ELSE NewFetch

\* The timer, or the window that gets the focus back; not while a fetch is under way.
Interval ==
  /\ mounted /\ fetch.phase = "none"
  /\ fetch' = NewFetch
  /\ UNCHANGED <<page, mounted, ver, data, muts, open, presses, changes>>

FetchServe ==
  /\ fetch.phase = "asked"
  /\ \/ fetch' = Fetch("served", ver, TRUE)
     \/ fetch' = Fetch("served", Unloaded, FALSE)
  /\ UNCHANGED <<page, mounted, ver, data, muts, open, presses, changes>>

\* The calls that wait for the list go on, also when it could not be fetched.
FetchAnswer ==
  /\ fetch.phase = "served"
  /\ fetch' = NoFetch
  /\ data' = IF fetch.ok THEN fetch.list ELSE data
  /\ muts' = [m \in Mutation |->
                IF muts[m].phase # "refetching" THEN muts[m]
                ELSE [muts[m] EXCEPT !.phase = "settled",
                                     !.stale = muts[m].stale \/ ~fetch.ok]]
  /\ UNCHANGED <<page, mounted, ver, open, presses, changes>>

-----------------------------------------------------------------------------
(* The server.                                                             *)

\* A call gets on.
Becomes(m, phase, ok, since, stale) ==
  muts' = [muts EXCEPT ![m] =
             [kind |-> muts[m].kind, item |-> muts[m].item, phase |-> phase, ok |-> ok,
              since |-> since, stale |-> stale]]

\* The calls that change what a list shows.  What a pull brings comes later, as a change by
\* others.
Changing == {"create", "remove", "prune", "import", "connect", "disconnect", "act", "autostart",
             "apply", "applyAll"}

\* A call that fails may have done a part: files are applied one after the other.
MutServe(m) ==
  /\ muts[m].kind # "none" /\ muts[m].phase = "asked"
  /\ \E ok \in BOOLEAN, changed \in BOOLEAN :
       /\ changed => muts[m].kind \in Changing /\ (ok \/ muts[m].kind = "applyAll")
       /\ ver' = IF changed THEN ver + 1 ELSE ver
       /\ Becomes(m, "served", ok, ver', FALSE)
  /\ UNCHANGED <<page, mounted, data, fetch, open, presses, changes>>

\* Other browsers, systemd, pulls that are done.
Others ==
  /\ changes > 0 /\ changes' = changes - 1
  /\ ver' = ver + 1
  /\ UNCHANGED <<page, mounted, data, fetch, muts, open, presses>>

-----------------------------------------------------------------------------
(* The calls of a page.                                                    *)

Vacant(m) == muts[m].kind = "none" /\ \A o \in 1 .. m - 1 : muts[o].kind # "none"

Pending(kinds) == \E m \in Mutation : muts[m].kind \in kinds

Press == presses > 0 /\ presses' = presses - 1

Start(kind, item) ==
  /\ Press
  /\ \E m \in Mutation : Vacant(m) /\ muts' = [muts EXCEPT ![m] = Mut(kind, item)]
  /\ UNCHANGED <<page, mounted, ver, data, fetch, changes>>

Ask(kind, item) == Start(kind, item) /\ UNCHANGED open

\* onSuccess returns the promise of the fetch it starts, so the call ends when that does.
MutAnswer(m) ==
  /\ muts[m].phase = "served"
  /\ IF muts[m].ok /\ mounted /\ muts[m].kind \in Invalidates[page]
     THEN /\ fetch' = Refetching
          /\ Becomes(m, "refetching", TRUE, muts[m].since, FirstLoad)
     ELSE /\ Becomes(m, "settled", muts[m].ok, muts[m].since, FALSE)
          /\ UNCHANGED fetch
  /\ UNCHANGED <<page, mounted, ver, data, open, presses, changes>>

\* The rest of the handler.  After a success it closes its dialog, even when that was opened
\* anew in the meantime; a conversion opens its preview, an exec session leaves the page.
MutSettle(m) ==
  LET kind == muts[m].kind
      succeeded == muts[m].ok /\ mounted
  IN
  /\ muts[m].phase = "settled"
  /\ muts' = [muts EXCEPT ![m] = Idle]
  /\ open' = [d \in Dialog |->
                IF ~succeeded THEN open[d]
                ELSE IF d \in Calls[page][kind] THEN Shut
                ELSE IF d = "convert" /\ kind = "convert" THEN muts[m].item
                ELSE open[d]]
  /\ fetch' = IF succeeded /\ kind \in {"apply", "applyAll"} THEN Refetching ELSE fetch
  /\ mounted' = (mounted /\ ~(succeeded /\ kind = "terminal"))
  /\ UNCHANGED <<page, ver, data, presses, changes>>

-----------------------------------------------------------------------------
(* What can be clicked.  A dialog covers the header and the rows.          *)

Covered == \E d \in Dialog : open[d] # Shut

Rows == IF Covered \/ data = Unloaded THEN {} ELSE Item

Show(d, t) ==
  /\ Press
  /\ open' = [open EXCEPT ![d] = t]
  /\ UNCHANGED <<page, mounted, ver, data, fetch, muts, changes>>

IsOpen(d) == open[d] # Shut

Cancel(d) ==
  /\ open' = [open EXCEPT ![d] = Shut]
  /\ UNCHANGED <<page, mounted, ver, data, fetch, muts, presses, changes>>

Refresh ==
  /\ Press
  /\ fetch' = Refetching
  /\ UNCHANGED <<page, mounted, ver, data, muts, open, changes>>

PruneButton == ~Pending({"prune"}) /\ Ask("prune", Shut)

DeleteDialog ==
  IsOpen("delete") /\ (Cancel("delete") \/ Ask("remove", open["delete"]))

VolumesTable ==
  \/ ~Covered /\ (PruneButton \/ Show("create", Blank) \/ Refresh)
  \/ \E i \in Rows : (Ask("export", i) \/ Show("import", i) \/ Show("delete", i))

VolumesCreate ==
  IsOpen("create") /\ (\/ Cancel("create")
                       \/ ~Pending({"create"}) /\ \E i \in Item : Ask("create", i))

VolumesImport ==
  IsOpen("import") /\ (Cancel("import") \/ Ask("import", open["import"]))

VolumesPage == VolumesTable \/ VolumesCreate \/ VolumesImport \/ DeleteDialog

NetworksTable ==
  \/ ~Covered /\ (PruneButton \/ Show("create", Blank) \/ Refresh)
  \/ \E i \in Rows : Show("connect", i) \/ Show("disconnect", i) \/ Show("delete", i)

NetworksCreate ==
  IsOpen("create") /\ (\/ Cancel("create")
                       \/ ~Pending({"create"}) /\ \E i \in Item : Ask("create", i))

NetworksConnect ==
  IsOpen("connect") /\ (\/ Cancel("connect")
                        \/ ~Pending({"connect"}) /\ Ask("connect", open["connect"]))

NetworksDisconnect ==
  IsOpen("disconnect") /\ (Cancel("disconnect") \/ Ask("disconnect", open["disconnect"]))

NetworksPage ==
  NetworksTable \/ NetworksCreate \/ NetworksConnect \/ NetworksDisconnect \/ DeleteDialog

\* Pulling and updating share a hook, and with it the state of their buttons.
PullPending == Pending({"pull", "update"})

ImagesTable ==
  \/ ~Covered /\ (Show("create", Blank) \/ Refresh)
  \/ \E i \in Rows : (Show("delete", i) \/ (~PullPending /\ Ask("update", i)))

ImagesPull ==
  IsOpen("create") /\ (\/ Cancel("create")
                       \/ ~PullPending /\ \E i \in Item : Ask("pull", i))

ImagesPage == ImagesTable \/ ImagesPull \/ DeleteDialog

ContainersHeader ==
  ~Covered /\ (Refresh \/ Show("compose", Blank) \/ Show("create", Blank))

\* A filter may hide a row; the buttons of a row depend on its state in the list.
ContainersRow ==
  \E i \in Rows : (Show("delete", i)
                             \/ \E k \in {"act", "autostart", "terminal", "convert"} : Ask(k, i))

\* The dialog is closed as soon as the removal is asked for.
ContainersDelete ==
  IsOpen("delete") /\ (\/ Cancel("delete")
                       \/ Start("remove", open["delete"]) /\ open' = [open EXCEPT !["delete"] = Shut])

CreateContainerDialog ==
  IsOpen("create") /\ (\/ Cancel("create")
                       \/ ~Pending({"apply"}) /\ \E i \in Item : Ask("apply", i))

ImportComposeDialog ==
  IsOpen("compose") /\ (\/ Cancel("compose")
                        \/ ~Pending({"compose"}) /\ Ask("compose", Shut))

ConvertPreviewDialog ==
  IsOpen("convert") /\ (\/ Cancel("convert")
                        \/ ~Pending({"applyAll"}) /\ Ask("applyAll", Shut))

ContainersPage ==
  \/ ContainersHeader \/ ContainersRow \/ ContainersDelete
  \/ CreateContainerDialog \/ ImportComposeDialog \/ ConvertPreviewDialog

Clicks ==
  /\ mounted
  /\ \/ page = "volumes" /\ VolumesPage
     \/ page = "networks" /\ NetworksPage
     \/ page = "images" /\ ImagesPage
     \/ page = "containers" /\ ContainersPage

\* The user goes elsewhere, or an answer says that the session has ended.
Leave ==
  /\ mounted /\ mounted' = FALSE
  /\ UNCHANGED <<page, ver, data, fetch, muts, open, presses, changes>>

PagesNext ==
  \/ Clicks \/ Leave \/ Others \/ Interval \/ FetchServe \/ FetchAnswer
  \/ \E m \in Mutation : MutServe(m) \/ MutAnswer(m) \/ MutSettle(m)

PagesSpec == PagesInit /\ [][PagesNext]_pagesVars

-----------------------------------------------------------------------------
(* What has to hold.                                                       *)

\* The page that is shown goes on to say that a call has succeeded, and the call's hook has the
\* list fetched again.
Announced(c) == mounted /\ c.phase = "settled" /\ c.ok /\ c.kind \in Invalidates[page]

\* When the page says that such a call has succeeded, the list it shows was made after the call
\* was done (hooks/: onSuccess returns the promise of the fetch) - unless the first list was
\* still under way, or the new one could not be fetched.  It says nothing of the calls whose
\* hooks do not fetch this list: an import, autostart, compose, the conversion, and the dialogs
\* that apply files, which say so first and fetch after.
DoneIsShown ==
  \A m \in Mutation :
    Announced(muts[m]) /\ ~muts[m].stale => data # Unloaded /\ data >= muts[m].since

-----------------------------------------------------------------------------
(* What it rests on.                                                       *)

\* Nothing is newer than the server, and no list that counts is older than the one shown.
ListInv ==
  /\ data # Unloaded => data <= ver
  /\ fetch.ok => /\ fetch.phase = "served" /\ fetch.list \in Nat /\ fetch.list <= ver
                 /\ data # Unloaded => data <= fetch.list
  /\ \A m \in Mutation : muts[m].since <= ver

\* The fetch that a call waits for began after the call was done.
RefetchInv ==
  \A m \in Mutation :
    muts[m].phase = "refetching" /\ ~muts[m].stale =>
      fetch.phase # "none" /\ (fetch.ok => fetch.list >= muts[m].since)

PagesInv == PagesTypeOK /\ DoneIsShown /\ ListInv /\ RefetchInv
=============================================================================
