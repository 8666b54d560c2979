-------------------------------- MODULE Editor --------------------------------
(***************************************************************************)
(* The page of Quadlet files and the dialog that edits one of them, as a   *)
(* form or as text: FilesPage.tsx, FileEditDialog.tsx.                     *)
(*                                                                         *)
(* Nothing is cancelled: an answer that comes late still runs the rest of  *)
(* its handler.  What the dialog component does then reaches only the      *)
(* mount that asked, what the page does reaches whatever dialog is open.   *)
(* The dialog has no key, so the page can hand another file name to an open*)
(* one: its content and its form stay until the new file is loaded.        *)
(*                                                                         *)
(* The lists of files and units are not kept: the table may show any file  *)
(* that ever existed, and a file's unit may be listed or not.              *)
(***************************************************************************)
EXTENDS Wizard

CONSTANTS
  File,      \* names of files
  MaxCalls,  \* bound on the calls under way at once
  Stored,    \* texts a file may have when the page is opened
  Typed,     \* texts that may be typed into the text editor
  Closed,    \* stands for the file of a dialog that is not open
  Absent,    \* stands for the text of a file that does not exist
  NoForm,    \* stands for the form before the file is loaded
  Budgets    \* bounds <<clicks that open a dialog or call the server, edits>>

ASSUME EditorAssumption ==
  Closed \notin File /\ MaxCalls \in Nat \ {0} /\ Budgets \subseteq Nat \X Nat

ASSUME TextAssumption ==
  (\A text \in Stored : TextOK(text)) /\ (\A text \in Typed : TextOK(text))

Slot == 1 .. MaxCalls

VARIABLES
  \* the server
  files,      \* text of each file, or Absent
  seen,       \* files that have ever existed
  \* the page
  file,       \* editFile: the file of the dialog, or Closed
  showCreate, \* the dialog that asks for the name of a new file is open
  \* the edit dialog
  inst,       \* number of times it was mounted
  content,    \* the text
  wiz,        \* the form's data, or NoForm
  mode,       \* the view chosen
  saving,     \* Save and Apply are disabled
  \* the calls
  calls,
  \* history and bounds
  from,       \* the file whose text was last loaded or is being loaded
  strayed,    \* since the open dialog is for its file, the last answer to one of its loads was
              \* the text of another file, or that the file cannot be read
  clicks,     \* clicks left
  edits       \* edits and changes of view left

dialog     == <<inst, file, content, wiz, mode, saving, from, strayed>>
editorVars == <<files, seen, dialog, showCreate, calls, clicks, edits>>

Kind  == {"none", "load", "save", "apply", "delete", "drop", "create", "deploy"}
Phase == {"asked", "served", "refetch"}

\* A call: what for, which mount of the dialog asked (0: the page), the file, the text that
\* is sent or comes back, how far it is, and whether it was answered with success.
Call(kind, i, f, text) ==
  [kind |-> kind, inst |-> i, file |-> f, text |-> text, phase |-> "asked", ok |-> FALSE]

Nothing == Call("none", 0, Closed, Absent)

CallOK(c) ==
  /\ c = [kind |-> c.kind, inst |-> c.inst, file |-> c.file, text |-> c.text,
          phase |-> c.phase, ok |-> c.ok]
  /\ c.kind \in Kind /\ c.phase \in Phase /\ c.inst \in Nat /\ c.ok \in BOOLEAN
  /\ c.kind # "none" => c.file \in File

EditorTypeOK ==
  /\ seen \subseteq File
  /\ inst \in Nat
  /\ file \in File \cup {Closed}
  /\ from \in File \cup {Closed}
  /\ mode \in {"wizard", "editor"}
  /\ saving \in BOOLEAN /\ strayed \in BOOLEAN /\ showCreate \in BOOLEAN
  /\ DOMAIN calls = Slot
  /\ \A s \in Slot : CallOK(calls[s])

EditorInit ==
  /\ files \in [File -> Stored \cup {Absent}]
  /\ seen = {f \in File : files[f] # Absent}
  /\ inst = 0 /\ file = Closed /\ showCreate = FALSE
  /\ content = <<>> /\ wiz = NoForm /\ mode = "editor" /\ saving = FALSE
  /\ from = Closed /\ strayed = FALSE
  /\ calls = [s \in Slot |-> Nothing]
  /\ \E b \in Budgets : clicks = b[1] /\ edits = b[2]

-----------------------------------------------------------------------------
(* What several handlers do.                                               *)

Free(s) == calls[s].kind = "none" /\ \A r \in 1 .. s - 1 : calls[r].kind # "none"

Put(s, c) == calls' = [calls EXCEPT ![s] = c]

Done(s) == Put(s, Nothing)

Step(s, phase) == calls' = [calls EXCEPT ![s].phase = phase]

Click == clicks > 0 /\ clicks' = clicks - 1
Edit  == edits > 0 /\ edits' = edits - 1

\* The effect of a dialog that appears, or that is handed another file: load it.
LoadIn(s, i, f) == Put(s, Call("load", i, f, Absent))

Mount(s, f) ==
  /\ inst' = inst + 1 /\ file' = f
  /\ content' = <<>> /\ wiz' = NoForm /\ mode' = "editor" /\ saving' = FALSE
  /\ from' = f /\ strayed' = FALSE
  /\ LoadIn(s, inst + 1, f)

\* setEditFile(f): from no dialog, from the dialog of another file, or nothing new.
SetEditFile(s, f) ==
  \/ file = Closed /\ Mount(s, f)
  \/ /\ file \notin {Closed, f}
     /\ file' = f /\ strayed' = FALSE
     /\ LoadIn(s, inst, f)
     /\ UNCHANGED <<inst, content, wiz, mode, saving, from>>
  \/ file = f /\ Done(s) /\ UNCHANGED dialog

Close == file' = Closed /\ UNCHANGED <<inst, content, wiz, mode, saving, from, strayed>>

Mine_Any(c) == file # Closed

\* The call was made by the dialog that is open now.
Mine(c) == file # Closed /\ c.inst = inst

\* The table and the header are behind the dialogs.
PageFree == file = Closed /\ ~showCreate

-----------------------------------------------------------------------------
(* The page.                                                               *)

OpenEdit(s, f) ==
  /\ Click /\ PageFree /\ f \in seen /\ Free(s)
  /\ Mount(s, f)
  /\ UNCHANGED <<files, seen, showCreate, edits>>

\* handleDeleteFile, once it is confirmed.
handleDeleteFile(s, f) ==
  /\ Click /\ PageFree /\ f \in seen /\ Free(s)
  /\ Put(s, Call("delete", 0, f, Absent))
  /\ UNCHANGED <<files, seen, dialog, showCreate, edits>>

\* The Deploy button of a row: reads the file and applies what it read.
Deploy(s, f) ==
  /\ Click /\ PageFree /\ f \in seen /\ Free(s)
  /\ Put(s, Call("deploy", 0, f, Absent))
  /\ UNCHANGED <<files, seen, dialog, showCreate, edits>>

OpenCreate ==
  /\ Click /\ PageFree
  /\ showCreate' = TRUE
  /\ UNCHANGED <<files, seen, dialog, calls, edits>>

CancelCreate ==
  /\ showCreate /\ file = Closed
  /\ showCreate' = FALSE
  /\ UNCHANGED <<files, seen, dialog, calls, clicks, edits>>

\* The dialog stays while the call is under way, and takes another click or Enter.
handleCreate(s, f) ==
  /\ Click /\ showCreate /\ Free(s)
  /\ Put(s, Call("create", 0, f, <<>>))
  /\ UNCHANGED <<files, seen, dialog, showCreate, edits>>

-----------------------------------------------------------------------------
(* The edit dialog.                                                        *)

\* Typing: the text editor is shown in either view while there is no form.
SetContent(t) ==
  /\ Edit /\ file # Closed /\ (mode = "editor" \/ wiz = NoForm)
  /\ content' = t
  /\ UNCHANGED <<files, seen, inst, file, wiz, mode, saving, from, strayed, showCreate, calls,
                 clicks>>

handleWizardChange(d) ==
  /\ Edit /\ file # Closed
  /\ wiz' = d
  /\ content' = wizardToQuadlet(d)
  /\ UNCHANGED <<files, seen, inst, file, mode, saving, from, strayed, showCreate, calls, clicks>>

\* The form is there only in its view and once there is data; one field changes at a time.
WizardEdit ==
  /\ mode = "wizard" /\ wiz # NoForm
  /\ \E d \in ConfigWizard(wiz) : handleWizardChange(d)

handleModeChange_Stale(m) ==
  /\ Edit /\ file # Closed
  /\ mode' = m
  /\ UNCHANGED <<files, seen, inst, file, content, wiz, saving, from, strayed, showCreate, calls,
                 clicks>>

\* The form is read anew from the text, but an empty text leaves it as it was.
handleModeChange(m) ==
  /\ Edit /\ file # Closed
  /\ wiz' = IF m = "wizard" /\ content # <<>> THEN quadletToWizard(content) ELSE wiz
  /\ mode' = m
  /\ UNCHANGED <<files, seen, inst, file, content, saving, from, strayed, showCreate, calls,
                 clicks>>

Send_Enabled(s, kind) ==
  /\ Click /\ file # Closed /\ Free(s)
  /\ saving' = TRUE
  /\ Put(s, Call(kind, inst, file, content))
  /\ UNCHANGED <<files, seen, inst, file, content, wiz, mode, from, strayed, showCreate, edits>>

\* Save and Apply send what the text is now, and disable each other until the answer.
Send(s, kind) ==
  /\ Click /\ file # Closed /\ ~saving /\ Free(s)
  /\ saving' = TRUE
  /\ Put(s, Call(kind, inst, file, content))
  /\ UNCHANGED <<files, seen, inst, file, content, wiz, mode, from, strayed, showCreate, edits>>

handleSave(s)  == Send(s, "save")
handleApply(s) == Send(s, "apply")

handleDelete(s) ==
  /\ Click /\ file # Closed /\ Free(s)
  /\ Put(s, Call("drop", inst, file, Absent))
  /\ UNCHANGED <<files, seen, dialog, showCreate, edits>>

onClose ==
  /\ file # Closed
  /\ Close
  /\ UNCHANGED <<files, seen, showCreate, calls, clicks, edits>>

-----------------------------------------------------------------------------
(* The server takes the calls in any order.                                *)

Reply(s, text, ok) ==
  Put(s, [kind |-> calls[s].kind, inst |-> calls[s].inst, file |-> calls[s].file,
          text |-> text, phase |-> "served", ok |-> ok])

Writes(s, f, text, ok) ==
  /\ files' = [files EXCEPT ![f] = text]
  /\ seen' = seen \cup {f}
  /\ Reply(s, text, ok)

Refuses(s) == Reply(s, calls[s].text, FALSE) /\ UNCHANGED <<files, seen>>

ReadFile(s) ==
  LET f == calls[s].file IN
  Reply(s, files[f], files[f] # Absent) /\ UNCHANGED <<files, seen>>

\* PUT and POST both write the file, whether it exists or not.
WriteFile(s) == Writes(s, calls[s].file, calls[s].text, TRUE) \/ Refuses(s)

\* An empty text is refused; a text that was written may fail to start.
ApplyFile(s) ==
  \/ calls[s].text # <<>> /\ \E ok \in BOOLEAN : Writes(s, calls[s].file, calls[s].text, ok)
  \/ Refuses(s)

DeleteFile(s) ==
  LET f == calls[s].file IN
  \/ /\ files[f] # Absent
     /\ files' = [files EXCEPT ![f] = Absent]
     /\ Reply(s, Absent, TRUE)
     /\ UNCHANGED seen
  \/ Refuses(s)

Serve(s) ==
  /\ calls[s].phase = "asked"
  /\ CASE calls[s].kind \in {"load", "deploy"} -> ReadFile(s)
       [] calls[s].kind \in {"save", "create"} -> WriteFile(s)
       [] calls[s].kind = "apply" -> ApplyFile(s)
       [] calls[s].kind \in {"delete", "drop"} -> DeleteFile(s)
       [] OTHER -> FALSE
  /\ UNCHANGED <<dialog, showCreate, clicks, edits>>

-----------------------------------------------------------------------------
(* The answers.                                                            *)

Served(s, kind) == calls[s].kind = kind /\ calls[s].phase = "served"

\* A file that cannot be read leaves the dialog as it is: the error is not caught.
Loaded(s) ==
  /\ Served(s, "load") /\ Done(s)
  /\ IF calls[s].ok /\ Mine(calls[s])
     THEN /\ content' = calls[s].text
          /\ wiz' = quadletToWizard(calls[s].text)
          /\ from' = calls[s].file
     ELSE UNCHANGED <<content, wiz, from>>
  /\ strayed' = IF file = Closed \/ calls[s].inst # inst THEN strayed
                ELSE IF calls[s].file = file THEN ~calls[s].ok
                ELSE strayed \/ calls[s].ok
  /\ UNCHANGED <<inst, file, mode, saving, showCreate>>

\* setSaving(false) reaches the mount that asked, if it is still there.
StopsSaving(c) == saving' = IF Mine(c) THEN FALSE ELSE saving

Saved_OnSuccess(s) ==
  /\ Served(s, "save") /\ Done(s)
  /\ IF calls[s].ok THEN StopsSaving(calls[s]) ELSE UNCHANGED saving
  /\ UNCHANGED <<inst, file, content, wiz, mode, from, strayed, showCreate>>

Saved(s) ==
  /\ Served(s, "save") /\ Done(s)
  /\ StopsSaving(calls[s])
  /\ UNCHANGED <<inst, file, content, wiz, mode, from, strayed, showCreate>>

\* The list of units is fetched before the buttons are enabled again.
Applied(s) ==
  /\ Served(s, "apply")
  /\ IF calls[s].ok THEN Step(s, "refetch") /\ UNCHANGED saving
     ELSE Done(s) /\ StopsSaving(calls[s])
  /\ UNCHANGED <<inst, file, content, wiz, mode, from, strayed, showCreate>>

AppliedRefetched(s) ==
  /\ calls[s].kind = "apply" /\ calls[s].phase = "refetch" /\ Done(s)
  /\ StopsSaving(calls[s])
  /\ UNCHANGED <<inst, file, content, wiz, mode, from, strayed, showCreate>>

\* handleDialogDeleted closes whatever dialog the page shows now.
Dropped(s) ==
  /\ Served(s, "drop") /\ Done(s)
  /\ IF calls[s].ok THEN Close ELSE UNCHANGED dialog
  /\ UNCHANGED showCreate

Deleted(s) == Served(s, "delete") /\ Done(s) /\ UNCHANGED <<dialog, showCreate>>

\* The row's handler goes on to apply the text it has read.
DeployRead(s) ==
  /\ Served(s, "deploy")
  /\ IF calls[s].ok THEN Put(s, Call("apply", 0, calls[s].file, calls[s].text)) ELSE Done(s)
  /\ UNCHANGED <<dialog, showCreate>>

\* The create dialog closes at once; the new file is opened after two more calls.
Created(s) ==
  /\ Served(s, "create")
  /\ IF calls[s].ok THEN Step(s, "refetch") /\ showCreate' = FALSE
     ELSE Done(s) /\ UNCHANGED showCreate
  /\ UNCHANGED dialog

CreatedRefetched(s) ==
  /\ calls[s].kind = "create" /\ calls[s].phase = "refetch"
  /\ SetEditFile(s, calls[s].file)
  /\ UNCHANGED showCreate

Answer(s) ==
  /\ Loaded(s) \/ Saved(s) \/ Applied(s) \/ AppliedRefetched(s) \/ Dropped(s) \/ Deleted(s)
     \/ DeployRead(s) \/ Created(s) \/ CreatedRefetched(s)
  /\ UNCHANGED <<files, seen, clicks, edits>>

-----------------------------------------------------------------------------
User ==
  \/ \E s \in Slot, f \in File :
       OpenEdit(s, f) \/ handleDeleteFile(s, f) \/ Deploy(s, f) \/ handleCreate(s, f)
  \/ \E s \in Slot : handleSave(s) \/ handleApply(s) \/ handleDelete(s)
  \/ OpenCreate \/ CancelCreate \/ onClose
  \/ \E t \in Typed : SetContent(t)
  \/ WizardEdit
  \/ \E m \in {"wizard", "editor"} : handleModeChange(m)

EditorNext == User \/ \E s \in Slot : Serve(s) \/ Answer(s)

EditorSpec == EditorInit /\ [][EditorNext]_editorVars

-----------------------------------------------------------------------------
(* What has to hold.                                                       *)

\* The form and the text never disagree while the form is shown: one was made from the
\* other (an empty text apart, which the form ignores).
FormMatchesText ==
  file # Closed /\ mode = "wizard" /\ wiz # NoForm /\ content # <<>> =>
    content = wizardToQuadlet(wiz) \/ wiz = quadletToWizard(content)

OwnLoad(c) == c.kind = "load" /\ c.inst = inst /\ c.file = file

\* When the dialog shows, under the name of one file, the text of another, then the text of its
\* own is still being loaded, or could not be, or a load that was asked for under an earlier
\* name came after it (the page hands a new name to an open dialog, and nothing is cancelled).
\* A load of a dialog that was closed before never does it.
OwnText == file # Closed /\ from # file => strayed \/ \E s \in Slot : OwnLoad(calls[s])

\* What the form writes is read back as it is and written again the same, but for values
\* the text cannot carry.
FormIsStable == wiz # NoForm => WrittenTextIsStable(wiz)

\* Showing the text as a form and writing it again loses no line the form has a field for, with
\* a value it can hold, that no later line overrules (convert.ts) - but for the two kinds it
\* has no room for: of After, Requires, Wants and Network, which add up, all lines but the last,
\* and the options of a health check without a command.
FormKeepsText == FormKeepsLines(content)

\* The paths a service waits for are read back from the text the form writes (types.ts: each
\* is a path and whether it is a mount point).
WaitsComeBack ==
  wiz # NoForm =>
    quadletToWizard(wizardToQuadlet(wiz)).service.waitForPaths = wiz.service.waitForPaths

-----------------------------------------------------------------------------
(* What the first two rest on, and why the buttons come back.              *)

\* No call was made by a mount that is still to come.
LoadInv == \A s \in Slot : calls[s].inst <= inst

Saves(c) == c.kind \in {"save", "apply"} /\ c.inst = inst

\* Save and Apply of the open dialog are disabled exactly while one of its calls is under
\* way, and there is one at most.
SavingInv ==
  file # Closed =>
    /\ inst > 0
    /\ saving <=> \E s \in Slot : Saves(calls[s])
    /\ \A s, t \in Slot : Saves(calls[s]) /\ Saves(calls[t]) => s = t

\* The call has a text to write, or one that was read.
Carries(c) ==
  \/ c.kind \in {"save", "apply", "create"}
  \/ c.kind \in {"load", "deploy"} /\ c.phase = "served" /\ c.ok

\* Every text that is shown, stored or on its way is a sequence of lines that the form can
\* take apart, and the form holds only what its panels and such texts can put there.
ShapeInv ==
  /\ TextOK(content)
  /\ wiz # NoForm => FormOK(wiz)
  /\ DOMAIN files = File
  /\ \A f \in File : files[f] # Absent => TextOK(files[f])
  /\ \A s \in Slot : Carries(calls[s]) => TextOK(calls[s].text)

EditorInv == EditorTypeOK /\ FormMatchesText /\ OwnText /\ LoadInv /\ SavingInv
=============================================================================
