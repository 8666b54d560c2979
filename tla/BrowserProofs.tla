---------------------------- MODULE BrowserProofs ----------------------------
(***************************************************************************)
(* IInv is inductive, for any files, texts, objects and number of calls:   *)
(* first the page of files, then the pages of lists, and both at the end.  *)
(* What the form and the text make of each other is from WizardProofs.     *)
(***************************************************************************)
EXTENDS Browser, WizardProofs

-----------------------------------------------------------------------------
(* The page of files: EditorInv.                                           *)

\* A new call in a slot leaves the other slots as they were.
LEMMA PutKeeps ==
  ASSUME EditorTypeOK, NEW s \in Slot, NEW k \in Kind, NEW i \in Nat,
         NEW f, k # "none" => f \in File, NEW t, Put(s, Call(k, i, f, t))
  PROVE  /\ DOMAIN calls' = Slot
         /\ \A r \in Slot : CallOK(calls'[r])
         /\ \A r \in Slot \ {s} : calls'[r] = calls[r]
         /\ calls'[s].kind = k /\ calls'[s].inst = i /\ calls'[s].file = f
<1>1. /\ DOMAIN calls' = Slot
      /\ calls'[s] = Call(k, i, f, t)
      /\ \A r \in Slot \ {s} : calls'[r] = calls[r]
  BY DEF EditorTypeOK, Put
<1>2. "asked" \in Phase
  BY DEF Phase
<1>3. \A r \in Slot \ {s} : CallOK(calls'[r])
  BY <1>1 DEF EditorTypeOK
<1>4. CallOK(calls'[s]) /\ calls'[s].kind = k /\ calls'[s].inst = i /\ calls'[s].file = f
  BY <1>1, <1>2 DEF Call, CallOK
<1> QED
  BY <1>1, <1>3, <1>4

LEMMA DoneKeeps ==
  ASSUME EditorTypeOK, NEW s \in Slot, Done(s)
  PROVE  /\ DOMAIN calls' = Slot
         /\ \A r \in Slot : CallOK(calls'[r])
         /\ \A r \in Slot \ {s} : calls'[r] = calls[r]
         /\ calls'[s].kind = "none" /\ calls'[s].inst = 0
<1>1. "none" \in Kind
  BY DEF Kind
<1>2. Put(s, Call("none", 0, Closed, Absent))
  BY DEF Done, Nothing
<1> QED
  BY <1>1, <1>2, PutKeeps

\* A call that gets on keeps its kind, its file and who made it.
LEMMA ReplyKeeps ==
  ASSUME EditorTypeOK, NEW s \in Slot, NEW t, NEW o \in BOOLEAN, Reply(s, t, o)
  PROVE  /\ DOMAIN calls' = Slot
         /\ \A r \in Slot : CallOK(calls'[r])
         /\ \A r \in Slot \ {s} : calls'[r] = calls[r]
         /\ calls'[s].kind = calls[s].kind /\ calls'[s].inst = calls[s].inst
         /\ calls'[s].file = calls[s].file
<1>1. /\ DOMAIN calls' = Slot
      /\ \A r \in Slot \ {s} : calls'[r] = calls[r]
      /\ calls'[s] = [kind |-> calls[s].kind, inst |-> calls[s].inst, file |-> calls[s].file,
                      text |-> t, phase |-> "served", ok |-> o]
  BY DEF EditorTypeOK, Reply, Put
<1>2. "served" \in Phase
  BY DEF Phase
<1> QED
  BY <1>1, <1>2 DEF EditorTypeOK, CallOK

LEMMA StepKeeps ==
  ASSUME EditorTypeOK, NEW s \in Slot, Step(s, "refetch")
  PROVE  /\ DOMAIN calls' = Slot
         /\ \A r \in Slot : CallOK(calls'[r])
         /\ \A r \in Slot \ {s} : calls'[r] = calls[r]
         /\ calls'[s].kind = calls[s].kind /\ calls'[s].inst = calls[s].inst
         /\ calls'[s].file = calls[s].file
<1>1. DOMAIN calls' = Slot /\ \A r \in Slot \ {s} : calls'[r] = calls[r]
  BY DEF EditorTypeOK, Step
<1>2. CallOK(calls[s])
  BY DEF EditorTypeOK
<1>3. calls'[s] = [calls[s] EXCEPT !.phase = "refetch"]
  BY DEF EditorTypeOK, Step
<1>4. calls'[s] = [kind |-> calls[s].kind, inst |-> calls[s].inst, file |-> calls[s].file,
                   text |-> calls[s].text, phase |-> "refetch", ok |-> calls[s].ok]
  BY <1>2, <1>3 DEF CallOK
<1>5. "refetch" \in Phase
  BY DEF Phase
<1> QED
  BY <1>1, <1>2, <1>4, <1>5 DEF EditorTypeOK, CallOK

-----------------------------------------------------------------------------
(* What a change of one slot means to the loads and to the buttons.        *)

LEMMA LoadKept ==
  ASSUME LoadInv, NEW s \in Slot, \A r \in Slot \ {s} : calls'[r] = calls[r],
         UNCHANGED inst, calls'[s].inst <= inst
  PROVE  LoadInv'
BY DEF LoadInv

\* The slot is an own load still, if it was one.
LEMMA OwnKept ==
  ASSUME OwnText, NEW s \in Slot, \A r \in Slot \ {s} : calls'[r] = calls[r],
         UNCHANGED <<inst, file, from, strayed>>, OwnLoad(calls[s]) => OwnLoad(calls'[s])
  PROVE  OwnText'
<1>1. \A r \in Slot : OwnLoad(calls[r]) => OwnLoad(calls[r])'
  BY DEF OwnLoad
<1> QED
  BY <1>1 DEF OwnText

\* The slot counts for the buttons as before.
LEMMA SavingKept ==
  ASSUME SavingInv, NEW s \in Slot, \A r \in Slot \ {s} : calls'[r] = calls[r],
         UNCHANGED <<inst, saving>>, file' # Closed => file # Closed,
         file # Closed => (Saves(calls[s]) <=> Saves(calls'[s]))
  PROVE  SavingInv'
<1>1. file # Closed => \A r \in Slot : Saves(calls[r])' <=> Saves(calls[r])
  BY DEF Saves
<1> QED
  BY <1>1 DEF SavingInv

\* The dialog's call begins.
LEMMA SavingBegins ==
  ASSUME SavingInv, NEW s \in Slot, \A r \in Slot \ {s} : calls'[r] = calls[r],
         UNCHANGED <<inst, file>>, ~saving, saving' = TRUE, Saves(calls'[s])
  PROVE  SavingInv'
<1>1. \A r \in Slot \ {s} : Saves(calls[r])' <=> Saves(calls[r])
  BY DEF Saves
<1>2. Saves(calls[s])'
  BY DEF Saves
<1> QED
  BY <1>1, <1>2 DEF SavingInv

\* The dialog's call ends.
LEMMA SavingEnds ==
  ASSUME SavingInv, NEW s \in Slot, \A r \in Slot \ {s} : calls'[r] = calls[r],
         UNCHANGED <<inst, file>>, saving' = FALSE, Saves(calls[s]), ~Saves(calls'[s])
  PROVE  SavingInv'
<1>1. \A r \in Slot \ {s} : Saves(calls[r])' <=> Saves(calls[r])
  BY DEF Saves
<1>2. ~Saves(calls[s])'
  BY DEF Saves
<1> QED
  BY <1>1, <1>2 DEF SavingInv

\* A step that changes one slot, and nothing of the dialog.
LEMMA SlotOnly ==
  ASSUME EditorInv, NEW s \in Slot, UNCHANGED dialog, seen' \subseteq File,
         showCreate' \in BOOLEAN, DOMAIN calls' = Slot, \A r \in Slot : CallOK(calls'[r]),
         \A r \in Slot \ {s} : calls'[r] = calls[r], calls'[s].inst <= inst,
         OwnLoad(calls[s]) => OwnLoad(calls'[s]),
         file # Closed => (Saves(calls[s]) <=> Saves(calls'[s]))
  PROVE  EditorInv'
<1>1. EditorTypeOK' /\ FormMatchesText' /\ OwnText'
  BY OwnKept DEF EditorInv, EditorTypeOK, FormMatchesText, dialog
<1>2. LoadInv'
  BY LoadKept DEF EditorInv, dialog
<1>3. SavingInv'
  BY SavingKept DEF EditorInv, dialog
<1> QED
  BY <1>1, <1>2, <1>3 DEF EditorInv

\* A step that changes the texts of the dialog, and nothing else that counts.
LEMMA DialogOnly ==
  ASSUME EditorInv, FormMatchesText', mode' \in {"wizard", "editor"},
         UNCHANGED <<inst, file, saving, from, strayed, calls, showCreate, seen>>
  PROVE  EditorInv'
<1>1. EditorTypeOK' /\ OwnText'
  BY DEF EditorInv, EditorTypeOK, OwnText, OwnLoad
<1>2. LoadInv'
  BY DEF EditorInv, LoadInv
<1>3. SavingInv'
  BY DEF EditorInv, SavingInv, Saves
<1> QED
  BY <1>1, <1>2, <1>3 DEF EditorInv

\* The dialog goes.
LEMMA Closes ==
  ASSUME EditorInv, NEW s \in Slot, Close, seen' \subseteq File,
         showCreate' \in BOOLEAN, DOMAIN calls' = Slot, \A r \in Slot : CallOK(calls'[r]),
         \A r \in Slot \ {s} : calls'[r] = calls[r], calls'[s].inst <= inst
  PROVE  EditorInv'
<1>1. EditorTypeOK' /\ FormMatchesText' /\ OwnText'
  BY DEF EditorInv, EditorTypeOK, FormMatchesText, OwnText, Close
<1>2. LoadInv'
  BY DEF EditorInv, LoadInv, Close
<1>3. SavingInv'
  BY DEF SavingInv, Close
<1> QED
  BY <1>1, <1>2, <1>3 DEF EditorInv

\* A dialog appears.
LEMMA Mounts ==
  ASSUME EditorInv, NEW s \in Slot, NEW f \in File, Mount(s, f), seen' \subseteq File,
         showCreate' \in BOOLEAN
  PROVE  EditorInv'
<1>1. inst \in Nat /\ inst + 1 \in Nat /\ "load" \in Kind
  BY DEF EditorInv, EditorTypeOK, Kind
<1>2. /\ DOMAIN calls' = Slot
      /\ \A r \in Slot : CallOK(calls'[r])
      /\ \A r \in Slot \ {s} : calls'[r] = calls[r]
      /\ calls'[s].kind = "load" /\ calls'[s].inst = inst + 1 /\ calls'[s].file = f
  BY <1>1, PutKeeps DEF Mount, LoadIn, EditorInv
<1>3. \A r \in Slot \ {s} : calls'[r].inst <= inst /\ calls'[r].inst \in Nat
  BY <1>2 DEF EditorInv, LoadInv, CallOK
<1>4. EditorTypeOK' /\ FormMatchesText' /\ OwnText'
  BY <1>1, <1>2, EditorAssumption
     DEF EditorInv, EditorTypeOK, FormMatchesText, OwnText, Mount
<1>5. LoadInv'
  BY <1>1, <1>2, <1>3 DEF LoadInv, Mount
<1>6. SavingInv'
  <2>1. inst' > 0
    BY <1>1 DEF Mount
  <2>2. \A r \in Slot : ~Saves(calls[r])'
    BY <1>1, <1>2, <1>3 DEF Saves, Mount
  <2> QED
    BY <2>1, <2>2 DEF SavingInv, Mount
<1> QED
  BY <1>4, <1>5, <1>6 DEF EditorInv

\* An open dialog is handed another file.
LEMMA Moves ==
  ASSUME EditorInv, NEW s \in Slot, NEW f \in File, SetEditFile(s, f), file # Closed,
         calls[s].kind = "create", seen' \subseteq File, showCreate' \in BOOLEAN
  PROVE  EditorInv'
<1>1. inst \in Nat /\ "load" \in Kind
  BY DEF EditorInv, EditorTypeOK, Kind
<1>2. CASE file # f
  <2>1. /\ file' = f /\ strayed' = FALSE /\ LoadIn(s, inst, f)
        /\ UNCHANGED <<inst, content, wiz, mode, saving, from>>
    BY <1>2 DEF SetEditFile
  <2>2. /\ DOMAIN calls' = Slot
        /\ \A r \in Slot : CallOK(calls'[r])
        /\ \A r \in Slot \ {s} : calls'[r] = calls[r]
        /\ calls'[s].kind = "load" /\ calls'[s].inst = inst /\ calls'[s].file = f
    BY <1>1, <2>1, PutKeeps DEF LoadIn, EditorInv
  <2>3. EditorTypeOK' /\ FormMatchesText' /\ OwnText'
    BY <2>1, <2>2 DEF EditorInv, EditorTypeOK, FormMatchesText, OwnText, OwnLoad
  <2>4. LoadInv'
    BY <1>1, <2>1, <2>2, LoadKept DEF EditorInv
  <2>5. SavingInv'
    BY <2>1, <2>2, SavingKept DEF EditorInv, Saves
  <2> QED
    BY <2>3, <2>4, <2>5 DEF EditorInv
<1>3. CASE file = f
  <2>1. Done(s) /\ UNCHANGED dialog
    BY <1>3 DEF SetEditFile
  <2>2. ~Saves(calls[s]) /\ ~OwnLoad(calls[s])
    BY DEF Saves, OwnLoad
  <2> QED
    BY <1>1, <2>1, <2>2, DoneKeeps, SlotOnly DEF EditorInv, Saves
<1> QED
  BY <1>2, <1>3

-----------------------------------------------------------------------------
(* The actions.                                                            *)

\* A call made from the page, or the deletion asked for in the dialog.
LEMMA AsksKeep ==
  ASSUME EditorInv, NEW s \in Slot, NEW k \in {"delete", "deploy", "create", "drop"},
         NEW i \in {0, inst}, NEW f \in File, NEW t, Put(s, Call(k, i, f, t)),
         calls[s].kind = "none", UNCHANGED <<dialog, showCreate, seen>>
  PROVE  EditorInv'
<1>1. inst \in Nat /\ k \in Kind /\ i \in Nat /\ i <= inst
  BY DEF EditorInv, EditorTypeOK, Kind
<1>2. /\ DOMAIN calls' = Slot
      /\ \A r \in Slot : CallOK(calls'[r])
      /\ \A r \in Slot \ {s} : calls'[r] = calls[r]
      /\ calls'[s].kind = k /\ calls'[s].inst = i
  BY <1>1, PutKeeps DEF EditorInv
<1>3. ~Saves(calls[s]) /\ ~Saves(calls'[s]) /\ ~OwnLoad(calls[s])
  BY <1>2 DEF Saves, OwnLoad
<1>4. seen' \subseteq File /\ showCreate' \in BOOLEAN
  BY DEF EditorInv, EditorTypeOK
<1> QED
  BY <1>1, <1>2, <1>3, <1>4, SlotOnly

LEMMA OpenEditKeeps ==
  ASSUME EditorInv, NEW s \in Slot, NEW f \in File, OpenEdit(s, f)
  PROVE  EditorInv'
BY Mounts DEF OpenEdit, EditorInv, EditorTypeOK

LEMMA PageKeeps ==
  ASSUME EditorInv, NEW s \in Slot, NEW f \in File,
         handleDeleteFile(s, f) \/ Deploy(s, f) \/ handleCreate(s, f)
  PROVE  EditorInv'
BY AsksKeep DEF handleDeleteFile, Deploy, handleCreate, Free

LEMMA SendKeeps ==
  ASSUME EditorInv, NEW s \in Slot, handleSave(s) \/ handleApply(s)
  PROVE  EditorInv'
<1>1. PICK k \in {"save", "apply"} : Send(s, k)
  BY DEF handleSave, handleApply
<1>2. inst \in Nat /\ k \in Kind /\ file \in File /\ ~saving /\ saving' = TRUE
  BY <1>1 DEF EditorInv, EditorTypeOK, Kind, Send
<1>3. /\ DOMAIN calls' = Slot
      /\ \A r \in Slot : CallOK(calls'[r])
      /\ \A r \in Slot \ {s} : calls'[r] = calls[r]
      /\ calls'[s].kind = k /\ calls'[s].inst = inst
  BY <1>1, <1>2, PutKeeps DEF EditorInv, Send
<1>4. EditorTypeOK' /\ FormMatchesText' /\ OwnText'
  <2>1. calls[s].kind = "none"
    BY <1>1 DEF Send, Free
  <2>2. OwnText'
    BY <1>1, <1>3, <2>1, OwnKept DEF EditorInv, Send, OwnLoad
  <2> QED
    BY <1>1, <1>3, <2>2 DEF EditorInv, EditorTypeOK, FormMatchesText, Send
<1>5. LoadInv'
  BY <1>1, <1>2, <1>3, LoadKept DEF EditorInv, Send
<1>6. SavingInv'
  BY <1>1, <1>2, <1>3, SavingBegins DEF EditorInv, Send, Saves
<1> QED
  BY <1>4, <1>5, <1>6 DEF EditorInv

LEMMA DeleteKeeps ==
  ASSUME EditorInv, NEW s \in Slot, handleDelete(s)
  PROVE  EditorInv'
BY AsksKeep DEF handleDelete, Free, EditorInv, EditorTypeOK

\* The create dialog comes and goes.
LEMMA CreateDialogKeeps ==
  ASSUME EditorInv, OpenCreate \/ CancelCreate
  PROVE  EditorInv'
BY DialogOnly DEF OpenCreate, CancelCreate, EditorInv, EditorTypeOK, dialog, FormMatchesText,
   OwnText, OwnLoad, LoadInv, SavingInv, Saves

LEMMA onCloseKeeps ==
  ASSUME EditorInv, onClose
  PROVE  EditorInv'
<1>1. EditorTypeOK' /\ FormMatchesText' /\ OwnText'
  BY DEF EditorInv, EditorTypeOK, FormMatchesText, OwnText, onClose, Close
<1>2. LoadInv' /\ SavingInv'
  BY DEF EditorInv, LoadInv, SavingInv, onClose, Close
<1> QED
  BY <1>1, <1>2 DEF EditorInv

LEMMA TextKeeps ==
  ASSUME EditorInv,
         (\E t \in Typed : SetContent(t)) \/ WizardEdit
           \/ (\E m \in {"wizard", "editor"} : handleModeChange(m))
  PROVE  EditorInv'
<1>1. CASE \E t \in Typed : SetContent(t)
  <2>1. FormMatchesText' /\ mode' \in {"wizard", "editor"}
    BY <1>1 DEF SetContent, FormMatchesText, EditorInv, EditorTypeOK
  <2> QED
    BY <1>1, <2>1, DialogOnly DEF SetContent
<1>2. CASE WizardEdit
  <2>1. PICK d \in ConfigWizard(wiz) : handleWizardChange(d)
    BY <1>2 DEF WizardEdit
  <2>2. FormMatchesText' /\ mode' \in {"wizard", "editor"}
    BY <2>1 DEF handleWizardChange, FormMatchesText, EditorInv, EditorTypeOK
  <2> QED
    BY <2>1, <2>2, DialogOnly DEF handleWizardChange
<1>3. CASE \E m \in {"wizard", "editor"} : handleModeChange(m)
  <2>1. FormMatchesText' /\ mode' \in {"wizard", "editor"}
    BY <1>3 DEF handleModeChange, FormMatchesText
  <2> QED
    BY <1>3, <2>1, DialogOnly DEF handleModeChange
<1> QED
  BY <1>1, <1>2, <1>3

LEMMA ServeKeeps ==
  ASSUME EditorInv, NEW s \in Slot, Serve(s)
  PROVE  EditorInv'
<1>1. CallOK(calls[s]) /\ calls[s].inst <= inst
  BY DEF EditorInv, EditorTypeOK, LoadInv
<1>2. UNCHANGED <<dialog, showCreate>>
  BY DEF Serve
<1>3. calls[s].kind # "none" /\ calls[s].file \in File
  BY <1>1 DEF Serve, CallOK
<1>4. \E t : \E o \in BOOLEAN : Reply(s, t, o)
  <2>1. \/ ReadFile(s) \/ WriteFile(s) \/ ApplyFile(s) \/ DeleteFile(s)
    BY DEF Serve
  <2> QED
    BY <2>1 DEF ReadFile, WriteFile, ApplyFile, DeleteFile, Writes, Refuses
<1>5. seen' \subseteq File
  <2>1. ReadFile(s) \/ WriteFile(s) \/ ApplyFile(s) \/ DeleteFile(s)
    BY DEF Serve
  <2> QED
    BY <1>3, <2>1 DEF ReadFile, WriteFile, ApplyFile, DeleteFile, Writes, Refuses, EditorInv,
                      EditorTypeOK
<1>6. showCreate' \in BOOLEAN
  BY <1>2 DEF EditorInv, EditorTypeOK
<1>7. PICK t : \E o \in BOOLEAN : Reply(s, t, o)
  BY <1>4
<1>8. /\ DOMAIN calls' = Slot
      /\ \A r \in Slot : CallOK(calls'[r])
      /\ \A r \in Slot \ {s} : calls'[r] = calls[r]
      /\ calls'[s].kind = calls[s].kind /\ calls'[s].inst = calls[s].inst
      /\ calls'[s].file = calls[s].file
  BY <1>7, ReplyKeeps DEF EditorInv
<1>9. (Saves(calls[s]) <=> Saves(calls'[s])) /\ (OwnLoad(calls[s]) => OwnLoad(calls'[s]))
  BY <1>8 DEF Saves, OwnLoad
<1> QED
  BY <1>1, <1>2, <1>5, <1>6, <1>8, <1>9, SlotOnly

\* The answer of a call that is dropped, and that leaves the dialog alone.
LEMMA ForgetKeeps ==
  ASSUME EditorInv, NEW s \in Slot, Done(s), UNCHANGED <<dialog, seen>>,
         showCreate' \in BOOLEAN, ~OwnLoad(calls[s]), file # Closed => ~Saves(calls[s])
  PROVE  EditorInv'
<1>1. inst \in Nat /\ seen' \subseteq File
  BY DEF EditorInv, EditorTypeOK
<1>2. /\ DOMAIN calls' = Slot
      /\ \A r \in Slot : CallOK(calls'[r])
      /\ \A r \in Slot \ {s} : calls'[r] = calls[r]
      /\ calls'[s].kind = "none" /\ calls'[s].inst = 0
  BY DoneKeeps DEF EditorInv
<1>3. ~Saves(calls'[s])
  BY <1>2 DEF Saves
<1> QED
  BY <1>1, <1>2, <1>3, SlotOnly

\* A call that gets on, and leaves the dialog alone.
LEMMA StepOnly ==
  ASSUME EditorInv, NEW s \in Slot, Step(s, "refetch"), UNCHANGED <<dialog, seen>>,
         showCreate' \in BOOLEAN
  PROVE  EditorInv'
<1>1. seen' \subseteq File /\ calls[s].inst <= inst
  BY DEF EditorInv, EditorTypeOK, LoadInv
<1>2. /\ DOMAIN calls' = Slot
      /\ \A r \in Slot : CallOK(calls'[r])
      /\ \A r \in Slot \ {s} : calls'[r] = calls[r]
      /\ calls'[s].kind = calls[s].kind /\ calls'[s].inst = calls[s].inst
      /\ calls'[s].file = calls[s].file
  BY StepKeeps DEF EditorInv
<1>3. (Saves(calls[s]) <=> Saves(calls'[s])) /\ (OwnLoad(calls[s]) => OwnLoad(calls'[s]))
  BY <1>2 DEF Saves, OwnLoad
<1> QED
  BY <1>1, <1>2, <1>3, SlotOnly

LEMMA LoadedKeeps ==
  ASSUME EditorInv, NEW s \in Slot, Loaded(s), UNCHANGED seen
  PROVE  EditorInv'
<1>1. /\ Done(s) /\ calls[s].kind = "load" /\ UNCHANGED <<inst, file, mode, saving>>
      /\ UNCHANGED showCreate
  BY DEF Loaded, Served
<1>2. ~Saves(calls[s]) /\ inst \in Nat /\ showCreate' \in BOOLEAN
  BY <1>1 DEF Saves, EditorInv, EditorTypeOK
<1>3. calls[s].file \in File /\ calls[s].ok \in BOOLEAN /\ strayed \in BOOLEAN
  BY <1>1 DEF EditorInv, EditorTypeOK, CallOK
<1>4. CASE ~Mine(calls[s])
  <2>1. UNCHANGED dialog
    BY <1>1, <1>4 DEF Loaded, dialog, Mine
  <2>2. file = Closed \/ ~OwnLoad(calls[s])
    BY <1>4 DEF Mine, OwnLoad
  <2>3. ~OwnLoad(calls[s])
    BY <1>3, <2>2, EditorAssumption DEF OwnLoad
  <2> QED
    BY <1>1, <1>2, <2>1, <2>3, ForgetKeeps
<1>5. CASE Mine(calls[s])
  <2>1. file # Closed /\ calls[s].inst = inst
    BY <1>5 DEF Mine
  <2>2. /\ DOMAIN calls' = Slot
        /\ \A r \in Slot : CallOK(calls'[r])
        /\ \A r \in Slot \ {s} : calls'[r] = calls[r]
        /\ calls'[s].kind = "none" /\ calls'[s].inst = 0
    BY <1>1, DoneKeeps DEF EditorInv
  <2>3. strayed' = IF calls[s].file = file THEN ~calls[s].ok ELSE strayed \/ calls[s].ok
    BY <2>1 DEF Loaded
  <2>4. strayed' \in BOOLEAN
    BY <1>3, <2>3, Zenon
  <2>5. LoadInv'
    BY <1>1, <1>2, <2>2, LoadKept DEF EditorInv
  <2>6. SavingInv'
    BY <1>1, <1>2, <2>2, SavingKept DEF EditorInv, Saves
  <2>7. CASE calls[s].ok
    <3>1. /\ content' = calls[s].text /\ wiz' = quadletToWizard(calls[s].text)
          /\ from' = calls[s].file
      BY <1>5, <2>7 DEF Loaded
    <3>2. EditorTypeOK'
      BY <1>1, <1>3, <2>2, <2>4, <3>1 DEF EditorInv, EditorTypeOK
    <3>3. FormMatchesText'
      BY <1>1, <3>1 DEF FormMatchesText
    <3>4. calls[s].file # file => strayed'
      BY <2>3, <2>7, Zenon
    <3>5. OwnText'
      BY <1>1, <3>1, <3>4 DEF OwnText
    <3> QED
      BY <2>5, <2>6, <3>2, <3>3, <3>5 DEF EditorInv
  <2>8. CASE ~calls[s].ok
    <3>1. UNCHANGED <<content, wiz, from>>
      BY <2>8 DEF Loaded
    <3>2. EditorTypeOK' /\ FormMatchesText'
      BY <1>1, <2>2, <2>4, <3>1 DEF EditorInv, EditorTypeOK, FormMatchesText
    <3>3. CASE calls[s].file = file
      <4>1. strayed'
        BY <2>3, <2>8, <3>3, Zenon
      <4> QED
        BY <2>5, <2>6, <3>2, <4>1 DEF EditorInv, OwnText
    <3>4. CASE calls[s].file # file
      <4>1. strayed' = strayed
        BY <1>3, <2>3, <2>8, <3>4, Zenon
      <4>2. OwnText'
        BY <1>1, <2>2, <3>1, <3>4, <4>1, OwnKept DEF EditorInv, OwnLoad
      <4> QED
        BY <2>5, <2>6, <3>2, <4>2 DEF EditorInv
    <3> QED
      BY <3>3, <3>4
  <2> QED
    BY <1>3, <2>7, <2>8
<1> QED
  BY <1>4, <1>5

\* A save or an apply has ended: the buttons of the mount that asked are enabled.
LEMMA EndsKeep ==
  ASSUME EditorInv, NEW s \in Slot, calls[s].kind \in {"save", "apply"}, Done(s),
         StopsSaving(calls[s]),
         UNCHANGED <<inst, file, content, wiz, mode, from, strayed, showCreate, seen>>
  PROVE  EditorInv'
<1>1. inst \in Nat /\ showCreate' \in BOOLEAN /\ ~OwnLoad(calls[s])
  BY DEF EditorInv, EditorTypeOK, OwnLoad
<1>2. CASE ~Mine(calls[s])
  <2>1. UNCHANGED dialog
    BY <1>2 DEF StopsSaving, dialog
  <2>2. file # Closed => ~Saves(calls[s])
    BY <1>2 DEF Mine, Saves
  <2> QED
    BY <1>1, <2>1, <2>2, ForgetKeeps
<1>3. CASE Mine(calls[s])
  <2>1. saving' = FALSE /\ Saves(calls[s])
    BY <1>3 DEF StopsSaving, Mine, Saves
  <2>2. /\ DOMAIN calls' = Slot
        /\ \A r \in Slot : CallOK(calls'[r])
        /\ \A r \in Slot \ {s} : calls'[r] = calls[r]
        /\ calls'[s].kind = "none" /\ calls'[s].inst = 0
    BY DoneKeeps DEF EditorInv
  <2>3. EditorTypeOK' /\ FormMatchesText' /\ OwnText'
    BY <1>1, <2>1, <2>2, OwnKept DEF EditorInv, EditorTypeOK, FormMatchesText
  <2>4. LoadInv'
    BY <1>1, <2>2, LoadKept DEF EditorInv
  <2>5. ~Saves(calls'[s])
    BY <2>2 DEF Saves
  <2>6. SavingInv'
    BY <2>1, <2>2, <2>5, SavingEnds DEF EditorInv
  <2> QED
    BY <2>3, <2>4, <2>6 DEF EditorInv
<1> QED
  BY <1>2, <1>3

LEMMA AppliedKeeps ==
  ASSUME EditorInv, NEW s \in Slot, Applied(s), UNCHANGED seen
  PROVE  EditorInv'
<1>1. calls[s].kind = "apply" /\ showCreate' \in BOOLEAN
  BY DEF Applied, Served, EditorInv, EditorTypeOK
<1>2. CASE calls[s].ok
  BY <1>1, <1>2, StepOnly DEF Applied, dialog
<1>3. CASE ~calls[s].ok
  BY <1>1, <1>3, EndsKeep DEF Applied
<1> QED
  BY <1>2, <1>3

LEMMA DroppedKeeps ==
  ASSUME EditorInv, NEW s \in Slot, Dropped(s), UNCHANGED seen
  PROVE  EditorInv'
<1>1. /\ calls[s].kind = "drop" /\ Done(s) /\ ~Saves(calls[s]) /\ ~OwnLoad(calls[s])
      /\ seen' \subseteq File /\ showCreate' \in BOOLEAN /\ inst \in Nat
  BY DEF Dropped, Served, Saves, OwnLoad, EditorInv, EditorTypeOK
<1>2. CASE calls[s].ok
  <2>1. Close
    BY <1>2 DEF Dropped
  <2> QED
    BY <1>1, <2>1, DoneKeeps, Closes DEF EditorInv
<1>3. CASE ~calls[s].ok
  BY <1>1, <1>3, ForgetKeeps DEF Dropped
<1> QED
  BY <1>2, <1>3

LEMMA DeployReadKeeps ==
  ASSUME EditorInv, NEW s \in Slot, DeployRead(s), UNCHANGED seen
  PROVE  EditorInv'
<1>1. /\ calls[s].kind = "deploy" /\ ~Saves(calls[s]) /\ ~OwnLoad(calls[s]) /\ inst \in Nat
      /\ seen' \subseteq File /\ showCreate' \in BOOLEAN /\ UNCHANGED dialog
  BY DEF DeployRead, Served, Saves, OwnLoad, EditorInv, EditorTypeOK
<1>2. CASE ~calls[s].ok
  BY <1>1, <1>2, ForgetKeeps DEF DeployRead
<1>3. CASE calls[s].ok
  <2>1. Put(s, Call("apply", 0, calls[s].file, calls[s].text))
    BY <1>3 DEF DeployRead
  <2>2. "apply" \in Kind /\ calls[s].file \in File
    BY <1>1 DEF Kind, EditorInv, EditorTypeOK, CallOK
  <2>3. /\ DOMAIN calls' = Slot
        /\ \A r \in Slot : CallOK(calls'[r])
        /\ \A r \in Slot \ {s} : calls'[r] = calls[r]
        /\ calls'[s].kind = "apply" /\ calls'[s].inst = 0
    BY <2>1, <2>2, PutKeeps DEF EditorInv
  <2>4. file # Closed => ~Saves(calls'[s])
    BY <2>3 DEF Saves, EditorInv, SavingInv
  <2> QED
    BY <1>1, <2>3, <2>4, SlotOnly
<1> QED
  BY <1>2, <1>3

LEMMA CreatedKeeps ==
  ASSUME EditorInv, NEW s \in Slot, Created(s) \/ CreatedRefetched(s), UNCHANGED seen
  PROVE  EditorInv'
<1>1. /\ calls[s].kind = "create" /\ ~Saves(calls[s]) /\ calls[s].file \in File
      /\ ~OwnLoad(calls[s]) /\ seen' \subseteq File /\ showCreate' \in BOOLEAN
  BY DEF Created, CreatedRefetched, Served, Saves, OwnLoad, EditorInv, EditorTypeOK, CallOK
<1>2. CASE Created(s)
  BY <1>1, <1>2, StepOnly, ForgetKeeps DEF Created
<1>3. CASE CreatedRefetched(s) /\ file = Closed
  BY <1>1, <1>3, Mounts, EditorAssumption DEF CreatedRefetched, SetEditFile
<1>4. CASE CreatedRefetched(s) /\ file # Closed
  BY <1>1, <1>4, Moves DEF CreatedRefetched
<1> QED
  BY <1>2, <1>3, <1>4

LEMMA AnswerKeeps ==
  ASSUME EditorInv, NEW s \in Slot, Answer(s)
  PROVE  EditorInv'
<1>1. UNCHANGED seen
  BY DEF Answer
<1>2. CASE Loaded(s)
  BY <1>1, <1>2, LoadedKeeps
<1>3. CASE Saved(s)
  BY <1>1, <1>3, EndsKeep DEF Saved, Served
<1>4. CASE Applied(s)
  BY <1>1, <1>4, AppliedKeeps
<1>5. CASE AppliedRefetched(s)
  BY <1>1, <1>5, EndsKeep DEF AppliedRefetched
<1>6. CASE Dropped(s)
  BY <1>1, <1>6, DroppedKeeps
<1>7. CASE Deleted(s)
  BY <1>1, <1>7, ForgetKeeps DEF Deleted, Served, Saves, OwnLoad, EditorInv, EditorTypeOK
<1>8. CASE DeployRead(s)
  BY <1>1, <1>8, DeployReadKeeps
<1>9. CASE Created(s) \/ CreatedRefetched(s)
  BY <1>1, <1>9, CreatedKeeps
<1> QED
  BY <1>2, <1>3, <1>4, <1>5, <1>6, <1>7, <1>8, <1>9 DEF Answer

-----------------------------------------------------------------------------
LEMMA EditorInitInv ==
  ASSUME EditorInit
  PROVE  EditorInv
<1>1. \A s \in Slot : calls[s] = Nothing
  BY DEF EditorInit
<1>2. CallOK(Nothing) /\ Nothing.kind = "none" /\ Nothing.inst = 0
  BY DEF CallOK, Nothing, Call, Kind, Phase
<1>3. EditorTypeOK
  BY <1>1, <1>2 DEF EditorInit, EditorTypeOK
<1>4. FormMatchesText /\ OwnText /\ LoadInv /\ SavingInv
  BY <1>1, <1>2 DEF EditorInit, FormMatchesText, OwnText, LoadInv, SavingInv
<1> QED
  BY <1>3, <1>4 DEF EditorInv

LEMMA EditorNextInv ==
  ASSUME EditorInv, EditorNext
  PROVE  EditorInv'
<1>1. CASE \E s \in Slot : Serve(s) \/ Answer(s)
  BY <1>1, ServeKeeps, AnswerKeeps
<1>2. CASE User
  BY <1>2, OpenEditKeeps, PageKeeps, SendKeeps, DeleteKeeps, CreateDialogKeeps, onCloseKeeps,
     TextKeeps DEF User
<1> QED
  BY <1>1, <1>2 DEF EditorNext

LEMMA EditorStutterInv ==
  ASSUME EditorInv, UNCHANGED editorVars
  PROVE  EditorInv'
BY DEF EditorInv, EditorTypeOK, FormMatchesText, OwnText, OwnLoad, LoadInv, SavingInv, Saves,
       editorVars, dialog

-----------------------------------------------------------------------------
(* The texts and the form keep their shape: ShapeInv.                      *)

LEMMA NoText == TextOK(<<>>)
<1>1. IsSeq(<<>>)
  BY NoLines
<1>2. DOMAIN <<>> = {}
  OBVIOUS
<1> QED
  BY <1>1, <1>2 DEF TextOK

LEMMA PutIs ==
  ASSUME EditorTypeOK, NEW s \in Slot, NEW c, Put(s, c)
  PROVE  calls'[s] = c /\ \A r \in Slot \ {s} : calls'[r] = calls[r]
BY DEF EditorTypeOK, Put

\* A step of one slot that carries only texts.
LEMMA ShapeKeeps ==
  ASSUME ShapeInv, NEW s \in Slot, \A r \in Slot \ {s} : calls'[r] = calls[r],
         Carries(calls'[s]) => TextOK(calls'[s].text),
         TextOK(content'), wiz' # NoForm => FormOK(wiz'), DOMAIN files' = File,
         \A f \in File : files'[f] # Absent => TextOK(files'[f])
  PROVE  ShapeInv'
<1>1. \A r \in Slot : Carries(calls'[r]) => TextOK(calls'[r].text)
  BY DEF ShapeInv
<1> QED
  BY <1>1 DEF ShapeInv

LEMMA ShapeOfSlot ==
  ASSUME ShapeInv, NEW s \in Slot, \A r \in Slot \ {s} : calls'[r] = calls[r],
         Carries(calls'[s]) => TextOK(calls'[s].text), UNCHANGED <<content, wiz, files>>
  PROVE  ShapeInv'
<1>1. /\ TextOK(content') /\ (wiz' # NoForm => FormOK(wiz')) /\ DOMAIN files' = File
      /\ \A f \in File : files'[f] # Absent => TextOK(files'[f])
  BY DEF ShapeInv
<1> QED
  BY <1>1, ShapeKeeps

\* A call that carries no text yet.
LEMMA NothingCarried ==
  ASSUME NEW k \in {"none", "load", "delete", "drop", "deploy"}, NEW i, NEW f, NEW t
  PROVE  ~Carries(Call(k, i, f, t))
BY DEF Carries, Call

LEMMA CallText ==
  ASSUME NEW k, NEW i, NEW f, NEW t
  PROVE  Call(k, i, f, t).text = t /\ Call(k, i, f, t).kind = k
BY DEF Call

LEMMA DoneShape ==
  ASSUME EditorTypeOK, NEW s \in Slot, Done(s)
  PROVE  ~Carries(calls'[s]) /\ \A r \in Slot \ {s} : calls'[r] = calls[r]
BY PutIs, NothingCarried DEF Done, Nothing

\* A dialog appears.
LEMMA MountShape ==
  ASSUME ShapeInv, EditorTypeOK, NEW s \in Slot, NEW f \in File, Mount(s, f), UNCHANGED files
  PROVE  ShapeInv'
<1>1. ~Carries(calls'[s]) /\ \A r \in Slot \ {s} : calls'[r] = calls[r]
  BY PutIs, NothingCarried DEF Mount, LoadIn
<1>2. TextOK(content') /\ wiz' = NoForm
  BY NoText DEF Mount
<1>3. DOMAIN files' = File /\ \A g \in File : files'[g] # Absent => TextOK(files'[g])
  BY DEF ShapeInv
<1> QED
  BY <1>1, <1>2, <1>3, ShapeKeeps

LEMMA AskShape ==
  ASSUME ShapeInv, EditorTypeOK, NEW s \in Slot, NEW f \in File,
         handleDeleteFile(s, f) \/ Deploy(s, f) \/ handleCreate(s, f)
           \/ handleSave(s) \/ handleApply(s) \/ handleDelete(s)
  PROVE  ShapeInv'
<1>1. UNCHANGED <<content, wiz, files>>
  BY DEF handleDeleteFile, Deploy, handleCreate, handleSave, handleApply, handleDelete, Send,
         dialog
<1>2. CASE handleDeleteFile(s, f) \/ Deploy(s, f) \/ handleDelete(s)
  <2>1. ~Carries(calls'[s]) /\ \A r \in Slot \ {s} : calls'[r] = calls[r]
    BY <1>2, PutIs, NothingCarried DEF handleDeleteFile, Deploy, handleDelete
  <2> QED
    BY <1>1, <2>1, ShapeOfSlot
<1>3. CASE handleCreate(s, f)
  <2>1. calls'[s].text = <<>> /\ \A r \in Slot \ {s} : calls'[r] = calls[r]
    BY <1>3, PutIs, CallText DEF handleCreate
  <2> QED
    BY <1>1, <2>1, NoText, ShapeOfSlot
<1>4. CASE handleSave(s) \/ handleApply(s)
  <2>1. PICK k : Send(s, k)
    BY <1>4 DEF handleSave, handleApply
  <2>2. calls'[s].text = content /\ \A r \in Slot \ {s} : calls'[r] = calls[r]
    BY <2>1, PutIs, CallText DEF Send
  <2>3. TextOK(content)
    BY DEF ShapeInv
  <2> QED
    BY <1>1, <2>2, <2>3, ShapeOfSlot
<1> QED
  BY <1>2, <1>3, <1>4

\* What is typed, and what the form and the text make of each other.
LEMMA TextShape ==
  ASSUME ShapeInv, UNCHANGED <<files, calls>>, TextOK(content'), wiz' # NoForm => FormOK(wiz')
  PROVE  ShapeInv'
BY DEF ShapeInv

LEMMA TypeShape ==
  ASSUME ShapeInv,
         (\E t \in Typed : SetContent(t)) \/ WizardEdit
           \/ (\E m \in {"wizard", "editor"} : handleModeChange(m))
  PROVE  ShapeInv'
<1>1. CASE \E t \in Typed : SetContent(t)
  <2>1. UNCHANGED <<files, calls, wiz>> /\ TextOK(content')
    BY <1>1, TextAssumption DEF SetContent
  <2>2. wiz' # NoForm => FormOK(wiz')
    BY <2>1 DEF ShapeInv
  <2> QED
    BY <2>1, <2>2, TextShape
<1>2. CASE WizardEdit
  <2>1. PICK d \in ConfigWizard(wiz) : handleWizardChange(d)
    BY <1>2 DEF WizardEdit
  <2>2. FormOK(wiz)
    BY <1>2 DEF WizardEdit, ShapeInv
  <2>3. FormOK(d)
    BY <2>2, EditIsForm
  <2>4. TextOK(wizardToQuadlet(d))
    BY <2>3, WrittenIsText
  <2> QED
    BY <2>1, <2>3, <2>4, TextShape DEF handleWizardChange
<1>3. CASE \E m \in {"wizard", "editor"} : handleModeChange(m)
  <2>1. TextOK(content) /\ FormOK(quadletToWizard(content))
    BY ReadIsForm DEF ShapeInv
  <2>2. wiz' = quadletToWizard(content) \/ wiz' = wiz
    BY <1>3 DEF handleModeChange
  <2>3. wiz' # NoForm => FormOK(wiz')
    BY <2>1, <2>2 DEF ShapeInv
  <2>4. UNCHANGED <<files, calls, content>>
    BY <1>3 DEF handleModeChange
  <2> QED
    BY <2>1, <2>3, <2>4, TextShape
<1> QED
  BY <1>1, <1>2, <1>3

LEMMA UserShape ==
  ASSUME ShapeInv, EditorTypeOK, User
  PROVE  ShapeInv'
<1>1. CASE \E s \in Slot, f \in File : OpenEdit(s, f)
  BY <1>1, MountShape DEF OpenEdit
<1>2. CASE \E s \in Slot, f \in File : handleDeleteFile(s, f) \/ Deploy(s, f) \/ handleCreate(s, f)
  BY <1>2, AskShape
<1>3. CASE \E s \in Slot : handleSave(s) \/ handleApply(s) \/ handleDelete(s)
  <2>1. \E f : f \in File
    BY <1>3 DEF handleSave, handleApply, handleDelete, Send, EditorTypeOK
  <2> QED
    BY <1>3, <2>1, AskShape
<1>4. CASE OpenCreate \/ CancelCreate \/ onClose
  BY <1>4, TextShape DEF OpenCreate, CancelCreate, onClose, Close, dialog, ShapeInv
<1>5. CASE (\E t \in Typed : SetContent(t)) \/ WizardEdit
             \/ (\E m \in {"wizard", "editor"} : handleModeChange(m))
  BY <1>5, TypeShape
<1> QED
  BY <1>1, <1>2, <1>3, <1>4, <1>5 DEF User

\* The server stores what it was sent, and answers with what it stores.
LEMMA ReplyIs ==
  ASSUME EditorTypeOK, NEW s \in Slot, NEW t, NEW o, Reply(s, t, o)
  PROVE  /\ \A r \in Slot \ {s} : calls'[r] = calls[r]
         /\ calls'[s].kind = calls[s].kind /\ calls'[s].text = t /\ calls'[s].ok = o
BY PutIs DEF Reply

LEMMA WriteShape ==
  ASSUME ShapeInv, EditorTypeOK, NEW s \in Slot, NEW f \in File, NEW t, NEW o,
         Writes(s, f, t, o), TextOK(t), UNCHANGED <<content, wiz>>
  PROVE  ShapeInv'
<1>1. (\A r \in Slot \ {s} : calls'[r] = calls[r]) /\ calls'[s].text = t
  BY ReplyIs DEF Writes
<1>2. DOMAIN files' = File /\ \A g \in File : files'[g] # Absent => TextOK(files'[g])
  BY DEF Writes, ShapeInv
<1>3. TextOK(content') /\ (wiz' # NoForm => FormOK(wiz'))
  BY DEF ShapeInv
<1> QED
  BY <1>1, <1>2, <1>3, ShapeKeeps

LEMMA RefuseShape ==
  ASSUME ShapeInv, EditorTypeOK, NEW s \in Slot, Refuses(s), UNCHANGED <<content, wiz>>,
         calls[s].kind \in {"save", "create", "apply", "delete", "drop"}
  PROVE  ShapeInv'
<1>1. /\ \A r \in Slot \ {s} : calls'[r] = calls[r]
      /\ calls'[s].text = calls[s].text /\ calls'[s].kind = calls[s].kind
  BY ReplyIs DEF Refuses
<1>2. Carries(calls'[s]) => Carries(calls[s])
  BY <1>1 DEF Carries
<1>3. Carries(calls[s]) => TextOK(calls[s].text)
  BY DEF ShapeInv
<1> QED
  BY <1>1, <1>2, <1>3, ShapeOfSlot DEF Refuses

LEMMA ServeShape ==
  ASSUME ShapeInv, EditorTypeOK, NEW s \in Slot, Serve(s)
  PROVE  ShapeInv'
<1>1. UNCHANGED <<content, wiz>>
  BY DEF Serve, dialog
<1>2. calls[s].kind # "none" /\ calls[s].file \in File
  BY DEF Serve, EditorTypeOK, CallOK
<1>3. CASE calls[s].kind \in {"load", "deploy"}
  <2>1. ReadFile(s)
    BY <1>3 DEF Serve
  <2>2. /\ \A r \in Slot \ {s} : calls'[r] = calls[r]
        /\ calls'[s].kind = calls[s].kind /\ calls'[s].text = files[calls[s].file]
        /\ calls'[s].ok = (files[calls[s].file] # Absent)
    BY <2>1, ReplyIs DEF ReadFile
  <2>3. Carries(calls'[s]) => calls'[s].ok
    BY <1>3, <2>2 DEF Carries
  <2>4. calls'[s].ok => TextOK(files[calls[s].file])
    BY <1>2, <2>2 DEF ShapeInv
  <2>5. Carries(calls'[s]) => TextOK(calls'[s].text)
    BY <2>2, <2>3, <2>4
  <2> QED
    BY <1>1, <2>1, <2>2, <2>5, ShapeOfSlot DEF ReadFile
<1>4. CASE calls[s].kind \in {"save", "create", "apply"}
  <2>1. WriteFile(s) \/ ApplyFile(s)
    BY <1>4 DEF Serve
  <2>2. TextOK(calls[s].text)
    BY <1>4 DEF Carries, ShapeInv
  <2>3. CASE Refuses(s)
    BY <1>1, <1>4, <2>3, RefuseShape
  <2>4. CASE \E ok \in BOOLEAN : Writes(s, calls[s].file, calls[s].text, ok)
    BY <1>1, <1>2, <2>2, <2>4, WriteShape
  <2> QED
    BY <2>1, <2>3, <2>4 DEF WriteFile, ApplyFile
<1>5. CASE calls[s].kind \in {"delete", "drop"}
  <2>1. DeleteFile(s)
    BY <1>5 DEF Serve
  <2>2. CASE Refuses(s)
    BY <1>1, <1>5, <2>2, RefuseShape
  <2>3. CASE ~Refuses(s)
    <3>1. files' = [files EXCEPT ![calls[s].file] = Absent] /\ Reply(s, Absent, TRUE)
      BY <2>1, <2>3 DEF DeleteFile
    <3>2. /\ \A r \in Slot \ {s} : calls'[r] = calls[r]
          /\ calls'[s].kind = calls[s].kind
      BY <3>1, ReplyIs
    <3>3. ~Carries(calls'[s])
      BY <1>5, <3>2 DEF Carries
    <3>4. DOMAIN files' = File /\ \A g \in File : files'[g] # Absent => TextOK(files'[g])
      BY <3>1 DEF ShapeInv
    <3>5. TextOK(content') /\ (wiz' # NoForm => FormOK(wiz'))
      BY <1>1 DEF ShapeInv
    <3> QED
      BY <3>2, <3>3, <3>4, <3>5, ShapeKeeps
  <2> QED
    BY <2>2, <2>3
<1> QED
  BY <1>3, <1>4, <1>5 DEF Serve

\* A call that gets on, to fetch the lists, carries what it carried.
LEMMA StepShape ==
  ASSUME ShapeInv, EditorTypeOK, NEW s \in Slot, Step(s, "refetch"),
         calls[s].kind \in {"apply", "create"}, UNCHANGED <<content, wiz, files>>
  PROVE  ShapeInv'
<1>1. /\ \A r \in Slot \ {s} : calls'[r] = calls[r]
      /\ calls'[s].text = calls[s].text
  <2>1. calls'[s] = [calls[s] EXCEPT !.phase = "refetch"]
    BY DEF EditorTypeOK, Step
  <2>2. calls[s] = [kind |-> calls[s].kind, inst |-> calls[s].inst, file |-> calls[s].file,
                    text |-> calls[s].text, phase |-> calls[s].phase, ok |-> calls[s].ok]
    BY DEF EditorTypeOK, CallOK
  <2>3. calls'[s].text = calls[s].text
    BY <2>1, <2>2
  <2> QED
    BY <2>3 DEF EditorTypeOK, Step
<1>2. TextOK(calls[s].text)
  BY DEF Carries, ShapeInv
<1> QED
  BY <1>1, <1>2, ShapeOfSlot

LEMMA AnswerShape ==
  ASSUME ShapeInv, EditorTypeOK, NEW s \in Slot, Answer(s)
  PROVE  ShapeInv'
<1>1. UNCHANGED files
  BY DEF Answer
<1>2. CASE Loaded(s)
  <2>1. ~Carries(calls'[s]) /\ \A r \in Slot \ {s} : calls'[r] = calls[r]
    BY <1>2, DoneShape DEF Loaded
  <2>2. CASE ~(calls[s].ok /\ Mine(calls[s]))
    BY <1>1, <1>2, <2>1, <2>2, ShapeOfSlot DEF Loaded
  <2>3. CASE calls[s].ok /\ Mine(calls[s])
    <3>1. TextOK(calls[s].text)
      BY <1>2, <2>3 DEF Loaded, Served, Carries, ShapeInv
    <3>2. content' = calls[s].text /\ wiz' = quadletToWizard(calls[s].text)
      BY <1>2, <2>3 DEF Loaded
    <3>3. TextOK(content') /\ FormOK(wiz')
      BY <3>1, <3>2, ReadIsForm
    <3>4. DOMAIN files' = File /\ \A g \in File : files'[g] # Absent => TextOK(files'[g])
      BY <1>1 DEF ShapeInv
    <3> QED
      BY <2>1, <3>3, <3>4, ShapeKeeps
  <2> QED
    BY <2>2, <2>3
<1>3. CASE Saved(s) \/ AppliedRefetched(s) \/ Deleted(s) \/ Dropped(s)
  <2>1. ~Carries(calls'[s]) /\ \A r \in Slot \ {s} : calls'[r] = calls[r]
    BY <1>3, DoneShape DEF Saved, AppliedRefetched, Deleted, Dropped
  <2>2. UNCHANGED <<content, wiz>>
    BY <1>3 DEF Saved, AppliedRefetched, Deleted, Dropped, Close, dialog
  <2> QED
    BY <1>1, <2>1, <2>2, ShapeOfSlot
<1>4. CASE Applied(s) \/ Created(s)
  <2>1. UNCHANGED <<content, wiz>> /\ calls[s].kind \in {"apply", "create"}
    BY <1>4 DEF Applied, Created, Served, dialog
  <2>2. CASE Step(s, "refetch")
    BY <1>1, <2>1, <2>2, StepShape
  <2>3. CASE Done(s)
    BY <1>1, <2>1, <2>3, DoneShape, ShapeOfSlot
  <2> QED
    BY <1>4, <2>2, <2>3 DEF Applied, Created
<1>5. CASE DeployRead(s)
  <2>1. UNCHANGED <<content, wiz>>
    BY <1>5 DEF DeployRead, dialog
  <2>2. CASE calls[s].ok
    <3>1. TextOK(calls[s].text)
      BY <1>5, <2>2 DEF DeployRead, Served, Carries, ShapeInv
    <3>2. Put(s, Call("apply", 0, calls[s].file, calls[s].text))
      BY <1>5, <2>2 DEF DeployRead
    <3>3. calls'[s].text = calls[s].text /\ \A r \in Slot \ {s} : calls'[r] = calls[r]
      BY <3>2, PutIs, CallText
    <3> QED
      BY <1>1, <2>1, <3>1, <3>3, ShapeOfSlot
  <2>3. CASE ~calls[s].ok
    BY <1>1, <1>5, <2>1, <2>3, DoneShape, ShapeOfSlot DEF DeployRead
  <2> QED
    BY <2>2, <2>3
<1>6. CASE CreatedRefetched(s)
  <2>1. calls[s].file \in File
    BY <1>6 DEF CreatedRefetched, EditorTypeOK, CallOK
  <2>2. SetEditFile(s, calls[s].file)
    BY <1>6 DEF CreatedRefetched
  <2>3. CASE Mount(s, calls[s].file)
    BY <1>1, <2>1, <2>3, MountShape
  <2>4. CASE LoadIn(s, inst, calls[s].file) /\ UNCHANGED <<content, wiz>>
    <3>1. ~Carries(calls'[s]) /\ \A r \in Slot \ {s} : calls'[r] = calls[r]
      BY <2>4, PutIs, NothingCarried DEF LoadIn
    <3> QED
      BY <1>1, <2>4, <3>1, ShapeOfSlot
  <2>5. CASE Done(s) /\ UNCHANGED dialog
    BY <1>1, <2>5, DoneShape, ShapeOfSlot DEF dialog
  <2> QED
    BY <2>2, <2>3, <2>4, <2>5 DEF SetEditFile
<1> QED
  BY <1>2, <1>3, <1>4, <1>5, <1>6 DEF Answer

LEMMA EditorInitShape ==
  ASSUME EditorInit
  PROVE  ShapeInv
<1>1. TextOK(content) /\ wiz = NoForm
  BY NoText DEF EditorInit
<1>2. DOMAIN files = File /\ \A f \in File : files[f] # Absent => TextOK(files[f])
  BY TextAssumption DEF EditorInit
<1>3. \A s \in Slot : ~Carries(calls[s])
  BY NothingCarried DEF EditorInit, Nothing
<1> QED
  BY <1>1, <1>2, <1>3 DEF ShapeInv

LEMMA EditorNextShape ==
  ASSUME ShapeInv, EditorTypeOK, EditorNext
  PROVE  ShapeInv'
BY UserShape, ServeShape, AnswerShape DEF EditorNext

LEMMA EditorStutterShape ==
  ASSUME ShapeInv, UNCHANGED editorVars
  PROVE  ShapeInv'
BY DEF ShapeInv, editorVars, dialog

-----------------------------------------------------------------------------
(* The pages of lists: PagesInv.                                           *)

Targets == Item \cup {Shut, Blank}

\* Dialogs open and close.
LEMMA ShowsOnly ==
  ASSUME PagesInv, UNCHANGED <<page, ver, data, fetch, muts>>, mounted' \in BOOLEAN,
         mounted' => mounted, open' \in [Dialog -> Targets]
  PROVE  PagesInv'
BY DEF PagesInv, PagesTypeOK, DoneIsShown, Announced, ListInv, RefetchInv, Targets

LEMMA ShowKeeps ==
  ASSUME PagesInv, NEW d \in Dialog, NEW t \in Targets, Show(d, t)
  PROVE  PagesInv'
BY ShowsOnly DEF Show, PagesInv, PagesTypeOK, Targets

LEMMA CancelKeeps ==
  ASSUME PagesInv, NEW d \in Dialog, Cancel(d)
  PROVE  PagesInv'
BY ShowsOnly DEF Cancel, PagesInv, PagesTypeOK, Targets

\* A call begins.
LEMMA StartKeeps ==
  ASSUME PagesInv, NEW k \in MutKind, NEW t \in Targets, Start(k, t),
         open' \in [Dialog -> Targets]
  PROVE  PagesInv'
<1>1. PICK m \in Mutation : muts' = [muts EXCEPT ![m] = Mut(k, t)]
  BY DEF Start
<1>2. Mut(k, t) \in [kind : MutKind \cup {"none"}, item : Targets,
                     phase : {"asked", "served", "refetching", "settled"},
                     ok : BOOLEAN, since : Nat, stale : BOOLEAN]
  BY DEF Mut
<1>3. PagesTypeOK'
  BY <1>1, <1>2 DEF PagesInv, PagesTypeOK, Start, Targets
<1>4. \A o \in Mutation \ {m} : muts'[o] = muts[o]
  BY <1>1 DEF PagesInv, PagesTypeOK
<1>5. muts'[m].phase = "asked" /\ muts'[m].since = 0
  BY <1>1 DEF PagesInv, PagesTypeOK, Mut
<1>6. ver >= 0
  BY DEF PagesInv, PagesTypeOK
<1>7. DoneIsShown' /\ ListInv' /\ RefetchInv'
  BY <1>4, <1>5, <1>6 DEF PagesInv, DoneIsShown, Announced, ListInv, RefetchInv, Start
<1> QED
  BY <1>3, <1>7 DEF PagesInv

LEMMA AskKeeps ==
  ASSUME PagesInv, NEW k \in MutKind, NEW t \in Targets, Ask(k, t)
  PROVE  PagesInv'
BY StartKeeps DEF Ask, PagesInv, PagesTypeOK, Targets

\* What a fetch that is started, or not started anew, leaves as it was.
LEMMA RefetchingFacts ==
  ASSUME PagesInv, fetch' = Refetching, UNCHANGED <<ver, data>>
  PROVE  /\ fetch' \in [phase : {"none", "asked", "served"}, list : Nat \cup {Unloaded},
                        ok : BOOLEAN]
         /\ fetch'.phase # "none"
         /\ fetch'.ok => fetch' = fetch /\ FirstLoad
         /\ ~FirstLoad => ~fetch'.ok
         /\ data # Unloaded => data' <= ver'
         /\ fetch'.ok => /\ fetch'.phase = "served" /\ fetch'.list \in Nat
                         /\ fetch'.list <= ver' /\ (data' # Unloaded => data' <= fetch'.list)
<1>1. CASE FirstLoad
  BY <1>1 DEF Refetching, FirstLoad, PagesInv, PagesTypeOK, ListInv
<1>2. CASE ~FirstLoad
  BY <1>2 DEF Refetching, NewFetch, Fetch, PagesInv, PagesTypeOK, ListInv
<1> QED
  BY <1>1, <1>2

\* The fetch is started anew while the calls stay as they are.
LEMMA RefreshOnly ==
  ASSUME PagesInv, fetch' = Refetching, UNCHANGED <<page, ver, data, muts>>,
         mounted' \in BOOLEAN, mounted' => mounted, open' \in [Dialog -> Targets]
  PROVE  PagesInv'
<1>1. PagesTypeOK'
  BY RefetchingFacts DEF PagesInv, PagesTypeOK, Targets
<1>2. DoneIsShown'
  BY DEF PagesInv, DoneIsShown, Announced
<1>3. ListInv'
  BY RefetchingFacts DEF PagesInv, ListInv
<1>4. RefetchInv'
  BY RefetchingFacts DEF PagesInv, RefetchInv
<1> QED
  BY <1>1, <1>2, <1>3, <1>4 DEF PagesInv

LEMMA RefreshKeeps ==
  ASSUME PagesInv, Refresh
  PROVE  PagesInv'
BY RefreshOnly DEF Refresh, PagesInv, PagesTypeOK, Targets

-----------------------------------------------------------------------------
(* The clicks.                                                             *)

LEMMA Kinds ==
  {"create", "remove", "import", "export", "prune", "connect", "disconnect", "pull", "update",
   "act", "autostart", "terminal", "convert", "compose", "apply", "applyAll"} \subseteq MutKind
BY DEF MutKind, Page, Calls, VolumesCalls, NetworksCalls, ImagesCalls, ContainersCalls

LEMMA RowsAreItems == Rows \subseteq Targets
BY DEF Rows, Targets

LEMMA OpenTargets ==
  ASSUME PagesInv, NEW d \in Dialog
  PROVE  open[d] \in Targets
BY DEF PagesInv, PagesTypeOK, Targets

LEMMA DeleteDialogKeeps ==
  ASSUME PagesInv, DeleteDialog
  PROVE  PagesInv'
<1>1. "delete" \in Dialog
  BY DEF Dialog
<1> QED
  BY <1>1, CancelKeeps, AskKeeps, OpenTargets, Kinds DEF DeleteDialog

LEMMA VolumesKeep ==
  ASSUME PagesInv, VolumesPage
  PROVE  PagesInv'
<1>1. {"create", "import", "delete"} \subseteq Dialog
  BY DEF Dialog
<1>2. Shut \in Targets /\ Blank \in Targets /\ Item \subseteq Targets
  BY DEF Targets
<1>3. CASE VolumesTable
  BY <1>1, <1>2, <1>3, RowsAreItems, ShowKeeps, AskKeeps, RefreshKeeps, Kinds
     DEF VolumesTable, PruneButton
<1>4. CASE VolumesCreate \/ VolumesImport
  BY <1>1, <1>2, <1>4, CancelKeeps, AskKeeps, OpenTargets, Kinds
     DEF VolumesCreate, VolumesImport
<1>5. CASE DeleteDialog
  BY <1>5, DeleteDialogKeeps
<1> QED
  BY <1>3, <1>4, <1>5 DEF VolumesPage

LEMMA NetworksKeep ==
  ASSUME PagesInv, NetworksPage
  PROVE  PagesInv'
<1>1. {"create", "connect", "disconnect", "delete"} \subseteq Dialog
  BY DEF Dialog
<1>2. Shut \in Targets /\ Blank \in Targets /\ Item \subseteq Targets
  BY DEF Targets
<1>3. CASE NetworksTable
  BY <1>1, <1>2, <1>3, RowsAreItems, ShowKeeps, AskKeeps, RefreshKeeps, Kinds
     DEF NetworksTable, PruneButton
<1>4. CASE NetworksCreate \/ NetworksConnect \/ NetworksDisconnect
  BY <1>1, <1>2, <1>4, CancelKeeps, AskKeeps, OpenTargets, Kinds
     DEF NetworksCreate, NetworksConnect, NetworksDisconnect
<1>5. CASE DeleteDialog
  BY <1>5, DeleteDialogKeeps
<1> QED
  BY <1>3, <1>4, <1>5 DEF NetworksPage

LEMMA ImagesKeep ==
  ASSUME PagesInv, ImagesPage
  PROVE  PagesInv'
<1>1. {"create", "delete"} \subseteq Dialog
  BY DEF Dialog
<1>2. Shut \in Targets /\ Blank \in Targets /\ Item \subseteq Targets
  BY DEF Targets
<1>3. CASE ImagesTable
  BY <1>1, <1>2, <1>3, RowsAreItems, ShowKeeps, AskKeeps, RefreshKeeps, Kinds DEF ImagesTable
<1>4. CASE ImagesPull
  BY <1>1, <1>2, <1>4, CancelKeeps, AskKeeps, Kinds DEF ImagesPull
<1>5. CASE DeleteDialog
  BY <1>5, DeleteDialogKeeps
<1> QED
  BY <1>3, <1>4, <1>5 DEF ImagesPage

LEMMA ContainersKeep ==
  ASSUME PagesInv, ContainersPage
  PROVE  PagesInv'
<1>1. {"create", "delete", "compose", "convert"} \subseteq Dialog
  BY DEF Dialog
<1>2. Shut \in Targets /\ Blank \in Targets /\ Item \subseteq Targets
  BY DEF Targets
<1>3. CASE ContainersHeader
  BY <1>1, <1>2, <1>3, ShowKeeps, RefreshKeeps DEF ContainersHeader
<1>4. CASE ContainersRow
  BY <1>1, <1>2, <1>4, RowsAreItems, ShowKeeps, AskKeeps, Kinds DEF ContainersRow
<1>5. CASE ContainersDelete
  <2>1. CASE Cancel("delete")
    BY <1>1, <2>1, CancelKeeps
  <2>2. CASE Start("remove", open["delete"]) /\ open' = [open EXCEPT !["delete"] = Shut]
    <3>1. open' \in [Dialog -> Targets]
      BY <1>1, <1>2, <2>2 DEF PagesInv, PagesTypeOK, Targets
    <3> QED
      BY <1>1, <2>2, <3>1, StartKeeps, OpenTargets, Kinds
  <2> QED
    BY <1>5, <2>1, <2>2 DEF ContainersDelete
<1>6. CASE CreateContainerDialog \/ ImportComposeDialog \/ ConvertPreviewDialog
  BY <1>1, <1>2, <1>6, CancelKeeps, AskKeeps, Kinds
     DEF CreateContainerDialog, ImportComposeDialog, ConvertPreviewDialog
<1> QED
  BY <1>3, <1>4, <1>5, <1>6 DEF ContainersPage

-----------------------------------------------------------------------------
(* Fetches and answers.                                                    *)

LEMMA BecomesKeeps ==
  ASSUME PagesInv, NEW m \in Mutation, NEW p \in {"asked", "served", "refetching", "settled"},
         NEW o \in BOOLEAN, NEW n \in Nat, NEW e \in BOOLEAN, Becomes(m, p, o, n, e)
  PROVE  /\ muts' \in [Mutation -> [kind : MutKind \cup {"none"}, item : Item \cup {Shut, Blank},
                                    phase : {"asked", "served", "refetching", "settled"},
                                    ok : BOOLEAN, since : Nat, stale : BOOLEAN]]
         /\ muts'[m].phase = p /\ muts'[m].since = n /\ muts'[m].stale = e
         /\ \A r \in Mutation \ {m} : muts'[r] = muts[r]
<1> DEFINE c == [kind |-> muts[m].kind, item |-> muts[m].item, phase |-> p, ok |-> o,
                 since |-> n, stale |-> e]
<1>1. /\ c \in [kind : MutKind \cup {"none"}, item : Item \cup {Shut, Blank},
                phase : {"asked", "served", "refetching", "settled"},
                ok : BOOLEAN, since : Nat, stale : BOOLEAN]
      /\ c.phase = p /\ c.since = n /\ c.stale = e
  BY DEF PagesInv, PagesTypeOK
<1>2. muts' = [muts EXCEPT ![m] = c]
  BY DEF Becomes
<1> HIDE DEF c
<1> QED
  BY <1>1, <1>2 DEF PagesInv, PagesTypeOK

LEMMA FetchServeKeeps ==
  ASSUME PagesInv, FetchServe
  PROVE  PagesInv'
<1>1. /\ fetch' \in [phase : {"none", "asked", "served"}, list : Nat \cup {Unloaded},
                     ok : BOOLEAN]
      /\ fetch'.phase = "served"
      /\ fetch'.ok => fetch'.list = ver
  <2>1. CASE fetch' = Fetch("served", ver, TRUE)
    BY <2>1 DEF Fetch, PagesInv, PagesTypeOK
  <2>2. CASE fetch' = Fetch("served", Unloaded, FALSE)
    BY <2>2 DEF Fetch
  <2> QED
    BY <2>1, <2>2 DEF FetchServe
<1>2. PagesTypeOK'
  BY <1>1 DEF PagesInv, PagesTypeOK, FetchServe
<1>3. DoneIsShown' /\ ListInv'
  BY <1>1 DEF PagesInv, PagesTypeOK, DoneIsShown, Announced, ListInv, FetchServe
<1>4. RefetchInv'
  BY <1>1 DEF PagesInv, PagesTypeOK, ListInv, RefetchInv, FetchServe
<1> QED
  BY <1>2, <1>3, <1>4 DEF PagesInv

LEMMA IntervalKeeps ==
  ASSUME PagesInv, Interval
  PROVE  PagesInv'
<1>1. /\ fetch' \in [phase : {"none", "asked", "served"}, list : Nat \cup {Unloaded},
                     ok : BOOLEAN]
      /\ fetch'.phase = "asked" /\ ~fetch'.ok
  BY DEF Interval, NewFetch, Fetch
<1> QED
  BY <1>1 DEF PagesInv, PagesTypeOK, DoneIsShown, Announced, ListInv, RefetchInv, Interval

LEMMA FetchAnswerKeeps ==
  ASSUME PagesInv, FetchAnswer
  PROVE  PagesInv'
<1>1. /\ fetch' \in [phase : {"none", "asked", "served"}, list : Nat \cup {Unloaded},
                     ok : BOOLEAN]
      /\ fetch'.phase = "none" /\ ~fetch'.ok
  BY DEF FetchAnswer, NoFetch, Fetch
<1>2. data' \in Nat \cup {Unloaded} /\ data' = IF fetch.ok THEN fetch.list ELSE data
  BY DEF FetchAnswer, PagesInv, PagesTypeOK
<1>3. ASSUME NEW m \in Mutation
      PROVE  /\ muts'[m] \in [kind : MutKind \cup {"none"}, item : Item \cup {Shut, Blank},
                              phase : {"asked", "served", "refetching", "settled"},
                              ok : BOOLEAN, since : Nat, stale : BOOLEAN]
             /\ muts'[m].since = muts[m].since
             /\ muts'[m].kind = muts[m].kind /\ muts'[m].ok = muts[m].ok
             /\ muts'[m].phase # "refetching"
             /\ muts'[m].phase = "settled" /\ ~muts'[m].stale =>
                  \/ muts[m].phase = "settled" /\ ~muts[m].stale
                  \/ muts[m].phase = "refetching" /\ ~muts[m].stale /\ fetch.ok
  <2>1. muts'[m] = IF muts[m].phase # "refetching" THEN muts[m]
                   ELSE [muts[m] EXCEPT !.phase = "settled",
                                        !.stale = muts[m].stale \/ ~fetch.ok]
    BY DEF FetchAnswer
  <2>2. muts[m] \in [kind : MutKind \cup {"none"}, item : Item \cup {Shut, Blank},
                     phase : {"asked", "served", "refetching", "settled"},
                     ok : BOOLEAN, since : Nat, stale : BOOLEAN]
    BY DEF PagesInv, PagesTypeOK
  <2> QED
    BY <2>1, <2>2
<1>4. DOMAIN muts' = Mutation /\ muts' = [m \in Mutation |-> muts'[m]]
  BY DEF FetchAnswer
<1>5. PagesTypeOK'
  BY <1>1, <1>2, <1>3, <1>4 DEF FetchAnswer, PagesInv, PagesTypeOK
<1>6. DoneIsShown'
  <2>1. UNCHANGED <<page, mounted>>
    BY DEF FetchAnswer
  <2> QED
    BY <1>2, <1>3, <2>1, PagesAssumption
       DEF PagesInv, PagesTypeOK, DoneIsShown, Announced, ListInv, RefetchInv
<1>7. ListInv'
  <2>1. ver' = ver
    BY DEF FetchAnswer
  <2> QED
    BY <2>1, <1>1, <1>2, <1>3 DEF PagesInv, ListInv
<1>8. RefetchInv'
  BY <1>3 DEF RefetchInv
<1> QED
  BY <1>5, <1>6, <1>7, <1>8 DEF PagesInv

-----------------------------------------------------------------------------
(* The calls.                                                              *)

LEMMA MutServeKeeps ==
  ASSUME PagesInv, NEW m \in Mutation, MutServe(m)
  PROVE  PagesInv'
<1>1. PICK ok \in BOOLEAN, changed \in BOOLEAN :
        /\ ver' = IF changed THEN ver + 1 ELSE ver
        /\ Becomes(m, "served", ok, ver', FALSE)
  BY DEF MutServe
<1>2. ver' \in Nat /\ ver' >= ver
  BY <1>1 DEF PagesInv, PagesTypeOK
<1>3. muts' \in [Mutation -> [kind : MutKind \cup {"none"}, item : Item \cup {Shut, Blank},
                              phase : {"asked", "served", "refetching", "settled"},
                              ok : BOOLEAN, since : Nat, stale : BOOLEAN]]
  BY <1>1, <1>2, BecomesKeeps
<1>4. /\ muts'[m].phase = "served" /\ muts'[m].since = ver'
      /\ \A o \in Mutation \ {m} : muts'[o] = muts[o]
  <2>1. muts'[m].phase = "served"
    BY <1>1, <1>2, BecomesKeeps
  <2>2. muts'[m].since = ver'
    BY <1>1 DEF Becomes, PagesInv, PagesTypeOK
  <2>3. \A o \in Mutation \ {m} : muts'[o] = muts[o]
    BY <1>1, <1>2, BecomesKeeps
  <2> QED
    BY <2>1, <2>2, <2>3
<1>5. PagesTypeOK'
  BY <1>2, <1>3 DEF MutServe, PagesInv, PagesTypeOK
<1>6. DoneIsShown' /\ RefetchInv'
  BY <1>4 DEF MutServe, PagesInv, DoneIsShown, Announced, RefetchInv
<1>7. ListInv'
  BY <1>2, <1>4 DEF MutServe, PagesInv, PagesTypeOK, ListInv
<1> QED
  BY <1>5, <1>6, <1>7 DEF PagesInv

LEMMA OthersKeeps ==
  ASSUME PagesInv, Others
  PROVE  PagesInv'
<1>1. ver' \in Nat /\ ver' >= ver
  BY DEF Others, PagesInv, PagesTypeOK
<1> QED
  BY <1>1 DEF Others, PagesInv, PagesTypeOK, DoneIsShown, Announced, ListInv, RefetchInv

LEMMA LeaveKeeps ==
  ASSUME PagesInv, Leave
  PROVE  PagesInv'
BY ShowsOnly DEF Leave, PagesInv, PagesTypeOK, Targets

LEMMA MutAnswerKeeps ==
  ASSUME PagesInv, NEW m \in Mutation, MutAnswer(m)
  PROVE  PagesInv'
<1>1. CASE muts[m].ok /\ mounted /\ muts[m].kind \in Invalidates[page]
  <2>1. /\ fetch' = Refetching /\ UNCHANGED <<ver, data>>
        /\ Becomes(m, "refetching", TRUE, muts[m].since, FirstLoad)
    BY <1>1 DEF MutAnswer
  <2>2. FirstLoad \in BOOLEAN /\ muts[m].since \in Nat
    BY DEF FirstLoad, PagesInv, PagesTypeOK
  <2>3. muts' \in [Mutation -> [kind : MutKind \cup {"none"}, item : Item \cup {Shut, Blank},
                                phase : {"asked", "served", "refetching", "settled"},
                                ok : BOOLEAN, since : Nat, stale : BOOLEAN]]
    BY <2>1, <2>2, BecomesKeeps
  <2>4. /\ muts'[m].phase = "refetching" /\ muts'[m].stale = FirstLoad
        /\ muts'[m].since = muts[m].since
        /\ \A o \in Mutation \ {m} : muts'[o] = muts[o]
    <3>1. /\ muts'[m].phase = "refetching"
          /\ \A o \in Mutation \ {m} : muts'[o] = muts[o]
      BY <2>1 DEF Becomes, PagesInv, PagesTypeOK
    <3>2. muts'[m].since = muts[m].since
      BY <2>1 DEF Becomes, PagesInv, PagesTypeOK
    <3>3. muts'[m].stale = FirstLoad
      <4>1. muts'[m] = [kind |-> muts[m].kind, item |-> muts[m].item, phase |-> "refetching",
                        ok |-> TRUE, since |-> muts[m].since, stale |-> FirstLoad]
        BY <2>1 DEF Becomes, PagesInv, PagesTypeOK
      <4> QED
        BY <2>2, <4>1
    <3> QED
      BY <3>1, <3>2, <3>3
  <2>5. PagesTypeOK'
    BY <2>1, <2>3, RefetchingFacts DEF MutAnswer, PagesInv, PagesTypeOK
  <2>6. DoneIsShown'
    BY <2>1, <2>4 DEF MutAnswer, PagesInv, DoneIsShown, Announced
  <2>7. ListInv'
    <3>1. \A o \in Mutation : muts'[o].since <= ver'
      BY <2>1, <2>4 DEF PagesInv, ListInv
    <3> QED
      BY <2>1, <3>1, RefetchingFacts DEF ListInv
  <2>8. RefetchInv'
    BY <2>1, <2>4, RefetchingFacts DEF PagesInv, RefetchInv
  <2> QED
    BY <2>5, <2>6, <2>7, <2>8 DEF PagesInv
<1>2. CASE ~(muts[m].ok /\ mounted /\ muts[m].kind \in Invalidates[page])
  <2>1. /\ Becomes(m, "settled", muts[m].ok, muts[m].since, FALSE)
        /\ fetch' = fetch
    BY <1>2 DEF MutAnswer
  <2>2. muts[m].ok \in BOOLEAN /\ muts[m].since \in Nat
    BY DEF PagesInv, PagesTypeOK
  <2>3. muts' \in [Mutation -> [kind : MutKind \cup {"none"}, item : Item \cup {Shut, Blank},
                                phase : {"asked", "served", "refetching", "settled"},
                                ok : BOOLEAN, since : Nat, stale : BOOLEAN]]
    BY <2>1, <2>2, BecomesKeeps
  <2>4. /\ muts'[m].phase = "settled" /\ muts'[m].since = muts[m].since
        /\ muts'[m].kind = muts[m].kind /\ muts'[m].ok = muts[m].ok
        /\ \A o \in Mutation \ {m} : muts'[o] = muts[o]
    BY <2>1 DEF Becomes, PagesInv, PagesTypeOK
  <2> QED
    BY <1>2, <2>1, <2>3, <2>4
       DEF MutAnswer, PagesInv, PagesTypeOK, DoneIsShown, Announced, ListInv, RefetchInv
<1> QED
  BY <1>1, <1>2

\* A call ends and its record is cleared.
LEMMA MutSettleKeeps ==
  ASSUME PagesInv, NEW m \in Mutation, MutSettle(m)
  PROVE  PagesInv'
<1>1. /\ muts' = [muts EXCEPT ![m] = Idle]
      /\ UNCHANGED <<page, ver, data>> /\ mounted' \in BOOLEAN /\ (mounted' => mounted)
  BY DEF MutSettle, PagesInv, PagesTypeOK
<1>2. Idle \in [kind : MutKind \cup {"none"}, item : Item \cup {Shut, Blank},
                phase : {"asked", "served", "refetching", "settled"},
                ok : BOOLEAN, since : Nat, stale : BOOLEAN]
      /\ Idle.phase = "asked" /\ Idle.since = 0
  BY DEF Idle, Mut
<1>3. /\ muts' \in [Mutation -> [kind : MutKind \cup {"none"}, item : Item \cup {Shut, Blank},
                                 phase : {"asked", "served", "refetching", "settled"},
                                 ok : BOOLEAN, since : Nat, stale : BOOLEAN]]
      /\ muts'[m].phase = "asked" /\ muts'[m].since = 0
      /\ \A o \in Mutation \ {m} : muts'[o] = muts[o]
  BY <1>1, <1>2 DEF PagesInv, PagesTypeOK
<1>4. open' \in [Dialog -> Item \cup {Shut, Blank}]
  <2>1. muts[m].item \in Item \cup {Shut, Blank}
    BY DEF PagesInv, PagesTypeOK
  <2> QED
    BY <2>1 DEF MutSettle, PagesInv, PagesTypeOK
<1>5. ver >= 0
  BY DEF PagesInv, PagesTypeOK
<1>6. CASE fetch' = fetch
  BY <1>1, <1>3, <1>4, <1>5, <1>6
     DEF PagesInv, PagesTypeOK, DoneIsShown, Announced, ListInv, RefetchInv
<1>7. CASE fetch' = Refetching
  <2>1. PagesTypeOK'
    BY <1>1, <1>3, <1>4, <1>7, RefetchingFacts DEF PagesInv, PagesTypeOK
  <2>2. DoneIsShown'
    BY <1>1, <1>3 DEF PagesInv, DoneIsShown, Announced
  <2>3. ListInv'
    BY <1>1, <1>3, <1>5, <1>7, RefetchingFacts DEF PagesInv, ListInv
  <2>4. RefetchInv'
    BY <1>1, <1>3, <1>7, RefetchingFacts DEF PagesInv, RefetchInv
  <2> QED
    BY <2>1, <2>2, <2>3, <2>4 DEF PagesInv
<1> QED
  BY <1>6, <1>7 DEF MutSettle

-----------------------------------------------------------------------------
LEMMA PagesInitInv ==
  ASSUME PagesInit
  PROVE  PagesInv
<1>1. \A m \in Mutation : muts[m] = Idle
  BY DEF PagesInit
<1>2. Idle \in [kind : MutKind \cup {"none"}, item : Item \cup {Shut, Blank},
                phase : {"asked", "served", "refetching", "settled"},
                ok : BOOLEAN, since : Nat, stale : BOOLEAN]
      /\ Idle.phase = "asked" /\ Idle.since = 0
  BY DEF Idle, Mut
<1>3. fetch \in [phase : {"none", "asked", "served"}, list : Nat \cup {Unloaded}, ok : BOOLEAN]
      /\ ~fetch.ok
  BY DEF PagesInit, NewFetch, Fetch
<1>4. PagesTypeOK
  BY <1>2, <1>3 DEF PagesInit, PagesTypeOK
<1>5. DoneIsShown /\ ListInv /\ RefetchInv
  BY <1>1, <1>2, <1>3 DEF PagesInit, DoneIsShown, Announced, ListInv, RefetchInv
<1> QED
  BY <1>4, <1>5 DEF PagesInv

LEMMA PagesNextInv ==
  ASSUME PagesInv, PagesNext
  PROVE  PagesInv'
<1>1. CASE Clicks
  BY <1>1, VolumesKeep, NetworksKeep, ImagesKeep, ContainersKeep DEF Clicks
<1>2. CASE ~Clicks
  BY <1>2, LeaveKeeps, OthersKeeps, IntervalKeeps, FetchServeKeeps, FetchAnswerKeeps,
     MutServeKeeps, MutAnswerKeeps, MutSettleKeeps DEF PagesNext
<1> QED
  BY <1>1, <1>2

-----------------------------------------------------------------------------
(* The browser.                                                            *)

LEMMA InitInv == Init => IInv
BY EditorInitInv, EditorInitShape, PagesInitInv DEF Init, IInv

LEMMA PagesStutterInv ==
  ASSUME PagesInv, UNCHANGED pagesVars
  PROVE  PagesInv'
BY ShowsOnly DEF pagesVars, PagesInv, PagesTypeOK, Targets

LEMMA NextInv ==
  ASSUME IInv, [Next]_vars
  PROVE  IInv'
<1>1. CASE route = "files" /\ EditorNext /\ UNCHANGED <<route, pagesVars>>
  BY <1>1, EditorNextInv, EditorNextShape, PagesStutterInv DEF IInv, EditorInv
<1>2. CASE route = "lists" /\ PagesNext /\ UNCHANGED <<route, editorVars>>
  BY <1>2, EditorStutterInv, EditorStutterShape, PagesNextInv DEF IInv
<1>3. CASE UNCHANGED vars
  BY <1>3, EditorStutterInv, EditorStutterShape, PagesStutterInv DEF IInv, vars
<1> QED
  BY <1>1, <1>2, <1>3 DEF Next

\* The invariant holds in every reachable state of both kinds of page.
THEOREM Invariance == Spec => []IInv
<1>1. Init => IInv
  BY InitInv
<1>2. IInv /\ [Next]_vars => IInv'
  BY NextInv
<1> QED
  BY <1>1, <1>2, PTL DEF Spec

\* A form that is shown was made from the text of its dialog, or that text from it.
THEOREM FormAgrees == Spec => []FormMatchesText
<1>1. IInv => FormMatchesText
  BY DEF IInv, EditorInv
<1> QED
  BY <1>1, Invariance, PTL

\* When the open dialog of one file (FileEditDialog.tsx) shows the text of another, its own is
\* being loaded or could not be, or a load asked for under an earlier name came after it: a
\* dialog opened anew never shows what was loaded for one that was closed.
THEOREM TextIsOwn == Spec => []OwnText
<1>1. IInv => OwnText
  BY DEF IInv, EditorInv
<1> QED
  BY <1>1, Invariance, PTL

\* Save and Apply are disabled exactly while one of the dialog's calls is under way.
THEOREM ButtonsFollowCalls == Spec => []SavingInv
<1>1. IInv => SavingInv
  BY DEF IInv, EditorInv
<1> QED
  BY <1>1, Invariance, PTL

\* A form that is shown, in any reachable state, is written to a text that is read back to the
\* same form's text: switching views for ever changes nothing, but for the values PutBack names.
THEOREM FormStaysStable == Spec => []FormIsStable
<1>1. IInv => FormIsStable
  BY FormsAreStable DEF IInv, ShapeInv, FormIsStable
<1> QED
  BY <1>1, Invariance, PTL

\* The text of the dialog, in any reachable state, loses no line that the form has a field for
\* when it is shown as a form and written again (convert.ts), but for all lines but the last of
\* After, Requires, Wants and Network, and the options of a health check without a command.
THEOREM TextStaysWhole == Spec => []FormKeepsText
<1>1. IInv => FormKeepsText
  BY TextsAreKept DEF IInv, ShapeInv, FormKeepsText
<1> QED
  BY <1>1, Invariance, PTL

\* Every text that is shown, stored or on its way can be taken apart by the form, and the form
\* holds only what its panels and such texts put there: the conversions are applied to nothing else.
THEOREM ShapesStay == Spec => []ShapeInv
<1>1. IInv => ShapeInv
  BY DEF IInv
<1> QED
  BY <1>1, Invariance, PTL

\* What Save and Apply send while the form is shown opens again as a form that writes the same
\* text as the one shown, but for the values PutBack names.
SavedFormOpensSame ==
  file # Closed /\ mode = "wizard" /\ wiz # NoForm /\ content # <<>> =>
    PutBack(wiz) \/ wizardToQuadlet(quadletToWizard(content)) = wizardToQuadlet(wiz)

\* It does so in every reachable state: FormMatchesText says which of form and text was made
\* from the other, and FormsAreStable what that is worth.
THEOREM SavedFormComesBack == Spec => []SavedFormOpensSame
<1>1. ASSUME IInv, file # Closed, mode = "wizard", wiz # NoForm, content # <<>>
      PROVE  PutBack(wiz) \/ wizardToQuadlet(quadletToWizard(content)) = wizardToQuadlet(wiz)
  <2>1. CASE content = wizardToQuadlet(wiz)
    <3>1. WrittenTextIsStable(wiz)
      BY <1>1, FormsAreStable DEF IInv, ShapeInv
    <3> QED
      BY <2>1, <3>1 DEF WrittenTextIsStable
  <2>2. CASE wiz = quadletToWizard(content)
    BY <2>2
  <2> QED
    BY <1>1, <2>1, <2>2 DEF IInv, EditorInv, FormMatchesText
<1>2. IInv => SavedFormOpensSame
  BY <1>1 DEF SavedFormOpensSame
<1> QED
  BY <1>2, Invariance, PTL

\* What a page reports as done, of the calls whose hooks fetch its list again (hooks/), is in the
\* list it shows, unless the first list was still under way or the new one could not be fetched.
THEOREM ListFollowsCalls == Spec => []DoneIsShown
<1>1. IInv => DoneIsShown
  BY DEF IInv, PagesInv
<1> QED
  BY <1>1, Invariance, PTL
=============================================================================
