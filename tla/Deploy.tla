-------------------------------- MODULE Deploy --------------------------------
(***************************************************************************)
(* Writing Quadlet files and handing them to systemd: file_service.go,     *)
(* backup_service.go and unit_service.go over quadletfs_impl.go and        *)
(* systemd_dbus.go.                                                        *)
(*                                                                         *)
(* os.WriteFile opens the file with O_TRUNC and then writes, so requests   *)
(* that write one file overlap, and a request whose file is deleted between*)
(* the two steps writes to an inode without a name.  Nothing is locked.    *)
(* Each D-Bus call gives up after five seconds, or when the browser hangs  *)
(* up, but a call that was sent is carried out none the less; systemd      *)
(* takes the calls of the connection one after the other.                  *)
(*                                                                         *)
(* The contents of a file are the set of writes whose text is in it: none  *)
(* after O_TRUNC, and none when the text that was asked for is empty; one  *)
(* as a rule, several when a shorter text went over a longer one.  Writes  *)
(* are numbered in the order they reach the file.                          *)
(*                                                                         *)
(* A backup is an archive of the directory that an import writes back.     *)
(***************************************************************************)
EXTENDS Naturals, Sequences

CONSTANTS
  File,       \* valid Quadlet file names, each with a unit of its own
  Request,    \* requests that can be in progress at once
  Nobody,     \* stands for the sender of a call that was given up
  MaxWrites,  \* bound on the number of writes
  MaxBus      \* bound on the calls under way when a request arrives

ASSUME DeployAssumption ==
  /\ Nobody \notin Request
  /\ MaxWrites \in Nat
  /\ MaxBus \in Nat

VARIABLES
  present,  \* files in the directory
  disk,     \* contents of each file
  written,  \* number of writes so far
  loaded,   \* the contents systemd's generator saw at the last reload
  bus,      \* calls that systemd has not taken yet
  req,      \* the requests
  archived, \* files that had a text when an export made an empty entry of them
  applied,  \* history: the last write of each file acknowledged as applied
  last      \* history: how the last write that ended on each file ended

files == <<present, disk, written, archived, last>>
vars  == <<files, loaded, bus, req, applied>>

Stamp  == 0 .. MaxWrites
Text   == SUBSET (Stamp \ {0})
Method == {"reload", "start", "enable", "unit"}
Op     == {"write", "apply", "import", "delete", "reload", "unit"}
Done   == {"idle", "ok", "error"}

\* The text of a write: not empty, empty, or the empty entry that an archive has for a
\* file whose text was not empty when the archive was made.
Content == {"full", "empty", "lost"}
Ending  == Content \cup {"cut"}
Entry   == [file : File, text : Content]
Call   == [method : Method, file : File, by : Request \cup {Nobody}]

Where == Done \cup {"write", "next"} \cup Method

RequestState ==
  [step : Where, op : Op, file : File, text : Content, stamp : Stamp,
   unlinked : BOOLEAN, answer : {"none", "ok", "error"}]

TypeOK ==
  /\ present \subseteq File
  /\ disk \in [File -> Text]
  /\ written \in Stamp
  /\ loaded \in [File -> Text]
  /\ bus \in Seq(Call)
  /\ req \in [Request -> RequestState]
  /\ applied \in [File -> Stamp]
  /\ archived \subseteq File
  /\ last \in [File -> Ending]

\* A server that starts with an empty directory, which systemd has seen.
Init ==
  /\ present = {}
  /\ disk = [f \in File |-> {}]
  /\ written = 0
  /\ loaded = [f \in File |-> {}]
  /\ bus = <<>>
  /\ req \in [Request -> {[step |-> "idle", op |-> "write", file |-> f, text |-> "full",
                           stamp |-> 0, unlinked |-> FALSE, answer |-> "none"] : f \in File}]
  /\ applied = [f \in File |-> 0]
  /\ archived = {}
  /\ last = [f \in File |-> "full"]

-----------------------------------------------------------------------------
Step(r, s) == req[r].step = s
Free(r)    == req[r].step \in Done
\* A request that has no text to write, or none any more, has "full" in its place.
Reply(r, status) == req' = [req EXCEPT ![r].step = status, ![r].text = "full", ![r].answer = "none"]
New(op, f, text, step) ==
  [step |-> step, op |-> op, file |-> f, text |-> text, stamp |-> 0, unlinked |-> FALSE,
   answer |-> "none"]

\* CallWithContext: the call is sent, the request waits for its answer.
Send(r, m) == bus' = Append(bus, [method |-> m, file |-> req[r].file, by |-> r])
Wait(r, m) == req' = [req EXCEPT ![r].step = m, ![r].answer = "none"]

(* Requests; one that is refused before it has any effect is not a step *)

\* os.WriteFile creates the file or truncates it ...
Truncate(r, op, f, text) ==
  /\ written < MaxWrites
  /\ present' = present \cup {f}
  /\ disk' = [disk EXCEPT ![f] = {}]
  /\ req' = [req EXCEPT ![r] = New(op, f, text, "write")]
  /\ UNCHANGED <<written, archived, last, loaded, bus, applied>>

\* POST /files (the page creates a file with an empty text), PUT /files/:filename and
\* POST /files/:filename/apply, which refuses a text that is blank
Open(r, op, f, text) ==
  /\ Free(r)
  /\ Len(bus) <= MaxBus
  /\ op = "apply" => text = "full"
  /\ Truncate(r, op, f, text)

\* An entry of an archive made by whatever means, or one that an export has made empty
EntryToImport == [file : File, text : {"full", "empty"}] \cup [file : archived, text : {"lost"}]

\* POST /backup/import, when it comes to the first file of the archive
OpenImport(r) ==
  /\ Free(r)
  /\ Len(bus) <= MaxBus
  /\ \E e \in EntryToImport : Truncate(r, "import", e.file, e.text)

\* The files as ScanDir lists them: it fills in a name, a path, a time and a type, and
\* leaves the text at its zero value.
ScanDir == [f \in present |-> {}]

\* GET /backup/export archives what ScanDir lists, be it the text of the file or not.
Export ==
  /\ archived' = archived \cup {f \in present : ScanDir[f] # disk[f]}
  /\ UNCHANGED <<present, disk, written, last, loaded, bus, req, applied>>

\* Mutant: WriteFile gives up when the request's context ends, with the file open.
Write_IfWanted(r) ==
  /\ Step(r, "write")
  /\ Reply(r, "error")
  /\ UNCHANGED <<files, loaded, bus, applied>>

\* ... and then puts the text into it: over what a write since then has left there,
\* or into a file without a name.  An empty text leaves what is there.  ApplyFile goes
\* on with DaemonReload, Import with the archive.
Write(r) ==
  /\ Step(r, "write")
  /\ written < MaxWrites
  /\ written' = written + 1
  /\ LET f == req[r].file
     IN  IF req[r].unlinked THEN UNCHANGED <<disk, last>>
         ELSE /\ IF req[r].text = "full"
                 THEN \E tail \in SUBSET disk[f] : disk' = [disk EXCEPT ![f] = tail \cup {written'}]
                 ELSE UNCHANGED disk
              /\ last' = [last EXCEPT ![f] = req[r].text]
  /\ IF req[r].op = "apply"
     THEN /\ Send(r, "reload")
          /\ req' = [req EXCEPT ![r].step = "reload", ![r].stamp = written', ![r].answer = "none"]
     ELSE /\ Reply(r, IF req[r].op = "import" THEN "next" ELSE "ok")
          /\ UNCHANGED bus
  /\ UNCHANGED <<present, archived, loaded, applied>>

\* The archive has one more file, maybe one it had before.
NextEntry(r) ==
  /\ Step(r, "next")
  /\ \E e \in EntryToImport : Truncate(r, "import", e.file, e.text)

\* The archive ends, or what follows cannot be read or is no name of a file; the files
\* written so far stay.  systemd is not told.
Imported(r) ==
  /\ Step(r, "next")
  /\ \E s \in {"ok", "error"} : Reply(r, s)
  /\ UNCHANGED <<files, loaded, bus, applied>>

\* The write fails (the disk is full); nothing puts the old text back.
WriteErr(r) ==
  /\ Step(r, "write")
  /\ Reply(r, "error")
  /\ last' = IF req[r].unlinked THEN last ELSE [last EXCEPT ![req[r].file] = "cut"]
  /\ UNCHANGED <<present, disk, written, archived, loaded, bus, applied>>

\* DELETE /files/:filename: the requests that have the file open keep an inode
\* without a name.  systemd is not told.
Delete(r, f) ==
  /\ Free(r)
  /\ f \in present
  /\ present' = present \ {f}
  /\ disk' = [disk EXCEPT ![f] = {}]
  /\ req' = [q \in Request |->
               IF q = r THEN New("delete", f, "full", "ok")
               ELSE IF req[q].step = "write" /\ req[q].file = f
                    THEN [req[q] EXCEPT !.unlinked = TRUE]
               ELSE req[q]]
  /\ UNCHANGED <<written, archived, last, loaded, bus, applied>>

\* POST /daemon/reload, and POST /units/:name/start, stop, restart, enable, disable
Manage(r, op, f) ==
  /\ Free(r)
  /\ Len(bus) <= MaxBus
  /\ bus' = Append(bus, [method |-> op, file |-> f, by |-> r])
  /\ req' = [req EXCEPT ![r] = New(op, f, "full", op)]
  /\ UNCHANGED <<files, loaded, applied>>

-----------------------------------------------------------------------------
(* systemd, at the other end of the connection *)

Answer(c, a) ==
  IF c.by = Nobody THEN UNCHANGED req ELSE req' = [req EXCEPT ![c.by].answer = a]

Take(m, a) ==
  /\ bus # <<>>
  /\ Head(bus).method = m
  /\ bus' = Tail(bus)
  /\ Answer(Head(bus), a)
  /\ UNCHANGED <<files, applied>>

\* Manager.Reload runs the generator, which reads the files as they are now; it can
\* be refused (by the rate limit, or for want of rights).
SystemdReload    == Take("reload", "ok") /\ loaded' = disk
SystemdReloadErr == Take("reload", "error") /\ UNCHANGED loaded

\* A unit whose file was missing or empty at the last reload does not exist.
SystemdStart ==
  /\ Take("start", "ok")
  /\ loaded[Head(bus).file] # {}
  /\ UNCHANGED loaded

SystemdStartErr == Take("start", "error") /\ UNCHANGED loaded

\* The other calls, whose effect no property speaks of
SystemdOther ==
  /\ \E m \in {"enable", "unit"}, a \in {"ok", "error"} : Take(m, a)
  /\ UNCHANGED loaded

-----------------------------------------------------------------------------
(* The answers *)

Acknowledge(r) ==
  /\ Reply(r, "ok")
  /\ applied' = IF req[r].op = "apply" /\ ~req[r].unlinked /\ applied[req[r].file] < req[r].stamp
                THEN [applied EXCEPT ![req[r].file] = req[r].stamp] ELSE applied

\* Mutant: ApplyFile goes on after a reload that failed.
ReloadErr_Ignored(r) ==
  /\ Step(r, "reload")
  /\ req[r].answer = "error"
  /\ Send(r, "start")
  /\ Wait(r, "start")
  /\ UNCHANGED <<files, loaded, applied>>

\* ApplyFile or DaemonReload returns the error; the file stays as it was written.
ReloadErr(r) ==
  /\ Step(r, "reload")
  /\ req[r].answer = "error"
  /\ Reply(r, "error")
  /\ UNCHANGED <<files, loaded, bus, applied>>

Reloaded(r) ==
  /\ Step(r, "reload")
  /\ req[r].answer = "ok"
  /\ IF req[r].op = "apply" THEN Send(r, "start") /\ Wait(r, "start")
     ELSE Reply(r, "ok") /\ UNCHANGED bus
  /\ UNCHANGED <<files, loaded, applied>>

StartErr(r) ==
  /\ Step(r, "start")
  /\ req[r].answer = "error"
  /\ Reply(r, "error")
  /\ UNCHANGED <<files, loaded, bus, applied>>

Started(r) ==
  /\ Step(r, "start")
  /\ req[r].answer = "ok"
  /\ Send(r, "enable")
  /\ Wait(r, "enable")
  /\ UNCHANGED <<files, loaded, applied>>

\* EnableUnit is best-effort: its error is dropped.
Enabled(r) ==
  /\ Step(r, "enable")
  /\ req[r].answer # "none"
  /\ Acknowledge(r)
  /\ UNCHANGED <<files, loaded, bus>>

UnitDone(r) ==
  /\ Step(r, "unit")
  /\ req[r].answer # "none"
  /\ Reply(r, req[r].answer)
  /\ UNCHANGED <<files, loaded, bus, applied>>

\* Mutant: DaemonReload is called without a deadline.
Timeout_NotReload(r) ==
  /\ req[r].step \in {"start", "enable", "unit"}
  /\ bus' = [i \in DOMAIN bus |-> IF bus[i].by = r THEN [bus[i] EXCEPT !.by = Nobody] ELSE bus[i]]
  /\ IF Step(r, "enable") THEN Acknowledge(r) ELSE Reply(r, "error") /\ UNCHANGED applied
  /\ UNCHANGED <<files, loaded>>

\* withTimeout, or the browser hangs up: nobody waits for the call any more, but
\* systemd still has it, unless it has answered already.
Timeout(r) ==
  /\ req[r].step \in Method
  /\ bus' = [i \in DOMAIN bus |-> IF bus[i].by = r THEN [bus[i] EXCEPT !.by = Nobody] ELSE bus[i]]
  /\ IF Step(r, "enable") THEN Acknowledge(r) ELSE Reply(r, "error") /\ UNCHANGED applied
  /\ UNCHANGED <<files, loaded>>

\* The server dies and comes back: its requests are lost, a file it was writing stays
\* as it is, and what it had sent over the bus systemd may carry out.
Restart ==
  /\ \E n \in 0 .. Len(bus) : bus' = [i \in 1 .. n |-> [bus[i] EXCEPT !.by = Nobody]]
  /\ req' = [r \in Request |-> New(req[r].op, req[r].file, "full", "idle")]
  /\ last' = [f \in File |->
                IF \E r \in Request : Step(r, "write") /\ req[r].file = f /\ ~req[r].unlinked
                THEN "cut" ELSE last[f]]
  /\ UNCHANGED <<present, disk, written, archived, loaded, applied>>

-----------------------------------------------------------------------------
Systemd == SystemdReload \/ SystemdReloadErr \/ SystemdStart \/ SystemdStartErr \/ SystemdOther

Answered(r) == ReloadErr(r) \/ Reloaded(r) \/ StartErr(r) \/ Started(r) \/ Enabled(r) \/ UnitDone(r)

Next ==
  \/ \E r \in Request, f \in File :
       \/ \E text \in {"full", "empty"} : Open(r, "write", f, text)
       \/ Open(r, "apply", f, "full")
       \/ Delete(r, f)
       \/ Manage(r, "reload", f) \/ Manage(r, "unit", f)
  \/ \E r \in Request :
       \/ OpenImport(r) \/ Write(r) \/ WriteErr(r) \/ NextEntry(r) \/ Imported(r)
       \/ Answered(r) \/ Timeout(r)
  \/ Export
  \/ Systemd
  \/ Restart

Spec == Init /\ [][Next]_vars

\* A write ends, an archive too, an answer is taken and a deadline passes; systemd may hang
\* for ever.
Fairness ==
  \A r \in Request :
    /\ WF_vars(Write(r) \/ WriteErr(r))
    /\ WF_vars(Imported(r))
    /\ WF_vars(Answered(r))
    /\ WF_vars(Timeout(r))

FairSpec == Spec /\ Fairness

-----------------------------------------------------------------------------
(* Properties *)

\* Text of write w or of a later one; a file without any text does not become a unit.
AtLeast(text, w) == text = {} \/ \E v \in text : v >= w

\* While ApplyFile has its unit started, systemd does not know an older text of the
\* file than the one that ApplyFile wrote, whoever else writes, deletes, reloads or
\* gives up in between (file_service.go:78-91).  The one exception is a file that was
\* deleted between the two halves of the write.
StartsWhatItWrote ==
  \A r \in Request :
    req[r].step \in {"start", "enable"} /\ ~req[r].unlinked =>
      AtLeast(loaded[req[r].file], req[r].stamp)

\* Nor does systemd ever go back behind a text that was acknowledged as applied.
AppliedStays == \A f \in File : AtLeast(loaded[f], applied[f])

\* After a write of a text that is not empty, and that ended well, the file has a text,
\* until somebody truncates it again: no overlap of writers, deletion or import empties
\* a file that nobody asked to be empty.  So a file without text is being written, or
\* its last write was cut off or was one of an empty text.
EmptyIsExplained ==
  \A f \in present : disk[f] = {} =>
    \/ last[f] # "full"
    \/ \E r \in Request : Step(r, "write") /\ req[r].file = f /\ ~req[r].unlinked

\* Importing a backup does not empty a file that had a text when the backup was made.
RestoreKeepsText == \A f \in present : last[f] = "lost" => disk[f] # {}

\* Every request is answered, though systemd may hang for ever.
RequestsEnd == \A r \in Request : ~Free(r) ~> Free(r)

-----------------------------------------------------------------------------
(* The inductive invariant behind the safety properties *)

\* The calls that somebody waits for are those of the requests that wait, one each.
BusInv ==
  /\ \A i \in DOMAIN bus : bus[i].by # Nobody =>
       LET q == req[bus[i].by]
       IN  q.step = bus[i].method /\ q.file = bus[i].file /\ q.answer = "none"
  /\ \A i, j \in DOMAIN bus : i # j /\ bus[i].by # Nobody => bus[i].by # bus[j].by

\* ApplyFile has written its text, and systemd has seen it.
Written(r)  == req[r].op = "apply" /\ req[r].step \in Method /\ ~req[r].unlinked
Seen(r) == Written(r) /\ (req[r].step = "reload" => req[r].answer = "ok")

StampInv ==
  /\ \A f \in File : applied[f] <= written
  /\ \A r \in Request : req[r].stamp <= written

TextInv ==
  /\ \A f \in File : AtLeast(disk[f], applied[f]) /\ AtLeast(loaded[f], applied[f])
  /\ \A r \in Request : Written(r) => AtLeast(disk[req[r].file], req[r].stamp)
  /\ \A r \in Request : Seen(r) => AtLeast(loaded[req[r].file], req[r].stamp)

\* Only ApplyFile starts and enables, and it writes no empty text.
OpInv ==
  \A r \in Request :
    /\ req[r].step \in {"start", "enable"} => req[r].op = "apply"
    /\ req[r].op = "apply" => req[r].text = "full"

IInv ==
  /\ TypeOK
  /\ BusInv
  /\ StampInv
  /\ TextInv
  /\ OpInv
  /\ EmptyIsExplained

=============================================================================
