-------------------------------- MODULE Wizard --------------------------------
(***************************************************************************)
(* The form over a Quadlet file: convert.ts, which reads a file into the   *)
(* form and writes it back, and the panels that edit the form.             *)
(*                                                                         *)
(* A text is the sequence of its lines [sec, key, val]: a line carries the *)
(* section it is in, so headers and blank lines are layout.  Names, paths  *)
(* and commands are atoms; a value that the code takes apart is a sequence *)
(* of its parts:                                                           *)
(*   After, Requires, Wants   the names between the blanks                 *)
(*   PublishPort              [parts |-> what ':' separates, proto]        *)
(*   Volume                   what ':' separates                           *)
(*   Environment, Label       <<key, value>>, or <<word>> without a '='    *)
(*   ExecStartPre             <<"script", command>>, or a loop waiting for *)
(*                            a path, <<"dir", path>> or <<"mount", path>>,*)
(*                            with a third part when it is not the loop    *)
(*                            the form itself writes                       *)
(*   HealthRetries            the number, 0 for text that is not one       *)
(***************************************************************************)
EXTENDS Naturals, Sequences, FiniteSets, SequencesExt

CONSTANTS
  Word,          \* what is typed into a field that takes any text; "" is one
  PortWord,      \* what is typed as a port: PublishPort values
  VolumeWord,    \* what is typed as a volume: Volume values
  Command,       \* what is typed as a script: ExecStartPre values
  NumberWord,    \* what is typed into a number field
  ShortName(_)   \* an image's name without registry and tag (external text)

Line(sec, key, val) == [sec |-> sec, key |-> key, val |-> val]

AutoUpdateLabel == <<"io.containers.autoupdate", "registry">>
RestartPolicy   == {"always", "on-failure", "no", "unless-stopped"}

NoLabels == [k \in {} |-> ""]

DefaultHealth ==
  [enabled |-> FALSE, cmd |-> "", interval |-> "10s", retries |-> 3,
   startPeriod |-> "60s", timeout |-> "5s"]

defaultWizardData ==
  [container |-> [image |-> "", exec |-> "", ports |-> <<>>, volumes |-> <<>>,
                  env |-> <<>>, labels |-> NoLabels, user |-> "", group |-> "",
                  hostName |-> "", network |-> "", autoUpdate |-> "",
                  healthCheck |-> DefaultHealth],
   unit      |-> [description |-> "", after |-> <<>>, requires |-> <<>>, wants |-> <<>>],
   service   |-> [restart |-> "always", timeoutStartSec |-> "300", waitForPaths |-> <<>>,
                  execStartPre |-> <<>>, execStartPost |-> <<>>]]

-----------------------------------------------------------------------------
(* From the form to the text.                                              *)

\* A line for every item of a list.
Lines(sec, key, vals) == [i \in DOMAIN vals |-> Line(sec, key, vals[i])]

\* A line that is left out when the value is empty.
Unless(sec, key, val, empty) == IF val = empty THEN <<>> ELSE <<Line(sec, key, val)>>

\* A file without a description gets one, from the name of its image.
Description(d) ==
  LET name == ShortName(d.container.image) IN
  IF d.unit.description # "" THEN d.unit.description
  ELSE IF name = "" THEN "container" ELSE name \o " container"

UnitText_NoWants(d) ==
  LET u == d.unit IN
  <<Line("Unit", "Description", Description(d))>>
  \o Unless("Unit", "After", u.after, <<>>)
  \o Unless("Unit", "Requires", u.requires, <<>>)

UnitText(d) ==
  LET u == d.unit IN
  <<Line("Unit", "Description", Description(d))>>
  \o Unless("Unit", "After", u.after, <<>>)
  \o Unless("Unit", "Requires", u.requires, <<>>)
  \o Unless("Unit", "Wants", u.wants, <<>>)

HealthText(h) ==
  IF ~h.enabled \/ h.cmd = "" THEN <<>>
  ELSE <<Line("Container", "HealthCmd", h.cmd)>>
       \o Unless("Container", "HealthInterval", h.interval, "")
       \o Unless("Container", "HealthRetries", h.retries, 0)
       \o Unless("Container", "HealthStartPeriod", h.startPeriod, "")
       \o Unless("Container", "HealthTimeout", h.timeout, "")

ImageText(c) ==
  Unless("Container", "Image", c.image, "") \o Unless("Container", "Exec", c.exec, "")

PortText(c) ==
  Lines("Container", "PublishPort",
        [i \in DOMAIN c.ports |-> [parts |-> <<c.ports[i].hostPort, c.ports[i].containerPort>>,
                                   proto |-> c.ports[i].protocol]])

VolumeText(c) ==
  Lines("Container", "Volume",
        [i \in DOMAIN c.volumes |->
           <<c.volumes[i].hostPath, c.volumes[i].containerPath, c.volumes[i].mode>>])

EnvText(c) ==
  Lines("Container", "Environment", [i \in DOMAIN c.env |-> <<c.env[i].key, c.env[i].value>>])

LabelText(c) ==
  LET keys == SetToSeq(DOMAIN c.labels) IN
  Lines("Container", "Label", [i \in DOMAIN keys |-> <<keys[i], c.labels[keys[i]]>>])

AutoUpdateText(c) ==
  Unless("Container", "AutoUpdate", c.autoUpdate, "")
  \o (IF c.autoUpdate = "registry"
      THEN <<Line("Container", "Label", AutoUpdateLabel)>> ELSE <<>>)

NetworkText(c) ==
  Unless("Container", "User", c.user, "")
  \o Unless("Container", "Group", c.group, "")
  \o Unless("Container", "HostName", c.hostName, "")
  \o Unless("Container", "Network", c.network, "")

ContainerText(c) ==
  ImageText(c) \o PortText(c) \o VolumeText(c) \o EnvText(c) \o LabelText(c)
  \o AutoUpdateText(c) \o NetworkText(c) \o HealthText(c.healthCheck)

RestartText(s) ==
  <<Line("Service", "Restart", s.restart),
    Line("Service", "TimeoutStartSec", s.timeoutStartSec)>>

WaitText(s) ==
  Lines("Service", "ExecStartPre",
        [i \in DOMAIN s.waitForPaths |->
           <<IF s.waitForPaths[i].strict THEN "mount" ELSE "dir", s.waitForPaths[i].path>>])

ServiceText(s) ==
  RestartText(s) \o WaitText(s)
  \o Lines("Service", "ExecStartPre", s.execStartPre)
  \o Lines("Service", "ExecStartPost", s.execStartPost)

wizardToQuadlet(d) ==
  UnitText(d) \o ContainerText(d.container) \o ServiceText(d.service)
  \o <<Line("Install", "WantedBy", "default.target")>>

-----------------------------------------------------------------------------
(* From the text to the form.                                              *)

protocolOf(proto) == IF proto = "udp" THEN "udp" ELSE "tcp"

parsePort_Swapped(val) ==
  [hostPort      |-> IF Len(val.parts) >= 2 THEN val.parts[2] ELSE val.parts[1],
   containerPort |-> val.parts[1],
   protocol      |-> protocolOf(val.proto)]

parsePort(val) ==
  [hostPort      |-> val.parts[1],
   containerPort |-> IF Len(val.parts) >= 2 THEN val.parts[2] ELSE val.parts[1],
   protocol      |-> protocolOf(val.proto)]

\* Only for a value of at least two parts: the code drops the others.
parseVolume(val) ==
  [hostPath |-> val[1], containerPath |-> val[2],
   mode |-> IF Len(val) >= 3 /\ val[3] = "ro" THEN "ro" ELSE "rw"]

KeyValue(val) == [key |-> val[1], value |-> val[2]]

hasTwoParts(val) == Len(val) >= 2

\* Where a text sets a key of a section.
Places(text, sec, key) == {i \in DOMAIN text : text[i].sec = sec /\ text[i].key = key}

\* The lines at some places, in their order: up to the n-th there are n of them.
Pick(text, at) ==
  [n \in 1 .. Cardinality(at) |-> text[CHOOSE i \in at : Cardinality({j \in at : j <= i}) = n]]

\* A key that is assigned: the value of the last of its lines, or the form's default.
Assigned(text, at, default) == IF at = {} THEN default ELSE text[Max(at)].val

Value(text, sec, key, default) == Assigned(text, Places(text, sec, key), default)

PortsOf(text) ==
  LET own == Pick(text, Places(text, "Container", "PublishPort"))
  IN [i \in DOMAIN own |-> parsePort(own[i].val)]

VolumesOf(text) ==
  LET own == Pick(text, {i \in Places(text, "Container", "Volume") : hasTwoParts(text[i].val)})
  IN [i \in DOMAIN own |-> parseVolume(own[i].val)]

EnvOf(text) ==
  LET own == Pick(text, {i \in Places(text, "Container", "Environment") :
                           hasTwoParts(text[i].val)})
  IN [i \in DOMAIN own |-> KeyValue(own[i].val)]

\* The auto-update label is no label.
LabelPlaces(text) ==
  {i \in Places(text, "Container", "Label") :
     hasTwoParts(text[i].val) /\ text[i].val # AutoUpdateLabel}

\* Each label keeps the last of its values.
LabelsOf(text) ==
  [k \in {text[i].val[1] : i \in LabelPlaces(text)} |->
     Assigned(text, {i \in LabelPlaces(text) : text[i].val[1] = k}, <<k, "">>)[2]]

\* The last line that turns auto-update on, by its key or by the label.
AutoUpdateOf(text) ==
  LET byKey   == {i \in Places(text, "Container", "AutoUpdate") :
                    text[i].val \in {"registry", "local"}}
      byLabel == {i \in Places(text, "Container", "Label") : text[i].val = AutoUpdateLabel}
      on      == byKey \cup byLabel
  IN IF on = {} THEN "" ELSE IF Max(on) \in byKey THEN text[Max(on)].val ELSE "registry"

HealthOf(text) ==
  LET C(key, default) == Value(text, "Container", key, default)
      retries == C("HealthRetries", 3)
  IN [enabled     |-> Places(text, "Container", "HealthCmd") # {},
      cmd         |-> C("HealthCmd", ""),
      interval    |-> C("HealthInterval", "10s"),
      retries     |-> IF retries = 0 THEN 3 ELSE retries,
      startPeriod |-> C("HealthStartPeriod", "60s"),
      timeout     |-> C("HealthTimeout", "5s")]

\* The path of a wait: of the loop that the form writes for a mount point, the ';' behind the
\* path is taken for a part of it.
pathOf(val) == IF val[1] = "mount" /\ Len(val) = 2 THEN val[2] \o ";" ELSE val[2]

WaitsOf(text) ==
  LET own == Pick(text, {i \in Places(text, "Service", "ExecStartPre") :
                           text[i].val[1] # "script"})
  IN [i \in DOMAIN own |-> [path |-> pathOf(own[i].val), strict |-> own[i].val[1] = "mount"]]

ScriptsOf(text) ==
  LET own == Pick(text, {i \in Places(text, "Service", "ExecStartPre") :
                           text[i].val[1] = "script"})
  IN [i \in DOMAIN own |-> own[i].val]

PostsOf(text) ==
  LET own == Pick(text, Places(text, "Service", "ExecStartPost"))
  IN [i \in DOMAIN own |-> own[i].val]

RestartOf(text) ==
  Assigned(text, {i \in Places(text, "Service", "Restart") : text[i].val \in RestartPolicy},
           "always")

quadletToWizard(text) ==
  LET U(key, default) == Value(text, "Unit", key, default)
      C(key) == Value(text, "Container", key, "")
  IN [unit      |-> [description |-> U("Description", ""),
                     after       |-> U("After", <<>>),
                     requires    |-> U("Requires", <<>>),
                     wants       |-> U("Wants", <<>>)],
      container |-> [image       |-> C("Image"),
                     exec        |-> C("Exec"),
                     ports       |-> PortsOf(text),
                     volumes     |-> VolumesOf(text),
                     env         |-> EnvOf(text),
                     labels      |-> LabelsOf(text),
                     user        |-> C("User"),
                     group       |-> C("Group"),
                     hostName    |-> C("HostName"),
                     network     |-> C("Network"),
                     autoUpdate  |-> AutoUpdateOf(text),
                     healthCheck |-> HealthOf(text)],
      service   |-> [restart         |-> RestartOf(text),
                     timeoutStartSec |-> Value(text, "Service", "TimeoutStartSec", "300"),
                     waitForPaths    |-> WaitsOf(text),
                     execStartPre    |-> ScriptsOf(text),
                     execStartPost   |-> PostsOf(text)]]

-----------------------------------------------------------------------------
(* The inputs of the panels, as the sets of what one use of them leaves.   *)

\* The chips of a list: each can be removed or typed over, and one can be added.  A chip
\* left blank is removed.  added and updated are what the panel makes of the words typed.
ChipInput(items, added, updated) ==
  {Append(items, v) : v \in added}
  \cup {RemoveAt(items, i) : i \in DOMAIN items}
  \cup {ReplaceAt(items, i, v) : i \in DOMAIN items, v \in updated}

\* What is typed into a field that must not be blank.
Filled == Word \ {""}

\* Names of services: added when not blank, removed, never edited in place.
ServiceChipInput(items) ==
  {Append(items, v) : v \in Filled} \cup {RemoveAt(items, i) : i \in DOMAIN items}

\* Rows of a key and a value, as the calls the input makes: the row at is dropped, and the
\* row now, if any, is put there (at the end when at is 0).  A new row needs a key, an
\* edited one does not.
Row(i, now) == [at |-> i, now |-> now]

KeyValueInput(items) ==
  {Row(0, <<KeyValue(<<k, v>>)>>) : k \in Filled, v \in Word}
  \cup {Row(i, <<>>) : i \in DOMAIN items}
  \cup {Row(i, <<[items[i] EXCEPT !.key = k]>>) : i \in DOMAIN items, k \in Word}
  \cup {Row(i, <<[items[i] EXCEPT !.value = v]>>) : i \in DOMAIN items, v \in Word}

\* Paths to wait for, each with its "strict" box.
WaitForPathInput(items) ==
  {Append(items, w) : w \in [path : Filled, strict : BOOLEAN]}
  \cup {RemoveAt(items, i) : i \in DOMAIN items}

ImageEdits(c) ==
  {[c EXCEPT !.image = w] : w \in Word} \cup {[c EXCEPT !.exec = w] : w \in Word}

\* A new port without a ':' is its own host port; typed over an old one it changes nothing.
PortEdits(c) ==
  LET updated == {parsePort(v) : v \in {v \in PortWord : hasTwoParts(v.parts)}}
      ignored == {i \in DOMAIN c.ports : \E v \in PortWord : ~ hasTwoParts(v.parts)}
  IN {[c EXCEPT !.ports = p] :
        p \in ChipInput(c.ports, {parsePort(v) : v \in PortWord}, updated)}
     \cup {c : i \in ignored}

\* A value without a ':' is not handed on at all.
VolumeEdits(c) ==
  LET typed == {parseVolume(v) : v \in {v \in VolumeWord : hasTwoParts(v)}}
  IN {[c EXCEPT !.volumes = s] : s \in ChipInput(c.volumes, typed, typed)}

EnvEdits(c) ==
  LET Rows(e) == IF e.at = 0 THEN c.env \o e.now
                 ELSE SubSeq(c.env, 1, e.at - 1) \o e.now \o SubSeq(c.env, e.at + 1, Len(c.env))
  IN {[c EXCEPT !.env = Rows(e)] : e \in KeyValueInput(c.env)}

NetworkEdits(c) ==
  UNION {{[c EXCEPT !.network = w], [c EXCEPT !.hostName = w],
          [c EXCEPT !.user = w], [c EXCEPT !.group = w]} : w \in Word}

\* Labels are an object: renaming one onto another leaves one of the two.
LabelEdits(c) ==
  LET rows  == SetToSeq(DOMAIN c.labels)
      items == [i \in DOMAIN rows |-> KeyValue(<<rows[i], c.labels[rows[i]]>>)]
      Kept(e) == DOMAIN c.labels \ (IF e.at = 0 THEN {} ELSE {rows[e.at]})
      Now(e)  == [l \in Kept(e) \cup {e.now[i].key : i \in DOMAIN e.now} |->
                    IF e.now # <<>> /\ l = e.now[1].key THEN e.now[1].value ELSE c.labels[l]]
  IN {[c EXCEPT !.labels = Now(e)] : e \in KeyValueInput(items)}

\* The switch turns it to "registry" or off, the list chooses when it is on.
AutoUpdateEdits(c) ==
  LET on == c.autoUpdate # "" IN
  {[c EXCEPT !.autoUpdate = a] : a \in IF on THEN {"", "registry", "local"} ELSE {"registry"}}

\* The fields are there only while the check is switched on.
HealthEdits(c) ==
  LET h == c.healthCheck
      fields == UNION {{[h EXCEPT !.cmd = w], [h EXCEPT !.interval = w],
                        [h EXCEPT !.startPeriod = w], [h EXCEPT !.timeout = w]} : w \in Word}
                \cup {[h EXCEPT !.retries = n] : n \in NumberWord}
  IN {[c EXCEPT !.healthCheck = n] :
        n \in {[h EXCEPT !.enabled = ~h.enabled]} \cup (IF h.enabled THEN fields ELSE {})}

UnitPanel(u) ==
  {[u EXCEPT !.description = w] : w \in Word}
  \cup {[u EXCEPT !.after = s] : s \in ServiceChipInput(u.after)}
  \cup {[u EXCEPT !.requires = s] : s \in ServiceChipInput(u.requires)}
  \cup {[u EXCEPT !.wants = s] : s \in ServiceChipInput(u.wants)}

ServicePanel(s) ==
  LET Scripts(items) == ChipInput(items, Command, Command)
  IN {[s EXCEPT !.restart = p] : p \in RestartPolicy}
     \cup {[s EXCEPT !.timeoutStartSec = w] : w \in Word}
     \cup {[s EXCEPT !.waitForPaths = w] : w \in WaitForPathInput(s.waitForPaths)}
     \cup {[s EXCEPT !.execStartPre = c] : c \in Scripts(s.execStartPre)}
     \cup {[s EXCEPT !.execStartPost = c] : c \in Scripts(s.execStartPost)}

GeneralPanel(c) ==
  ImageEdits(c) \cup PortEdits(c) \cup VolumeEdits(c) \cup EnvEdits(c) \cup NetworkEdits(c)
  \cup LabelEdits(c) \cup AutoUpdateEdits(c) \cup HealthEdits(c)

\* Each panel hands on the part it changed; the form keeps the rest.
ConfigWizard(d) ==
  {[d EXCEPT !.container = c] : c \in GeneralPanel(d.container)}
  \cup {[d EXCEPT !.unit = u] : u \in UnitPanel(d.unit)}
  \cup {[d EXCEPT !.service = s] : s \in ServicePanel(d.service)}

-----------------------------------------------------------------------------
(* What texts and forms look like.                                         *)

IsSeq(s) == Len(s) \in Nat /\ s = [i \in 1 .. Len(s) |-> s[i]]

CommandOK(val) == IsSeq(val) /\ Len(val) >= 2 /\ val[1] \in {"script", "dir", "mount"}

LineOK(l) ==
  /\ l = Line(l.sec, l.key, l.val)
  /\ l.sec = "Container" /\ l.key = "PublishPort" =>
       /\ l.val = [parts |-> l.val.parts, proto |-> l.val.proto]
       /\ IsSeq(l.val.parts) /\ l.val.parts # <<>>
  /\ l.sec = "Container" /\ l.key \in {"Volume", "Environment", "Label"} => IsSeq(l.val)
  /\ l.sec = "Service" /\ l.key = "ExecStartPre" => CommandOK(l.val)

TextOK(text) == IsSeq(text) /\ \A i \in DOMAIN text : LineOK(text[i])

ContainerOK(c) ==
  /\ DOMAIN c = DOMAIN defaultWizardData.container
  /\ IsSeq(c.ports) /\ \A i \in DOMAIN c.ports : c.ports[i].protocol \in {"tcp", "udp"}
  /\ IsSeq(c.volumes) /\ \A i \in DOMAIN c.volumes : c.volumes[i].mode \in {"rw", "ro"}
  /\ IsSeq(c.env)
  /\ IsFiniteSet(DOMAIN c.labels)
  /\ c.autoUpdate \in {"", "registry", "local"}

ServiceOK(s) ==
  /\ DOMAIN s = DOMAIN defaultWizardData.service
  /\ s.restart \in RestartPolicy
  /\ IsSeq(s.waitForPaths)
  /\ IsSeq(s.execStartPre) /\ \A i \in DOMAIN s.execStartPre : CommandOK(s.execStartPre[i])
  /\ IsSeq(s.execStartPost)

FormOK(d) ==
  /\ DOMAIN d = DOMAIN defaultWizardData
  /\ ContainerOK(d.container)
  /\ ServiceOK(d.service)

ASSUME CommandAssumption == \A val \in Command : CommandOK(val)

-----------------------------------------------------------------------------
(* What going back and forth between form and text keeps.                  *)

\* The form's values that the text cannot carry, of those the model tells apart (a value of
\* blanks, or with blanks around it, which reading trims, and a label's key with a '=' are
\* outside it): reading it back puts a default in their place, moves a script among the waits, takes a label for the auto-update setting, or
\* lengthens the path of a mount point.
PutBack(d) ==
  LET h == d.container.healthCheck
      ls == d.container.labels
  IN \/ h.enabled /\ h.cmd # "" /\ (h.interval = "" \/ h.retries = 0
                                    \/ h.startPeriod = "" \/ h.timeout = "")
     \/ AutoUpdateLabel[1] \in DOMAIN ls /\ ls[AutoUpdateLabel[1]] = AutoUpdateLabel[2]
     \/ \E i \in DOMAIN d.service.waitForPaths : d.service.waitForPaths[i].strict
     \/ \E i \in DOMAIN d.service.execStartPre : d.service.execStartPre[i][1] # "script"

WrittenTextIsStable(d) ==
  PutBack(d) \/ wizardToQuadlet(quadletToWizard(wizardToQuadlet(d))) = wizardToQuadlet(d)

\* The keys the form has a field for, in their sections.
FieldKey ==
  [Unit      |-> {"Description", "After", "Requires", "Wants"},
   Container |-> {"Image", "Exec", "PublishPort", "Volume", "Environment", "Label",
                  "AutoUpdate", "User", "Group", "HostName", "Network", "HealthCmd",
                  "HealthInterval", "HealthRetries", "HealthStartPeriod", "HealthTimeout"},
   Service   |-> {"Restart", "TimeoutStartSec", "ExecStartPre", "ExecStartPost"}]

HasField(l) == l.sec \in DOMAIN FieldKey /\ l.key \in FieldKey[l.sec]

\* Those whose lines add to one another, in systemd and in Quadlet; of the others only the
\* last line counts.
ListKey == {"PublishPort", "Volume", "Environment", "Label", "ExecStartPre", "ExecStartPost",
            "After", "Requires", "Wants", "Network"}

\* Of these, the ones for which the form has room for one line only: reading overwrites.
OneLineKey == {"After", "Requires", "Wants", "Network"}

\* The values that the form can hold.
Expressible(l) ==
  CASE l.key = "PublishPort"  -> Len(l.val.parts) = 2 /\ l.val.proto \in {"tcp", "udp"}
    [] l.key = "Volume"       -> Len(l.val) = 3 /\ l.val[3] \in {"rw", "ro"}
    [] l.key \in {"Environment", "Label"} -> Len(l.val) = 2
    [] l.key = "ExecStartPre" -> Len(l.val) = 2 /\ l.val[1] # "mount"
    [] l.key = "ExecStartPost" -> TRUE
    [] l.key = "Restart"      -> l.val \in RestartPolicy
    [] l.key = "AutoUpdate"   -> l.val \in {"registry", "local"}
    [] l.key = "HealthRetries" -> l.val > 0
    [] l.key \in {"After", "Requires", "Wants"} -> l.val # <<>>
    [] l.key = "TimeoutStartSec" -> TRUE
    [] OTHER -> l.val # ""

HealthKey == {"HealthInterval", "HealthRetries", "HealthStartPeriod", "HealthTimeout"}

SetAgain(text, i) ==
  \E j \in i + 1 .. Len(text) : text[j].sec = text[i].sec /\ text[j].key = text[i].key

\* Lines that say something the form has a field for, with a value it can hold: no later line
\* overrules them, and no later line without a value takes them back.
MustKeep(text, i) ==
  LET l == text[i]
      After == {j \in i + 1 .. Len(text) : text[j].sec = l.sec}
  IN /\ HasField(l) /\ Expressible(l)
     /\ l.key \notin ListKey => ~SetAgain(text, i)
     /\ l.key \in OneLineKey => \A j \in After : text[j].key = l.key => Expressible(text[j])
     /\ l.key = "Label" => ~\E j \in After : text[j].key = "Label" /\ text[j].val[1] = l.val[1]
     /\ l.key = "AutoUpdate" =>
          ~\E j \in After : text[j].key = "Label" /\ text[j].val = AutoUpdateLabel
     /\ l.key = "Label" /\ l.val = AutoUpdateLabel => AutoUpdateOf(text) = "registry"

\* The form has room for the line: it is the last of those it keeps one of, and the options
\* of a health check, which are written behind a command only, have one.
HasRoom(text, i) ==
  /\ text[i].key \in OneLineKey => ~SetAgain(text, i)
  /\ text[i].key \in HealthKey => Value(text, "Container", "HealthCmd", "") # ""

FormKeepsLines(text) ==
  LET again == wizardToQuadlet(quadletToWizard(text)) IN
  \A i \in DOMAIN text :
    MustKeep(text, i) /\ HasRoom(text, i) => \E j \in DOMAIN again : again[j] = text[i]
=============================================================================
