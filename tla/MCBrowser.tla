----------------------------- MODULE MCBrowser ------------------------------
EXTENDS Browser
MCShortName(image) == CASE image = "reg/web:1" -> "web" [] OTHER -> image
MCWord == {"", "w"}
MCNumber == {0, 5}
MCPort == {[parts |-> <<"80">>, proto |-> ""], [parts |-> <<"1", "2", "3">>, proto |-> "udp"]}
MCVolume == {<<"v">>, <<"v", "c", "ro">>, <<"v","c","z">>}
MCCommand == {<<"script", "a">>, <<"dir", "/p", "">>}
Rich == <<
 Line("", "#", ""),
 Line("Unit", "Description", "d"), Line("Unit", "After", <<"a", "b">>),
 Line("Unit", "Requires", <<"a">>), Line("Unit", "Wants", <<"a">>),
 Line("Container", "Image", "reg/web:1"), Line("Container", "Exec", "e"),
 Line("Container", "PublishPort", [parts |-> <<"1", "2">>, proto |-> "tcp"]),
 Line("Container", "PublishPort", [parts |-> <<"ip", "1", "2">>, proto |-> ""]),
 Line("Container", "Volume", <<"v", "c", "ro">>), Line("Container", "Volume", <<"v">>),
 Line("Container", "Environment", <<"k", "v">>), Line("Container", "Environment", <<"k">>),
 Line("Container", "Label", <<"w", "1">>), Line("Container", "Label", <<"w", "2">>),
 Line("Container", "Label", AutoUpdateLabel), Line("Container", "Label", <<"x">>),
 Line("Container", "User", "u"), Line("Container", "Group", "g"),
 Line("Container", "HostName", "h"), Line("Container", "Network", "n"),
 Line("Container", "HealthCmd", "h"), Line("Container", "HealthRetries", 7),
 Line("Container", "HealthTimeout", "1s"),
 Line("Container", "Unknown", "z"),
 Line("Service", "Restart", "no"), Line("Service", "TimeoutStartSec", "1"),
 Line("Service", "ExecStartPre", <<"script", "s">>), Line("Service", "ExecStartPre", <<"mount", "/m">>),
 Line("Service", "ExecStartPre", <<"dir", "/d", "x">>), Line("Service", "ExecStartPost", <<"script", "t">>) >>
Odd == <<
 Line("Container", "Image", "i"), Line("Container", "Image", ""),
 Line("Container", "Label", AutoUpdateLabel), Line("Container", "AutoUpdate", "local"),
 Line("Container", "AutoUpdate", "often"), Line("Container", "HealthRetries", 0),
 Line("Container", "HealthInterval", "1s"), Line("Container", "Volume", <<"v", "c", "Z">>),
 Line("Container", "PublishPort", [parts |-> <<"1">>, proto |-> "sctp"]),
 Line("Unit", "After", <<>>), Line("Unit", "User", "u"),
 Line("Service", "Restart", "always"), Line("Service", "Restart", "later"),
 Line("Service", "TimeoutStartSec", "") >>
MCStored == {Rich}
MCBudgets == {<<1, 3>>, <<2, 1>>, <<3, 0>>}
MCMaxPresses == [p \in Page |-> 2]
MCMaxChanges == [p \in Page |-> IF p = "images" THEN 1 ELSE 0]
MCTyped == {<<>>, Odd}
=============================================================================
