----------------------------- MODULE MCRuntime -----------------------------
(***************************************************************************)
(* Runtime with two hosts, two devices (one with two interfaces) and two   *)
(* profile numbers for three physical devices.  A scenario fixes what was  *)
(* stored, which hosts are linked, and how many events of which kind may   *)
(* follow, in any order.                                                   *)
(***************************************************************************)
EXTENDS Runtime, TLC

MCDeviceOf == (1 :> 1) @@ (2 :> 1) @@ (3 :> 2)

Q(op, host, id, profile, value) ==
    [op |-> op, host |-> host, id |-> id, profile |-> profile, value |-> value]

MCRequests ==
    {Q(op, h, "delay", 0, 1) : op \in {"SelectHost", "StartPairing", "ForgetHost",
                                       "SetHostName"}, h \in Hosts \union {0}}
    \union {Q("CancelPairing", 0, "delay", 0, 0)}
    \union {Q("SetSetting", 0, "delay", 0, v) : v \in {0, 1, 1001}}
    \union {Q("SetSetting", 0, "restore", 0, v) : v \in {0, 1}}
    \union {Q("SetSetting", 0, "boot", 0, v) : v \in {0, 2}}
    \union {Q("SetSetting", 0, "shortcut", p, v) : p \in Profiles, v \in {0, 1}}
    \union {Q("GetSetting", 0, "shortcut", 1, 0)}

Global(delay) == [delay |-> delay, short |-> 1, long |-> 2, veryLong |-> 3,
                  boot |-> 0, restore |-> 1]

Bonded == [Blank EXCEPT !.bonded = TRUE, !.stored = TRUE]

Profile(identity, shortcut, seen) ==
    <<[identity |-> identity, connected |-> FALSE, seen |-> seen,
       shortcut |-> shortcut, armed |-> TRUE]>>

Image(order, active, delay, profile) ==
    [order |-> order,
     host |-> [h \in Hosts |-> IF \E k \in 1..Len(order) : order[k] = h
                               THEN Bonded ELSE Blank],
     active |-> active, global |-> Global(delay), profile |-> profile, gen |-> 0]

Zero == [ble |-> 0, quiesce |-> 0, button |-> 0, request |-> 0, health |-> 0,
         usb |-> 0, keys |-> 0, full |-> 0, restart |-> 0, ops |-> {}]

NoProfiles == [p \in Profiles |-> None]

Keyboard == [p \in Profiles |-> IF p = 1 THEN Profile("k1", 1, 1) ELSE None]

\* One bonded host is linked; windows are opened, used, moved and closed.
Pairing ==
    [image |-> Image(<<1>>, <<1>>, 1, NoProfiles), up |-> {1},
     budget |-> [Zero EXCEPT !.ble = 1, !.button = 1, !.request = 2, !.quiesce = 1,
                             !.full = 1,
                             !.ops = {"StartPairing", "CancelPairing", "ForgetHost"}]]

\* Two bonded hosts, found in the other order, are linked; switches are
\* delayed while hosts come, go and are forgotten.
Switching ==
    [image |-> Image(<<2, 1>>, <<1>>, 1, NoProfiles), up |-> {1, 2},
     budget |-> [Zero EXCEPT !.ble = 2, !.button = 1, !.request = 1, !.restart = 1,
                             !.ops = {"SelectHost", "ForgetHost", "SetHostName"}]]

\* The storage fails and recovers while switches and windows are under way.
Failing ==
    [image |-> Image(<<1, 2>>, <<1>>, 1, NoProfiles), up |-> {1, 2},
     budget |-> [Zero EXCEPT !.ble = 1, !.request = 2, !.health = 1,
                             !.ops = {"SelectHost", "StartPairing", "ForgetHost",
                                      "SetSetting"}]]

\* Settings and restarts.
Configuring ==
    [image |-> Image(<<1>>, <<1>>, 0, Keyboard), up |-> {1},
     budget |-> [Zero EXCEPT !.ble = 1, !.request = 2, !.restart = 1,
                             !.ops = {"SetSetting", "GetSetting", "SelectHost"}]]

\* Devices come and go; there are more of them than profile numbers.
Plugging ==
    [image |-> Image(<<1>>, <<1>>, 0, Keyboard), up |-> {},
     budget |-> [Zero EXCEPT !.usb = 4, !.health = 1]]

\* A chord on a keyboard with one interface switches between two linked hosts.
Typing ==
    [image |-> Image(<<1, 2>>, <<1>>, 0, Keyboard), up |-> {1, 2},
     budget |-> [Zero EXCEPT !.usb = 1, !.keys = 4, !.request = 1, !.health = 1,
                             !.ops = {"SetSetting"}]]

MCScenarios == {Pairing, Switching, Failing, Configuring, Plugging, Typing}

=============================================================================
