----------------------------- MODULE MCDevices -----------------------------
(* Workloads of the devices model for TLC. *)
EXTENDS Devices

Idle ==
  [started |-> {}, drivers |-> {}, nofd |-> {}, presses |-> 0, keys |-> {}, switches |-> 0,
   asks |-> 0, targets |-> {}, infos |-> {}, rooms |-> {MAX_LINE}, reads |-> TRUE]

Typing == [Idle EXCEPT !.started = {"keyboard"}]
AllKeys == {"a", Space, "enter", "back", "delete", "left", "right", "home", "end", "up", "down",
            "kill", "start", "word", "ctrl_c"}
Disk == [Idle EXCEPT !.started = {"virtio-blk"}, !.targets = {"virtio-blk"}]

\* Editing and browsing; keyboard drivers come and go, at once or one after
\* the other, with and without a descriptor; the block actor and the keyboard
\* actor are asked, stopped and started.
Mixes ==
  { [Typing EXCEPT !.presses = 4, !.keys = AllKeys],
    [Typing EXCEPT !.presses = 6, !.keys = {"a", "enter", "up", "down"}],
    [Typing EXCEPT !.presses = 4, !.keys = {"a", "enter"}, !.drivers = {1}],
    [Typing EXCEPT !.presses = 2, !.keys = {"a", "enter"}, !.drivers = Drivers],
    [Typing EXCEPT !.presses = 1, !.keys = {"a"}, !.drivers = Drivers, !.nofd = {2}],
    [Disk EXCEPT !.asks = 3, !.switches = 3],
    [Disk EXCEPT !.asks = 2, !.switches = 2, !.reads = FALSE],
    [Typing EXCEPT !.presses = 2, !.keys = {"a", "enter"}, !.asks = 1, !.switches = 2,
                   !.started = {"keyboard", "shell"}, !.targets = {"keyboard"},
                   !.infos = {"keyboard"}, !.rooms = {1, MAX_LINE}] }
=============================================================================
