------------------------------ MODULE MCAircon ------------------------------
(***************************************************************************)
(* Small instances of Aircon for TLC.                                       *)
(***************************************************************************)
EXTENDS Aircon, TLC

(* The handlers of requests are interchangeable.                            *)
Handlers == Permutations(Client)

Ask(command, request_id, delay, auto_off) ==
    [command |-> command, request_id |-> request_id, delay |-> delay, auto_off |-> auto_off]

Set   == [operation |-> "set", temperature_c |-> 24, mode |-> "cool", eco |-> FALSE]
Warm  == [operation |-> "adjust_temperature", delta_c |-> 6]
Dry   == [operation |-> "set_mode", mode |-> "dry"]
Off   == [operation |-> "off"]

(* Requests for tasks: now and later, with and without an automatic off, a    *)
(* repeated one, and cancellations.                                         *)
Tasks ==
    {Ask(Off, "", 1, 0), Ask(Set, "again", 1, 1), Ask(Off, "", 2, 0), Ask(Set, "", 0, 1),
     Ask([operation |-> "cancel_schedule", schedule_id |-> 1], "", 0, 0),
     Ask([operation |-> "cancel_all"], "", 0, 0)}

(* Commands that build on the state before them, two of which do not apply    *)
(* to every state.                                                          *)
Commands == {Ask(Set, "", 0, 0), Ask(Warm, "", 0, 0), Ask(Warm, "", 1, 1), Ask(Dry, "", 0, 0),
             Ask(Off, "", 0, 0)}

(* Tasks under every kind of failure but a refused transmission; commands that  *)
(* race, with writes and transmissions that fail.                            *)
Most == [b \in Bound |-> 1]

Tasking    == [asks |-> Tasks, most |-> [Most EXCEPT !["minutes"] = 3, !["requests"] = 3, !["sends"] = 0]]
Commanding == [asks |-> Commands,
               most |-> [Most EXCEPT !["minutes"] = 2, !["requests"] = 3, !["timeouts"] = 0,
                                     !["drops"] = 0, !["crashes"] = 0]]

Both == {Tasking, Commanding}
=============================================================================
