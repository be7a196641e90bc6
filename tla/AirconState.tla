----------------------------- MODULE AirconState -----------------------------
(***************************************************************************)
(* The pure part of the air conditioner service (src/src/aircon.rs): the    *)
(* shadow state of the appliance and what an operation makes of it.         *)
(***************************************************************************)
EXTENDS Integers

Mode == {"cool", "dry", "heat", "auto"}
MinTemperature == 17
MaxTemperature == 30

State == [power : BOOLEAN, temperature_c : MinTemperature..MaxTemperature,
          mode : Mode, eco : BOOLEAN]

DefaultState == [power |-> FALSE, temperature_c |-> 26, mode |-> "cool", eco |-> TRUE]

(* AirconState::validate                                                    *)
Valid(state) ==
    /\ state.temperature_c \in MinTemperature..MaxTemperature
    /\ state.eco => state.mode = "cool"

(* AirconOperation, without the two cancellations; the values are what the   *)
(* JSON types u8 and i8 admit.                                              *)
Operation ==
         [operation : {"set"}, temperature_c : 0..255, mode : Mode, eco : BOOLEAN]
    \cup [operation : {"off"}]
    \cup [operation : {"power"}, enabled : BOOLEAN]
    \cup [operation : {"set_temperature"}, temperature_c : 0..255]
    \cup [operation : {"adjust_temperature"}, delta_c : -128..127]
    \cup [operation : {"set_mode"}, mode : Mode]
    \cup [operation : {"set_eco"}, enabled : BOOLEAN]

(* The state AirconOperation::apply builds before it validates it.           *)
Changed(op, state) ==
    CASE op.operation = "set" ->
           [power |-> TRUE, temperature_c |-> op.temperature_c, mode |-> op.mode, eco |-> op.eco]
      [] op.operation = "off" -> [state EXCEPT !.power = FALSE]
      [] op.operation = "power" -> [state EXCEPT !.power = op.enabled]
      [] op.operation = "set_temperature" ->
           [state EXCEPT !.power = TRUE, !.temperature_c = op.temperature_c]
      [] op.operation = "adjust_temperature" ->
           [state EXCEPT !.power = TRUE, !.temperature_c = @ + op.delta_c]
      [] op.operation = "set_mode" ->
           [state EXCEPT !.power = TRUE, !.mode = op.mode, !.eco = @ /\ op.mode = "cool"]
      [] op.operation = "set_eco" ->
           [state EXCEPT !.power = TRUE, !.eco = op.enabled]

(* Whether apply succeeds.                                                  *)
Applies(op, state) ==
    /\ op.operation = "adjust_temperature" => op.delta_c \in (-10..10) \ {0}
    /\ Valid(Changed(op, state))

(* AirconState::to_ir_command: the whole state, or just off.                 *)
Infrared(state) ==
    IF state.power
    THEN [command |-> "set", temperature_c |-> state.temperature_c,
          mode |-> state.mode, eco |-> state.eco]
    ELSE [command |-> "off"]
=============================================================================
