------------------------------ MODULE BatteryRow ----------------------------
(***************************************************************************)
(* The numeric battery attributes of src/tp_smapi/tp_smapi.c: which row    *)
(* and which bytes each shows, and the conversions of what is there.  A    *)
(* row is a function from 0..15 to bytes.  Strings, dates and the dump     *)
(* show bytes as they are and are left out.                                *)
(***************************************************************************)
EXTENDS Integers

Byte == 0 .. 255
Word == 0 .. 256 * 256 - 1
RowBytes == 0 .. 15

\* *(u16 *)(row + offset) and *(s16 *)(row + offset), on a PC
u16(row, offset) == row[offset] + 256 * row[offset + 1]
s16(w) == IF w < 128 * 256 THEN w ELSE w - 256 * 256

\* C's division truncates.
Quotient(a, b) == IF a >= 0 THEN a \div b ELSE -((-a) \div b)

-----------------------------------------------------------------------------

\* show_tp_ec_bat_u16: the row's first argument, the offset and the factor.
u16Attributes ==
  [voltage |-> <<1, 6, 1>>, design_voltage |-> <<3, 4, 1>>,
   charging_max_voltage |-> <<9, 8, 1>>,
   group0_voltage |-> <<10, 12, 1>>, group1_voltage |-> <<10, 10, 1>>,
   group2_voltage |-> <<10, 8, 1>>, group3_voltage |-> <<10, 6, 1>>,
   remaining_percent |-> <<1, 12, 1>>, remaining_percent_error |-> <<9, 4, 1>>,
   remaining_charging_time |-> <<2, 8, 1>>, remaining_running_time |-> <<2, 6, 1>>,
   remaining_running_time_now |-> <<2, 4, 1>>,
   remaining_capacity |-> <<1, 14, 10>>, last_full_capacity |-> <<2, 2, 10>>,
   design_capacity |-> <<3, 2, 10>>, cycle_count |-> <<2, 12, 1>>,
   serial |-> <<3, 10, 1>>]

\* 0xFFFF stands for no value in these.
MayBeMissing ==
  {"remaining_charging_time", "remaining_running_time",
   "remaining_running_time_now", "remaining_capacity", "last_full_capacity",
   "design_capacity", "cycle_count", "serial"}

\* show_tp_ec_bat_s16: also a term to add.
s16Attributes ==
  [current_now |-> <<1, 8, 1, 0>>, current_avg |-> <<1, 10, 1, 0>>,
   charging_max_current |-> <<9, 6, 1, 0>>,
   temperature |-> <<1, 4, 100, -273100>>]

\* show_tp_ec_bat_power: offsets of the voltage and of the current.
powerAttributes == [power_now |-> <<6, 8>>, power_avg |-> <<6, 10>>]

-----------------------------------------------------------------------------

Unsigned(a, row) ==
  LET t == u16Attributes[a]
      v == u16(row, t[2])
  IN IF a \in MayBeMissing /\ v = 65535 THEN "missing" ELSE t[3] * v

Scaled(w, mul, add) == mul * s16(w) + add

Signed(a, row) ==
  LET t == s16Attributes[a] IN Scaled(u16(row, t[2]), t[3], t[4])

\* milliamp*millivolt/1000 is computed in an int.
Product(volts, amps) == s16(amps) * volts

Power(a, row) ==
  LET t == powerAttributes[a]
  IN Quotient(Product(u16(row, t[1]), u16(row, t[2])), 1000)

\* power_device_present
Present(bat, row) ==
  (CASE bat = 0 -> row[0] \div 64
     [] bat = 1 -> row[0] \div 32
     [] OTHER -> row[0] \div 128) % 2 = 1

\* bat_has_status: present, and one of the bits 0x60 of the second byte.
HasStatus(bat, row) == Present(bat, row) /\ (row[1] \div 32) % 4 # 0

\* show_battery_state, for a battery with status
State(row) ==
  CASE row[1] \div 16 = 12 -> "idle"
    [] row[1] \div 16 = 13 -> "discharging"
    [] row[1] \div 16 = 14 -> "charging"
    [] OTHER -> "unknown"
=============================================================================
