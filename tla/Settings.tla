------------------------------ MODULE Settings -------------------------------
(***************************************************************************)
(* From the settings file to the ServerProperties.  A file is a sequence   *)
(* of lines, each with a key, whether a blank parts it from the '=', and a *)
(* value: an int, or any word that is not one.                             *)
(***************************************************************************)
EXTENDS Integers, Sequences

CONSTANT DefaultSize   (* 1024, the size of a buffer                        *)

ASSUME SettingsAssumption == DefaultSize \in Nat \ {0}

\* What CreateOrOpenFileVerbose puts into a new file.
default_settings ==
  <<[key |-> "port",                blank |-> TRUE, value |-> 3000],
    [key |-> "send_buffer_size",    blank |-> TRUE, value |-> DefaultSize],
    [key |-> "receive_buffer_size", blank |-> TRUE, value |-> DefaultSize],
    [key |-> "backlog",             blank |-> TRUE, value |-> 10],
    [key |-> "max_connections",     blank |-> TRUE, value |-> 20]>>

\* fscanf with " %s = %s ": without a blank the first %s takes the whole line.
Scans(file) == \A i \in DOMAIN file : file[i].blank

\* Map_Set, line by line: the last line of a key counts.
MapOf(file) ==
  [k \in {file[i].key : i \in DOMAIN file} |->
     file[CHOOSE i \in DOMAIN file :
            /\ file[i].key = k
            /\ \A j \in DOMAIN file : file[j].key = k => j <= i].value]

atoi(value) == IF value \in Int THEN value ELSE 0

Found(map, key) == key \in DOMAIN map

\* Mutant of Setting: an invalid value is taken as it is.
SettingUnchecked(map, key, default) ==
  IF Found(map, key) THEN atoi(map[key]) ELSE default

\* A setting that is missing, invalid (no positive number) or as it is given.
Setting(map, key, default) ==
  IF Found(map, key) /\ atoi(map[key]) > 0 THEN atoi(map[key]) ELSE default

\* The bytes of a uint16_t, on a machine with the low byte first.
htons(n) == LET p == n % 65536 IN 256 * (p % 256) + p \div 256

\* Mutant of Port: found_port is assigned as it is.
PortUnswapped(map) == Setting(map, "port", 3000) % 65536

\* A default for a missing port is not put into the order of the network.
Port(map) ==
  IF Found(map, "port") THEN htons(Setting(map, "port", 3000)) ELSE 3000

\* A missing receive_buffer_size sets send_buffer_size, whatever was read,
\* and leaves its own field as it was: 0.
_readSettingsMapIntoServerStruct(map) ==
  LET given == Found(map, "receive_buffer_size")
  IN  [port |-> Port(map),
       send_buffer_size |->
         IF given THEN Setting(map, "send_buffer_size", DefaultSize)
                  ELSE DefaultSize,
       receive_buffer_size |->
         IF given THEN Setting(map, "receive_buffer_size", DefaultSize)
                  ELSE 0,
       backlog |-> Setting(map, "backlog", 10),
       max_connections |-> Setting(map, "max_connections", 20)]
=============================================================================
