-------------------------------- MODULE Startup --------------------------------
(***************************************************************************)
(* main of can2rest up to its loop, together with config_parser and the    *)
(* start script that runs the program again whenever it ended: the         *)
(* configuration file is loaded, replaced by a default one if it does not  *)
(* parse, and turned into the filter, the type register and the settings   *)
(* of the two services.  The process may be ended, and the file replaced   *)
(* by an operator, between any two steps.                                  *)
(***************************************************************************)
EXTENDS Integers

CONSTANTS
    Text,      \* the values of the entries of a file
    atoi,      \* Text -> Int: std::atoi
    Key,       \* the 16-bit ids of CAN_FILTER_<id> and CAN_CONVERSION_<id>
    Files,     \* the files an operator leaves, None for no file
    None,
    MaxExits,  \* bound on the times the process is ended from outside
    MaxEdits   \* bound on the times the file is replaced

CFG_ENTRY == {"CAN_SOCKET_IF_NAME", "CAN_DISABLE_PACKET_FILTER",
              "REST_WEBSERVER_ENABLE", "REST_WEBSERVER_BIND_PORT",
              "REST_WEBSERVER_BIND_HOST", "REDIS_ENABLE", "REDIS_HOST", "REDIS_PORT",
              "REDIS_FIELD_PREFIX", "REDIS_ENABLE_WRITE", "REDIS_HASH_NAME"}

(* An INI file: whether every line parses, its entries ("" is what an       *)
(* absent one reads as) and those of the form CAN_FILTER_<id> and           *)
(* CAN_CONVERSION_<id>.  A malformed line does not hide the others.         *)
File == [ok             : BOOLEAN,
         settings       : [CFG_ENTRY -> Text],
         can_filter     : [Key -> Text \cup {None}],
         can_conversion : [Key -> Text \cup {None}]]

NoSettings == [e \in CFG_ENTRY |-> ""]
NoIds      == [k \in Key |-> None]

FileOf(s) == [ok |-> TRUE, settings |-> s, can_filter |-> NoIds, can_conversion |-> NoIds]
NoFile    == [ok |-> FALSE, settings |-> NoSettings, can_filter |-> NoIds,
              can_conversion |-> NoIds]

(* What loadDefaults stores: every entry. *)
Defaults == [CAN_SOCKET_IF_NAME        |-> "can0",
             CAN_DISABLE_PACKET_FILTER |-> "1",
             REST_WEBSERVER_ENABLE     |-> "1",
             REST_WEBSERVER_BIND_PORT  |-> "4242",
             REST_WEBSERVER_BIND_HOST  |-> "0.0.0.0",
             REDIS_ENABLE              |-> "1",
             REDIS_HOST                |-> "127.0.0.1",
             REDIS_PORT                |-> "6379",
             REDIS_FIELD_PREFIX        |-> "",
             REDIS_ENABLE_WRITE        |-> "1",
             REDIS_HASH_NAME           |-> "CAN"]

ASSUME TextAssumption ==
    /\ "" \in Text
    /\ Defaults \in [CFG_ENTRY -> Text]
    /\ atoi \in [Text -> Int]
    /\ None \notin Text
ASSUME FilesAssumption ==
    /\ Files \subseteq File \cup {None}
    /\ None \notin File
    /\ MaxExits \in Nat /\ MaxEdits \in Nat

VARIABLES
    file,                \* ./can2rest_config.ini, or None
    main_pc,             \* where main is; "off" when there is no process
    writeconfig,         \* the option -writeconfig was given
    reader,              \* the INIReader of the file last parsed
    config_store, cfg_loaded_success,
    filter_list, invert, \* can_id_filter
    type_register,       \* can_frame_to_json
    services,            \* what the REST and the Redis objects were told
    stream,              \* the ofstream main writes to leads to the file on the disk
    torn,                \* history: the file is what a process left that was
                         \* ended after it had opened it for writing
    edited,              \* history: the file was replaced after main first loaded it
    exits, edits         \* number of times the process was ended, the file replaced

process == <<writeconfig, reader, config_store, cfg_loaded_success,
             filter_list, invert, type_register, services>>
disk    == <<file, stream, torn, exits, edits>>
vars    == <<main_pc, process, disk, edited>>

-------------------------------------------------------------------------------
(* getBool_nocheck and getInt_nocheck of the text of an entry. *)
BoolOf(t) == /\ t \notin {"", "false", "FALSE", "False"}
             /\ t \in {"true", "TRUE", "True"} \/ atoi[t] > 0
IntOf(t)  == IF t = "" THEN 0 ELSE atoi[t]

(* Faulty: the port is taken as it is. *)
PortUnchecked(p) == p

(* The greatest number both services take for a port, one too many. *)
MaxPort == 65536

(* rest_api::set_bind_settings *)
BindPort(p) == IF p <= 0 \/ p > MaxPort THEN 4242 ELSE p
BindHost(h) == IF h = "" THEN "127.0.0.0" ELSE h

(* redis_interface keeps what it had when it refuses a value. *)
set_connection_details(h, p) ==
    IF h = "" \/ p <= 0 \/ p > MaxPort THEN <<"", 0>> ELSE <<h, p>>
set_hash_name(n) == IF n = "" THEN "CAN_FRAMES" ELSE n

(* The calls main makes to set up the two services.  REDIS_ENABLE_WRITE is  *)
(* not read.                                                                *)
ServicesOf(s) ==
    [rest   |-> BoolOf(s.REST_WEBSERVER_ENABLE),
     host   |-> BindHost(s.REST_WEBSERVER_BIND_HOST),
     port   |-> BindPort(IntOf(s.REST_WEBSERVER_BIND_PORT)),
     redis  |-> BoolOf(s.REDIS_ENABLE),
     server |-> set_connection_details(s.REDIS_HOST, IntOf(s.REDIS_PORT)),
     prefix |-> s.REDIS_FIELD_PREFIX,
     hash   |-> set_hash_name(s.REDIS_HASH_NAME)]

(* What can_id_filter answers for an id that is not listed. *)
InvertOf(s) == BoolOf(s.REST_WEBSERVER_ENABLE)

(* set_filter(id, atoi(value)) for every CAN_FILTER_<id>. *)
FilterOf(raw) == [k \in Key |-> IF raw[k] = None THEN None ELSE IntOf(raw[k]) # 0]

TypeOf(t) == CASE t \in {"INT", "int"}   -> "INT"
               [] t \in {"STR", "str"}   -> "STR"
               [] t \in {"BOOL", "bool"} -> "BOOL"
               [] t \in {"BYTE", "byte"} -> "BYTE"
               [] OTHER                  -> "RAW"

(* 200 as INT first, then every CAN_CONVERSION_<id>. *)
TypesOf(raw) == [k \in Key |-> IF raw[k] # None THEN TypeOf(raw[k])
                               ELSE IF k = 200 THEN "INT" ELSE None]

(* check_message of an id under a filter. *)
Allows(k) == IF filter_list[k] = None THEN invert ELSE filter_list[k]

(* INIReader: a missing file is an error without values. *)
Parse(f) == IF f = None THEN NoFile ELSE f

(* get: nothing before a load succeeded. *)
Current == IF cfg_loaded_success THEN config_store ELSE NoSettings

-------------------------------------------------------------------------------
Init == /\ file \in Files
        /\ main_pc = "off"
        /\ writeconfig = FALSE
        /\ reader             = FileOf(NoSettings)
        /\ config_store       = NoSettings
        /\ cfg_loaded_success = FALSE
        /\ filter_list        = NoIds
        /\ invert             = FALSE
        /\ type_register      = NoIds
        /\ services           = None
        /\ stream = FALSE /\ torn = FALSE /\ edited = FALSE
        /\ exits = 0 /\ edits = 0

(* The start script, or an operator with -writeconfig: a new process. *)
Start == /\ main_pc = "off"
         /\ main_pc' = "load"
         /\ writeconfig' \in BOOLEAN
         /\ reader'             = FileOf(NoSettings)
         /\ config_store'       = NoSettings
         /\ cfg_loaded_success' = FALSE
         /\ filter_list'        = NoIds
         /\ invert'             = FALSE
         /\ type_register'      = NoIds
         /\ services'           = None
         /\ UNCHANGED <<disk, edited>>

loadConfigFile ==
    /\ reader' = Parse(file)
    /\ IF Parse(file).ok
       THEN config_store' = Parse(file).settings /\ cfg_loaded_success' = TRUE
       ELSE UNCHANGED <<config_store, cfg_loaded_success>>

(* Faulty: the file is replaced when it was loaded. *)
LoadInverted ==
    /\ main_pc = "load"
    /\ loadConfigFile
    /\ main_pc' = IF Parse(file).ok \/ writeconfig THEN "defaults" ELSE "filter"
    /\ edited' = FALSE
    /\ UNCHANGED <<disk, writeconfig, filter_list, invert, type_register, services>>

Load ==
    /\ main_pc = "load"
    /\ loadConfigFile
    /\ main_pc' = IF ~Parse(file).ok \/ writeconfig THEN "defaults" ELSE "filter"
    /\ edited' = FALSE
    /\ UNCHANGED <<disk, writeconfig, filter_list, invert, type_register, services>>

(* Faulty: the interface is missing among the defaults. *)
LoadDefaultsNoInterface ==
    /\ main_pc = "defaults"
    /\ config_store' = [Defaults EXCEPT !.CAN_SOCKET_IF_NAME = ""]
    /\ main_pc' = "open"
    /\ UNCHANGED <<disk, edited, writeconfig, reader, cfg_loaded_success, filter_list,
                   invert, type_register, services>>

LoadDefaults ==
    /\ main_pc = "defaults"
    /\ config_store' = Defaults
    /\ main_pc' = "open"
    /\ UNCHANGED <<disk, edited, writeconfig, reader, cfg_loaded_success, filter_list,
                   invert, type_register, services>>

(* writeConfigFile: opening the stream empties the file... *)
OpenFile == /\ main_pc = "open"
            /\ file' = FileOf(NoSettings)
            /\ stream' = TRUE
            /\ main_pc' = "write"
            /\ UNCHANGED <<process, torn, edited, exits, edits>>

(* ...or fails, which createConfigFile does not look at. *)
OpenFileFails == /\ main_pc = "open"
                 /\ main_pc' = "reload"
                 /\ UNCHANGED <<disk, edited, process>>

(* The entries, fewer bytes than the stream's buffer, go out when it is     *)
(* closed, to the file that was opened: not to one that has replaced it.    *)
(* The CAN_FILTER_ and CAN_CONVERSION_ lines are comments.                  *)
WriteFile == /\ main_pc = "write"
             /\ file' = IF stream THEN FileOf(config_store) ELSE file
             /\ stream' = FALSE
             /\ torn' = (torn /\ ~stream)
             /\ main_pc' = "reload"
             /\ UNCHANGED <<process, edited, exits, edits>>

(* Faulty: the new file is not loaded. *)
ReloadSkipped ==
    /\ main_pc = "reload"
    /\ main_pc' = "filter"
    /\ UNCHANGED <<disk, edited, process>>

Reload ==
    /\ main_pc = "reload"
    /\ loadConfigFile
    /\ main_pc' = "filter"
    /\ UNCHANGED <<disk, edited, writeconfig, filter_list, invert, type_register, services>>

SetupFilter ==
    /\ main_pc = "filter"
    /\ invert' = InvertOf(Current)
    /\ filter_list' = FilterOf(reader.can_filter)
    /\ type_register' = TypesOf(reader.can_conversion)
    /\ main_pc' = "services"
    /\ UNCHANGED <<disk, edited, writeconfig, reader, config_store, cfg_loaded_success,
                   services>>

SetupServices ==
    /\ main_pc = "services"
    /\ services' = ServicesOf(Current)
    /\ main_pc' = "socket"
    /\ UNCHANGED <<disk, edited, writeconfig, reader, config_store, cfg_loaded_success,
                   filter_list, invert, type_register>>

OpenSocket == /\ main_pc = "socket"
              /\ Current.CAN_SOCKET_IF_NAME # ""
              /\ main_pc' = "running"
              /\ UNCHANGED <<disk, edited, process>>

(* No interface name, or no such interface: main returns 1. *)
OpenSocketFails == /\ main_pc = "socket"
                   /\ main_pc' = "off"
                   /\ UNCHANGED <<disk, edited, process>>

(* The process is ended from outside: SIGKILL, a crash, the power.  (SIGINT *)
(* ends a process that is in its loop, through cleanup: Services.)          *)
Exit == /\ main_pc # "off"
        /\ exits < MaxExits
        /\ exits' = exits + 1
        /\ torn' = (torn \/ stream)
        /\ stream' = FALSE
        /\ main_pc' = "off"
        /\ UNCHANGED <<file, process, edited, edits>>

(* An operator replaces or removes the file, at any time.  An editor puts a *)
(* new file in the place of the old one: a stream open on that leads        *)
(* nowhere.                                                                 *)
Edit == /\ edits < MaxEdits
        /\ edits' = edits + 1
        /\ file' \in Files
        /\ edited' = TRUE
        /\ torn' = FALSE
        /\ stream' = FALSE
        /\ UNCHANGED <<main_pc, process, exits>>

Boot == \/ Load \/ LoadDefaults \/ OpenFile \/ OpenFileFails \/ WriteFile \/ Reload
        \/ SetupFilter \/ SetupServices \/ OpenSocket \/ OpenSocketFails

Next == Start \/ Boot \/ Exit \/ Edit

(* The start script runs the program again for ever, a process goes on, and *)
(* of infinitely many attempts to open the file or the interface one works. *)
Fairness == /\ WF_vars(Start) /\ WF_vars(Boot)
            /\ SF_vars(OpenFile) /\ SF_vars(OpenSocket)

Spec == Init /\ [][Next]_vars /\ Fairness

-------------------------------------------------------------------------------
Service == [rest : BOOLEAN, host : Text \cup {"127.0.0.0"}, port : 1 .. MaxPort,
            redis : BOOLEAN, server : (Text \X (1 .. MaxPort)) \cup {<<"", 0>>},
            prefix : Text, hash : Text \cup {"CAN_FRAMES"}]

(* Types; in particular the ports handed to the services are within the     *)
(* bound the setters check, and a stream is open only while main writes.    *)
TypeOK == /\ file \in File \cup {None}
          /\ main_pc \in {"off", "load", "defaults", "open", "write", "reload", "filter",
                          "services", "socket", "running"}
          /\ writeconfig        \in BOOLEAN
          /\ reader             \in File
          /\ config_store       \in [CFG_ENTRY -> Text]
          /\ cfg_loaded_success \in BOOLEAN
          /\ filter_list        \in [Key -> BOOLEAN \cup {None}]
          /\ invert             \in BOOLEAN
          /\ type_register      \in [Key -> {"RAW", "INT", "STR", "BOOL", "BYTE", None}]
          /\ services           \in Service \cup {None}
          /\ stream \in BOOLEAN /\ torn \in BOOLEAN /\ edited \in BOOLEAN
          /\ exits \in Nat /\ edits \in Nat
          /\ stream => main_pc = "write"

(* A process that runs does so by the file that is on the disk, unless that *)
(* was edited since the process loaded it: the filter, the types and the    *)
(* services are what the next process would derive from it, also after      *)
(* defaults were written, after the option -writeconfig over a user's file, *)
(* and when the file could not be opened for writing.                       *)
RunsAsConfigured ==
    main_pc = "running" /\ ~edited =>
        /\ file # None /\ file.ok
        /\ invert        = InvertOf(file.settings)
        /\ filter_list   = FilterOf(file.can_filter)
        /\ type_register = TypesOf(file.can_conversion)
        /\ services      = ServicesOf(file.settings)

Usable(f) == f # None /\ f.ok /\ f.settings.CAN_SOCKET_IF_NAME # ""

(* No process changes a file that parses and names an interface, through    *)
(* any sequence of restarts, unless -writeconfig asks for it or the file    *)
(* was put there after the process had looked and found none.               *)
UsableFileIsKept ==
    [][Usable(file) => file' = file \/ writeconfig \/ edited']_vars

(* A file that parses, so that no default replaces it, and names no         *)
(* interface, so that every process that loads it ends at once.             *)
Nameless(f) == f # None /\ f.ok /\ f.settings.CAN_SOCKET_IF_NAME = ""

(* However often processes are ended, and wherever, the file on the disk is *)
(* never one no process can start with, unless the operator put it there,   *)
(* or a process was ended between opening the file and writing it.  (While  *)
(* main is between the two the file is empty.)                              *)
OnlyTornIsNameless ==
    Nameless(file) => file \in Files \/ torn \/ main_pc = "write"


(* README, CAN_DISABLE_PACKET_FILTER=0 with CAN_FILTER_207=1: "ENABLE       *)
(* PACKET_FILTER FOR 207 => ONLY FRAMES WITH ID 207 WILL BE PROCESSED".     *)
OnlyListedAreProcessed ==
    main_pc = "running" /\ ~BoolOf(Current.CAN_DISABLE_PACKET_FILTER) =>
        \A k \in Key : Allows(k) => filter_list[k] = TRUE
===============================================================================
