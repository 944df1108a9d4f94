----------------------------- MODULE StartupProofs -----------------------------
(***************************************************************************)
(* For any files, values of their entries and ids, and however often the   *)
(* process is ended and started again and the file edited: a running       *)
(* process follows the file it loaded, no process replaces a usable file   *)
(* unasked, and only a torn write leaves a file nobody can start with.     *)
(***************************************************************************)
EXTENDS Startup, TLAPS

(* As long as nobody edits the file, what was loaded before main replaces   *)
(* it came from a file that parses, and main goes to the defaults only when *)
(* told to or when it has to.  While main writes, its stream leads to the   *)
(* file that it emptied.                                                    *)
BeforeReload ==
    /\ main_pc = "load" => ~cfg_loaded_success
    /\ main_pc \in {"defaults", "open"} /\ ~edited => writeconfig \/ ~Parse(file).ok
    /\ main_pc \in {"defaults", "open", "reload"} /\ ~edited =>
           (cfg_loaded_success => Parse(file).ok)
    /\ main_pc \in {"open", "write"} => config_store = Defaults
    /\ main_pc = "write" /\ ~edited => stream
    /\ stream => main_pc = "write" /\ file = FileOf(NoSettings)

(* From the last load on, and until somebody edits it, the process knows    *)
(* the file that is on the disk, or knows that there is none.               *)
LoadedIsOnDisk ==
    main_pc \in {"filter", "services", "socket", "running"} /\ ~edited =>
        /\ reader = Parse(file)
        /\ cfg_loaded_success => Parse(file).ok /\ config_store = Parse(file).settings

(* Each part of the setup is what it is derived from. *)
SetupIsDerived ==
    /\ main_pc \in {"services", "socket", "running"} =>
           /\ invert        = InvertOf(Current)
           /\ filter_list   = FilterOf(reader.can_filter)
           /\ type_register = TypesOf(reader.can_conversion)
    /\ main_pc \in {"socket", "running"} => services = ServicesOf(Current)
    /\ main_pc = "running" => cfg_loaded_success

(* A file without an interface is the operator's, or torn, or open.         *)
NamelessHasCause == Nameless(file) => file \in Files \/ torn \/ stream

IInv == /\ BeforeReload
        /\ LoadedIsOnDisk
        /\ SetupIsDerived
        /\ NamelessHasCause

-------------------------------------------------------------------------------
(* The default file is a file, and one that parses.                         *)
LEMMA DefaultFile == Parse(FileOf(Defaults)).ok /\ FileOf(Defaults) # None
  <1>1. NoIds \in [Key -> Text \cup {None}]
    BY DEF NoIds
  <1>2. FileOf(Defaults) \in File
    BY <1>1, TextAssumption DEF FileOf, File
  <1>3. FileOf(Defaults) # None
    BY <1>2, FilesAssumption
  <1> QED BY <1>3 DEF Parse, FileOf

(* An empty file names no interface.                                        *)
LEMMA EmptyIsNotUsable == ~Usable(FileOf(NoSettings))
  BY DEF Usable, FileOf, NoSettings, CFG_ENTRY

(* The default file names one.                                              *)
LEMMA DefaultIsNotNameless == ~Nameless(FileOf(Defaults))
  BY DEF Nameless, FileOf, Defaults

(* Without a load there is no interface name.                               *)
LEMMA InterfaceNeedsLoad ==
    ASSUME Current.CAN_SOCKET_IF_NAME # "" PROVE cfg_loaded_success
  BY DEF Current, NoSettings, CFG_ENTRY

(* Before the first process there is nothing to follow.                     *)
LEMMA InitEstablishes == Init => IInv
  BY DEF Init, IInv, BeforeReload, LoadedIsOnDisk, SetupIsDerived, NamelessHasCause

(* Every step of a process, of its end, of the start script and of the      *)
(* operator preserves the invariant.                                        *)
LEMMA StepPreserves == IInv /\ [Next]_vars => IInv'
  <1> SUFFICES ASSUME IInv, [Next]_vars PROVE IInv'
    OBVIOUS
  <1> USE DEF IInv, BeforeReload, LoadedIsOnDisk, SetupIsDerived, NamelessHasCause
  <1>1. CASE Start \/ Exit
    <2>1. NamelessHasCause'
      BY <1>1, Zenon DEF Start, Exit, disk, Nameless
    <2>2. main_pc' \in {"load", "off"} /\ (main_pc' = "load" => ~cfg_loaded_success') /\ ~stream'
      <3>1. CASE Start
        BY <3>1 DEF Start, disk
      <3>2. CASE Exit
        BY <3>2 DEF Exit
      <3> QED BY <1>1, <3>1, <3>2
    <2> QED BY <2>1, <2>2
  <1>2. CASE Edit
    BY <1>2 DEF Edit, process, Current
  <1>3. CASE Load
    BY <1>3 DEF Load, loadConfigFile, disk
  <1>4. CASE LoadDefaults
    BY <1>4 DEF LoadDefaults, disk
  <1>5. CASE OpenFile \/ OpenFileFails
    BY <1>5 DEF OpenFile, OpenFileFails, process, disk
  <1>6. CASE WriteFile
    BY <1>6, DefaultFile, DefaultIsNotNameless DEF WriteFile, process
  <1>7. CASE Reload
    BY <1>7 DEF Reload, loadConfigFile, disk
  <1>8. CASE SetupFilter
    BY <1>8 DEF SetupFilter, Current, disk
  <1>9. CASE SetupServices
    BY <1>9 DEF SetupServices, Current, disk
  <1>10. CASE OpenSocket
    BY <1>10, InterfaceNeedsLoad DEF OpenSocket, process, Current, disk
  <1>11. CASE OpenSocketFails
    BY <1>11 DEF OpenSocketFails, process, disk
  <1>12. CASE UNCHANGED vars
    BY <1>12 DEF vars, process, Current, disk
  <1> QED BY <1>1, <1>2, <1>3, <1>4, <1>5, <1>6, <1>7, <1>8, <1>9, <1>10, <1>11, <1>12
          DEF Next, Boot

(* The invariant holds of every reachable state.                            *)
THEOREM Invariance == Spec => []IInv
  BY InitEstablishes, StepPreserves, PTL DEF Spec

(* A running process follows the file that is on the disk, unless that was  *)
(* edited since the process loaded it.                                      *)
THEOREM RunningIsConfigured == Spec => []RunsAsConfigured
  <1>1. IInv => RunsAsConfigured
    <2> SUFFICES ASSUME IInv, main_pc = "running", ~edited
                 PROVE  /\ file # None /\ file.ok
                        /\ invert        = InvertOf(file.settings)
                        /\ filter_list   = FilterOf(file.can_filter)
                        /\ type_register = TypesOf(file.can_conversion)
                        /\ services      = ServicesOf(file.settings)
      BY DEF RunsAsConfigured
    <2>1. Parse(file).ok /\ config_store = Parse(file).settings /\ reader = Parse(file)
      BY DEF IInv, LoadedIsOnDisk, SetupIsDerived
    <2>2. file # None
      BY <2>1 DEF Parse, NoFile
    <2>3. Parse(file) = file
      BY <2>2 DEF Parse
    <2>4. Current = file.settings
      BY <2>1, <2>3 DEF IInv, SetupIsDerived, Current
    <2> QED BY <2>1, <2>2, <2>3, <2>4 DEF IInv, SetupIsDerived
  <1> QED BY <1>1, Invariance, PTL

(* No process replaces a usable file unless -writeconfig was given or the   *)
(* file was put there after the process had loaded another.                 *)
THEOREM UsableFilesAreKept == Spec => UsableFileIsKept
  <1>1. IInv /\ [Next]_vars =>
          [Usable(file) => file' = file \/ writeconfig \/ edited']_vars
    <2> SUFFICES ASSUME IInv, Next, Usable(file)
                 PROVE  file' = file \/ writeconfig \/ edited'
      OBVIOUS
    <2>1. Parse(file).ok
      BY DEF Usable, Parse
    <2>2. CASE OpenFile
      BY <2>1, <2>2 DEF OpenFile, IInv, BeforeReload
    <2>3. CASE WriteFile
      BY <2>3, EmptyIsNotUsable DEF WriteFile, IInv, BeforeReload
    <2>4. CASE Edit
      BY <2>4 DEF Edit
    <2>5. CASE Start \/ Exit \/ Load \/ LoadDefaults \/ OpenFileFails \/ Reload
                \/ SetupFilter \/ SetupServices \/ OpenSocket \/ OpenSocketFails
      BY <2>5 DEF Start, Exit, Load, LoadDefaults, OpenFileFails, Reload, SetupFilter,
                  SetupServices, OpenSocket, OpenSocketFails, disk
    <2> QED BY <2>2, <2>3, <2>4, <2>5 DEF Next, Boot
  <1> QED BY <1>1, Invariance, PTL DEF Spec, UsableFileIsKept

(* A file that parses and names no interface was put there by the operator, *)
(* or is what a process left that was ended between opening the file and    *)
(* writing it, or is open for writing.                                      *)
THEOREM TornWritesOnly == Spec => []OnlyTornIsNameless
  <1>1. IInv => OnlyTornIsNameless
    BY DEF IInv, BeforeReload, NamelessHasCause, OnlyTornIsNameless
  <1> QED BY <1>1, Invariance, PTL

-------------------------------------------------------------------------------
(* An empty file, with settings or without, is a file.                      *)
LEMMA FileOfType ==
    ASSUME NEW s \in [CFG_ENTRY -> Text]
    PROVE  FileOf(s) \in File
  <1>1. NoIds \in [Key -> Text \cup {None}]
    BY DEF NoIds
  <1> QED BY <1>1 DEF FileOf, File

(* What the reader holds of a file, or of none, has the entries of a file.  *)
LEMMA ParseType ==
    /\ NoSettings \in [CFG_ENTRY -> Text]
    /\ \A S : NoIds \in [Key -> S \cup {None}]
    /\ \A f \in File \cup {None} :
          Parse(f) \in File /\ Parse(f).settings \in [CFG_ENTRY -> Text]
  <1>1. /\ NoSettings \in [CFG_ENTRY -> Text]
        /\ \A S : NoIds \in [Key -> S \cup {None}]
    BY TextAssumption, Zenon DEF NoIds, NoSettings
  <1>2. NoFile \in File
    BY <1>1 DEF NoFile, File
  <1>3. \A f \in File : f.settings \in [CFG_ENTRY -> Text]
    BY DEF File
  <1> QED BY <1>1, <1>2, <1>3 DEF Parse

(* The default port is one.                                                 *)
LEMMA PortRange == MaxPort \in Int /\ 4242 <= MaxPort
  BY DEF MaxPort

(* Whatever the entries say, the services get settings in range: a port     *)
(* above MaxPort is replaced or refused.                                     *)
LEMMA ServicesOfType ==
    ASSUME NEW s \in [CFG_ENTRY -> Text]
    PROVE  ServicesOf(s) \in Service /\ InvertOf(s) \in BOOLEAN
  <1>1. ASSUME NEW t \in Text PROVE IntOf(t) \in Int
    <2>1. atoi[t] \in Int
      BY TextAssumption
    <2>2. IntOf(t) = 0 \/ IntOf(t) = atoi[t]
      BY Zenon DEF IntOf
    <2> QED BY <2>1, <2>2
  <1>2. \A e \in CFG_ENTRY : s[e] \in Text
    OBVIOUS
  <1>3. /\ s.REST_WEBSERVER_BIND_HOST \in Text /\ s.REST_WEBSERVER_BIND_PORT \in Text
        /\ s.REDIS_HOST \in Text /\ s.REDIS_PORT \in Text
        /\ s.REDIS_FIELD_PREFIX \in Text /\ s.REDIS_HASH_NAME \in Text
    BY <1>2 DEF CFG_ENTRY
  <1>4. \A p \in Int : BindPort(p) \in 1 .. MaxPort
    BY PortRange DEF BindPort
  <1>5. ASSUME NEW h \in Text, NEW p \in Int
        PROVE  set_connection_details(h, p) \in (Text \X (1 .. MaxPort)) \cup {<<"", 0>>}
    <2>1. CASE h = "" \/ p <= 0 \/ p > MaxPort
      BY <2>1, Zenon DEF set_connection_details
    <2>2. CASE ~(h = "" \/ p <= 0 \/ p > MaxPort)
      <3>1. set_connection_details(h, p) = <<h, p>> /\ ~(p <= 0) /\ ~(p > MaxPort)
        BY <2>2, Zenon DEF set_connection_details
      <3>2. p \in 1 .. MaxPort
        BY <3>1, PortRange
      <3>3. <<h, p>> \in Text \X (1 .. MaxPort)
        BY <3>2
      <3> QED BY <3>1, <3>3, Zenon
    <2> QED BY <2>1, <2>2, Zenon
  <1>6. \A t : BoolOf(t) \in BOOLEAN
    BY DEF BoolOf
  <1> DEFINE port   == BindPort(IntOf(s.REST_WEBSERVER_BIND_PORT))
             server == set_connection_details(s.REDIS_HOST, IntOf(s.REDIS_PORT))
             host   == BindHost(s.REST_WEBSERVER_BIND_HOST)
             name   == set_hash_name(s.REDIS_HASH_NAME)
             rest   == BoolOf(s.REST_WEBSERVER_ENABLE)
             redis  == BoolOf(s.REDIS_ENABLE)
  <1>7. port \in 1 .. MaxPort
    BY <1>1, <1>3, <1>4, Zenon
  <1>8. host \in Text \cup {"127.0.0.0"} /\ name \in Text \cup {"CAN_FRAMES"}
    BY <1>3 DEF BindHost, set_hash_name
  <1>9. rest \in BOOLEAN /\ redis \in BOOLEAN
    BY <1>6
  <1>10. ServicesOf(s) = [rest |-> rest, host |-> host, port |-> port, redis |-> redis,
                          server |-> server, prefix |-> s.REDIS_FIELD_PREFIX, hash |-> name]
    BY DEF ServicesOf
  <1>11. InvertOf(s) \in BOOLEAN
    BY <1>6 DEF InvertOf
  <1> DEFINE Server == (Text \X (1 .. MaxPort)) \cup {<<"", 0>>}
  <1>12. Service = [rest : BOOLEAN, host : Text \cup {"127.0.0.0"}, port : 1 .. MaxPort,
                    redis : BOOLEAN, server : Server, prefix : Text,
                    hash : Text \cup {"CAN_FRAMES"}]
    BY Zenon DEF Service
  <1>13. server \in Server
    BY <1>1, <1>3, <1>5, Zenon
  <1> HIDE DEF port, server, host, name, rest, redis, Server
  <1> QED BY <1>3, <1>7, <1>8, <1>9, <1>10, <1>11, <1>12, <1>13

(* The filter and the types derived from the entries of a file.             *)
LEMMA DerivedTypes ==
    ASSUME NEW raw \in [Key -> Text \cup {None}]
    PROVE  /\ FilterOf(raw) \in [Key -> BOOLEAN \cup {None}]
           /\ TypesOf(raw) \in [Key -> {"RAW", "INT", "STR", "BOOL", "BYTE", None}]
  <1>1. \A t : TypeOf(t) \in {"RAW", "INT", "STR", "BOOL", "BYTE"}
    BY DEF TypeOf
  <1> QED BY <1>1 DEF FilterOf, TypesOf

(* Every step of the process, its end, a restart and an edit keep the types. *)
LEMMA TypePreserved == TypeOK /\ [Next]_vars => TypeOK'
  <1> SUFFICES ASSUME TypeOK, [Next]_vars PROVE TypeOK'
    OBVIOUS
  <1>1. CASE Start
    <2>1. /\ FileOf(NoSettings) \in File
          /\ NoIds \in [Key -> BOOLEAN \cup {None}]
          /\ NoIds \in [Key -> {"RAW", "INT", "STR", "BOOL", "BYTE", None}]
      BY ParseType, FileOfType DEF NoIds
    <2> QED BY <1>1, <2>1, ParseType DEF Start, TypeOK, disk
  <1>2. CASE Load \/ Reload
    <2>1. /\ reader' = Parse(file)
          /\ config_store' = Parse(file).settings \/ config_store' = config_store
          /\ cfg_loaded_success' \in BOOLEAN
      BY <1>2 DEF Load, Reload, loadConfigFile, TypeOK
    <2>2. /\ edited' \in BOOLEAN /\ UNCHANGED disk
          /\ UNCHANGED <<writeconfig, filter_list, invert, type_register, services>>
          /\ main_pc' \in {"defaults", "filter"} /\ main_pc \in {"load", "reload"}
      <3>1. edited' \in BOOLEAN
        BY <1>2, Zenon DEF Load, Reload, TypeOK
      <3> QED BY <1>2, <3>1 DEF Load, Reload
    <2> QED BY <2>1, <2>2, ParseType DEF TypeOK, disk
  <1>3. CASE LoadDefaults
    BY <1>3, TextAssumption DEF LoadDefaults, TypeOK, disk
  <1>4. CASE OpenFile \/ OpenFileFails \/ WriteFile
    <2>1. torn' \in BOOLEAN /\ stream' \in BOOLEAN /\ edited' \in BOOLEAN
      BY <1>4, Zenon DEF OpenFile, OpenFileFails, WriteFile, TypeOK, disk
    <2>2. file' \in File \cup {None}
      BY <1>4, ParseType, FileOfType DEF OpenFile, OpenFileFails, WriteFile, TypeOK, disk
    <2>3. /\ UNCHANGED <<process, exits, edits>> /\ main_pc' \in {"write", "reload"}
          /\ stream' => main_pc' = "write"
      BY <1>4 DEF OpenFile, OpenFileFails, WriteFile, TypeOK, disk
    <2> QED BY <2>1, <2>2, <2>3 DEF process, TypeOK
  <1>5. CASE SetupFilter \/ SetupServices
    <2>1. Current \in [CFG_ENTRY -> Text]
      BY ParseType DEF Current, TypeOK
    <2>2. /\ reader.can_filter \in [Key -> Text \cup {None}]
          /\ reader.can_conversion \in [Key -> Text \cup {None}]
      BY DEF TypeOK, File
    <2>3. CASE SetupFilter
      BY <2>1, <2>2, <2>3, ServicesOfType, DerivedTypes DEF SetupFilter, TypeOK, disk
    <2>4. CASE SetupServices
      BY <2>1, <2>4, ServicesOfType DEF SetupServices, TypeOK, disk
    <2> QED BY <1>5, <2>3, <2>4
  <1>6. CASE OpenSocket \/ OpenSocketFails \/ Exit
    <2>1. CASE OpenSocket \/ OpenSocketFails
      <3>1. main_pc' \in {"running", "off"} /\ UNCHANGED <<disk, edited, process>>
        BY <2>1, Zenon DEF OpenSocket, OpenSocketFails
      <3> QED BY <2>1, <3>1 DEF OpenSocket, OpenSocketFails, process, TypeOK, disk
    <2>2. CASE Exit
      <3>1. torn' \in BOOLEAN
        BY <2>2, Zenon DEF Exit, TypeOK
      <3>2. /\ UNCHANGED <<file, process, edited, edits>> /\ stream' = FALSE
            /\ main_pc' = "off" /\ exits' \in Nat
        BY <2>2 DEF Exit, TypeOK
      <3> QED BY <3>1, <3>2 DEF process, TypeOK
    <2> QED BY <1>6, <2>1, <2>2
  <1>7. CASE Edit
    <2>1. /\ UNCHANGED <<main_pc, process, exits>> /\ file' \in File \cup {None}
          /\ edited' = TRUE /\ torn' = FALSE /\ stream' = FALSE /\ edits' \in Nat
      BY <1>7, FilesAssumption DEF Edit, TypeOK
    <2> QED BY <2>1 DEF process, TypeOK
  <1>8. CASE UNCHANGED vars
    BY <1>8 DEF vars, process, TypeOK, disk
  <1> QED BY <1>1, <1>2, <1>3, <1>4, <1>5, <1>6, <1>7, <1>8 DEF Next, Boot

(* Whatever files an operator leaves, the filter, the types and the         *)
(* settings of the services are well formed, their ports within the bound   *)
(* the setters check.                                                       *)
THEOREM TypeCorrect == Spec => []TypeOK
  <1>1. Init => TypeOK
    <2> SUFFICES ASSUME Init PROVE TypeOK
      OBVIOUS
    <2>1. /\ FileOf(NoSettings) \in File
          /\ NoIds \in [Key -> BOOLEAN \cup {None}]
          /\ NoIds \in [Key -> {"RAW", "INT", "STR", "BOOL", "BYTE", None}]
      BY ParseType, FileOfType DEF NoIds
    <2> QED BY <2>1, ParseType, FilesAssumption DEF Init, TypeOK
  <1> QED BY <1>1, TypePreserved, PTL DEF Spec
===============================================================================
