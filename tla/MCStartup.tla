------------------------------- MODULE MCStartup -------------------------------
(* Startup with four kinds of user's file: the one of the README (a filter  *)
(* and conversions for 207, and for the built-in 200), one with the web     *)
(* server off, no host and a port out of range, one that parses and names   *)
(* no interface, and one with a malformed line; or no file.                 *)
EXTENDS Startup

MCKey  == {200, 207, 42}
MCText == {"", "0", "1", "true", "can0", "can1", "4242", "70000", "0.0.0.0", "127.0.0.1",
           "6379", "CAN", "INT", "bool", "raw"}
MCAtoi == [t \in MCText |-> CASE t = "1" -> 1 [] t = "4242" -> 4242 [] t = "70000" -> 70000
                              [] t = "6379" -> 6379 [] t = "127.0.0.1" -> 127 [] OTHER -> 0]

Listed(a, b, c) == [k \in MCKey |-> IF k = 200 THEN a ELSE IF k = 207 THEN b ELSE c]

UserFile ==
    [ok             |-> TRUE,
     settings       |-> [Defaults EXCEPT !.CAN_SOCKET_IF_NAME = "can1",
                                         !.CAN_DISABLE_PACKET_FILTER = "0",
                                         !.REDIS_ENABLE_WRITE = "0"],
     can_filter     |-> Listed(None, "1", "0"),
     can_conversion |-> Listed("raw", "INT", "bool")]

OfflineFile ==
    [UserFile EXCEPT !.settings = [Defaults EXCEPT !.REST_WEBSERVER_ENABLE = "0",
                                                   !.REST_WEBSERVER_BIND_HOST = "",
                                                   !.REST_WEBSERVER_BIND_PORT = "70000",
                                                   !.REDIS_ENABLE = "true",
                                                   !.REDIS_PORT = "",
                                                   !.REDIS_HASH_NAME = ""],
                     !.can_conversion = Listed(None, "INT", None)]

MCFiles == {UserFile, OfflineFile, [UserFile EXCEPT !.ok = FALSE], None,
            [UserFile EXCEPT !.settings.CAN_SOCKET_IF_NAME = ""]}
===============================================================================
