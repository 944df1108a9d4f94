------------------------------ MODULE FrameToJson ------------------------------
(***************************************************************************)
(* can_frame_to_json: which type a CAN id is shown as, and the conversion  *)
(* of a message to the JSON of GET /receive and of the Redis hash.  The    *)
(* conversions of the configuration are registered before any thread       *)
(* starts; later only the main thread registers, for the frames it sends,  *)
(* while workers and the main thread convert.                              *)
(***************************************************************************)
EXTENDS CanMessage

CONSTANTS
    Callers,   \* the threads that call convert_frame
    Messages,  \* the messages they convert
    Sends,     \* <<key, type>> of the frames the main thread sends
    Config,    \* key -> the type of its CAN_CONVERSION_<id> entry, or None
    None       \* no entry

ASSUME ConfigAssumption ==
    /\ None \notin CONVERSATION_TYPE
    /\ Config \in [Key -> (CONVERSATION_TYPE \ {"NONE"}) \cup {None}]
    /\ Sends \subseteq Key \X {"INT", "BOOL", "STR", "BYTE"}
    /\ None \notin Sends
    /\ Messages \subseteq CAN_MESSAGE

VARIABLES
    type_register,  \* std::map<unsigned short, CONVERSATION_TYPE>
    reg_pc,         \* "check" or "register": where main is in auto registration
    reg_send,       \* the <<key, type>> it is registering
    json,           \* caller -> the JSON of its last conversion, or None
    shown,          \* history: keys convert_frame met unregistered
    sent            \* history: key -> the type of the first frame main sent, or None

vars == <<type_register, reg_pc, reg_send, json, shown, sent>>

(* Faulty: a string is made of the whole buffer. *)
DecodeWholeBuffer(type, frame) ==
    CASE type = "INT"  -> <<"number", frame.data[2] * 256 + frame.data[1]>>
      [] type = "BOOL" -> <<"bool", frame.data[1] # 0>>
      [] type = "BYTE" -> <<"number", frame.data[1]>>
      [] type = "STR"  -> <<"string", frame.data>>
      [] OTHER         -> <<"null">>

(* The switch on the type.  Only a string is cut at the frame's length.    *)
Decode(type, frame) ==
    CASE type = "INT"  -> <<"number", frame.data[2] * 256 + frame.data[1]>>
      [] type = "BOOL" -> <<"bool", frame.data[1] # 0>>
      [] type = "BYTE" -> <<"number", frame.data[1]>>
      [] type = "STR"  -> <<"string", Payload(frame)>>
      [] OTHER         -> <<"null">>

(* Faulty: an entry without a type is shown as one. *)
EffectiveTypeNone(k) ==
    IF type_register[k] = None THEN "NONE" ELSE type_register[k]

(* INTERPRET_NONE_TYPE_FRAMES_AS_RAW: an entry without a type reads as RAW. *)
EffectiveType(k) ==
    IF type_register[k] \in {None, "NONE"} THEN "RAW" ELSE type_register[k]

(* The JSON object; an empty hash is computed on the spot. *)
Json(m) ==
    LET type == EffectiveType(U16(m.frame.id)) IN
    [type    |-> type,
     frame   |-> [m.frame EXCEPT !.data = Memcpy([i \in 1 .. BufLen |-> 0], Payload(m.frame))],
     tick    |-> m.sync_tick,
     hash    |-> IF m.hash = NoHash THEN Sha256(Payload(m.frame)) ELSE m.hash,
     payload |-> Decode(type, m.frame)]

register_conversion(k, t) == type_register' = [type_register EXCEPT ![k] = t]

(* The locked type_register[id] of convert_frame, operator[] and all. *)
LookupType(k) == type_register' = Subscript(type_register, k, None, "NONE")

(* What main registers before it starts any thread: id 200 as INT, then    *)
(* the entries of the configuration, which may say otherwise of 200.       *)
Configured ==
    [k \in Key |-> IF k = 200 /\ Config[k] = None THEN "INT" ELSE Config[k]]

Init == /\ type_register = Configured
        /\ reg_pc   = "idle"
        /\ reg_send = None
        /\ json     = [c \in Callers |-> None]
        /\ shown    = {}
        /\ sent     = [k \in Key |-> None]

ConvertFrame(c, m) ==
    LET k == U16(m.frame.id) IN
    /\ LookupType(k)
    /\ json'  = [json EXCEPT ![c] = Json(m)]
    /\ shown' = IF type_register[k] = None THEN shown \cup {k} ELSE shown
    /\ UNCHANGED <<reg_pc, reg_send, sent>>

FirstSent(s) == [sent EXCEPT ![s[1]] = IF @ = None THEN s[2] ELSE @]

(* Faulty: the registered are registered again, the others never. *)
SendCheckInverted(s) ==
    /\ reg_pc = "idle"
    /\ IF type_register[s[1]] # None
       THEN reg_pc' = "register" /\ reg_send' = s /\ UNCHANGED sent
       ELSE sent' = FirstSent(s) /\ UNCHANGED <<reg_pc, reg_send>>
    /\ UNCHANGED <<type_register, json, shown>>

(* Faulty: every send registers its type. *)
SendUnchecked(s) ==
    /\ reg_pc = "idle"
    /\ reg_pc' = "register" /\ reg_send' = s
    /\ UNCHANGED <<type_register, json, shown, sent>>

(* The main loop: check_key_exists, unlock, then register_conversion. *)
SendCheck(s) ==
    /\ reg_pc = "idle"
    /\ IF type_register[s[1]] = None
       THEN reg_pc' = "register" /\ reg_send' = s /\ UNCHANGED sent
       ELSE sent' = FirstSent(s) /\ UNCHANGED <<reg_pc, reg_send>>
    /\ UNCHANGED <<type_register, json, shown>>

SendRegister ==
    /\ reg_pc = "register"
    /\ register_conversion(reg_send[1], reg_send[2])
    /\ reg_pc'   = "idle"
    /\ reg_send' = None
    /\ sent'     = FirstSent(reg_send)
    /\ UNCHANGED <<json, shown>>

Next == \/ \E c \in Callers, m \in Messages : ConvertFrame(c, m)
        \/ \E s \in Sends : SendCheck(s)
        \/ SendRegister

Spec == Init /\ [][Next]_vars

-------------------------------------------------------------------------------
(* The JSON type of the payload of a document of a type. *)
Kind(type) == CASE type \in {"INT", "BYTE"} -> "number"
                [] type = "BOOL"            -> "bool"
                [] type = "STR"             -> "string"
                [] OTHER                    -> "null"

(* What a client may rely on in any document: it names a type other than    *)
(* NONE, carries a digest, and its payload is a JSON value of that type.    *)
IsDocument(d) == /\ d.type \in CONVERSATION_TYPE \ {"NONE"}
                 /\ d.hash \in Hash \ {NoHash}
                 /\ d.payload[1] = Kind(d.type)

(* Types of the register and of auto registration, and that whatever a      *)
(* thread converts, registered or not, hashed or not, becomes a document.   *)
TypeOK == /\ type_register \in [Key -> CONVERSATION_TYPE \cup {None}]
          /\ reg_pc   \in {"idle", "register"}
          /\ reg_send \in Sends \cup {None}
          /\ shown    \in SUBSET Key
          /\ sent     \in [Key -> CONVERSATION_TYPE \cup {None}]
          /\ DOMAIN json = Callers
          /\ \A c \in Callers : json[c] # None => IsDocument(json[c])

(* Once an id has a type, no conversion and no send of another type changes *)
(* it, although the check and the registration of main are two critical     *)
(* sections: clients see one type per id for the life of the process.       *)
TypeIsForGood ==
    [][\A k \in Key : type_register[k] \notin {None, "NONE"} =>
                          type_register'[k] = type_register[k]]_vars

(* Auto registration works for an id that no conversion met first: whatever *)
(* is sent later and whoever converts, its frames are shown as configured,  *)
(* or else as the type of the first of them that was sent.                  *)
SentIdsAreTyped ==
    \A k \in Key : sent[k] # None /\ k \notin shown =>
        type_register[k] = IF Configured[k] # None THEN Configured[k] ELSE sent[k]

(* README: "The type conversion will be applied if a valid json type for    *)
(* `payload` field the is used", of any id sent with such a type.           *)
AutoRegisterApplies ==
    \A k \in Key : sent[k] # None =>
        EffectiveType(k) # "RAW" \/ Configured[k] = "RAW"

(* The bytes a type is read from, whatever the length of the frame. *)
Width(type) == CASE type = "INT" -> 2 [] type \in {"BOOL", "BYTE"} -> 1 [] OTHER -> 0

(* The value shown of a frame that is long enough for its type is a         *)
(* function of the frame's own bytes (those json.frame kept), whichever     *)
(* thread converts and whatever an earlier frame left in the buffer.  Of a  *)
(* shorter frame it is not: INT, BOOL and BYTE do not look at the length.   *)
ShownIsOfTheFrame ==
    \A c \in Callers : json[c] # None /\ json[c].frame.len >= Width(json[c].type) =>
        json[c].payload = Decode(json[c].type, json[c].frame)
===============================================================================
